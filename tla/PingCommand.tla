----------------------------- MODULE PingCommand -----------------------------
(***************************************************************************)
(* Ping: a request that waits until one of the device's folders changes    *)
(* (src/src/commands/PingCommand.ts).  One device, one server process, the *)
(* Redis client that all Pings of the process share.                       *)
(*                                                                         *)
(* A change is a write to a row and then a publish to the row's folder;    *)
(* only who is subscribed by then hears it.  What was written before is    *)
(* found by a look at the rows after the cursors of the last Syncs.        *)
(***************************************************************************)
EXTENDS EasSyncKeyUtils, FiniteSets

CONSTANTS
    Pings,         \* the device's Ping requests, each sent once
    Folders,       \* the folders it asks for
    folderOf,      \* the folder each item's row is in
    readable,      \* the folders each Ping asks for and may read (filterPermitted)
    Synced,        \* the folders the device has synced before
    Listed,        \* the folders whose uid can be in an in(...) list (isListableUid)
    None,          \* no Ping, no answer yet, no cursor
    UseRedis,      \* datastores:events is configured
    BatchRowLimit, \* PENDING_BATCH_ROW_LIMIT
    ScanLimit,     \* PENDING_CHANGE_SCAN_LIMIT
    MaxLag,        \* bound: how much later than its stamp a write commits
    MaxUnheard     \* bound: rows whose publish the client does not hear

ASSUME PingAssumption ==
    /\ folderOf \in [Uids -> Folders]
    /\ readable \in [Pings -> (SUBSET Folders) \ {{}}]
    /\ {Synced, Listed} \subseteq SUBSET Folders
    /\ None \notin Pings
    /\ \A F \in SUBSET Folders : F # None
    /\ MaxTime > 0
    /\ UseRedis \in BOOLEAN
    /\ {BatchRowLimit, ScanLimit, MaxLag, MaxUnheard} \subseteq Nat

\* What loadStates has read: per folder its cursor, per row the own write noted.
States   == [cursor : [Folders -> Cursor \cup {None}], echo : [Uids -> Time]]
NoStates == [cursor |-> [f \in Folders |-> None], echo |-> Never]

\* A look at the rows: its states, the two pages of the batch, and what the batch
\* found, with the folders left to a scan of their own.
Idle == [step |-> "idle", states |-> NoStates, live |-> {}, deleted |-> {},
         found |-> {}, left |-> {}]
Over == [Idle EXCEPT !.step = "over"]

VARIABLES
    clock,       \* the time of the last write
    row,         \* the items' rows: when last written, and whether soft-deleted
    unpublished, \* rows whose last write is not published yet
    unheard,     \* rows whose last publish did not get through to this process
    cursor,      \* EasCollectionState per folder: how far the device has synced
    echo,        \* ... and the stamps of its own writes (echoes)
    told,        \* history: the write of each row that a Sync has told the device of
    connection,  \* PingCommand.subscribers: the shared client
    active,      \* PingCommand.activePings: the device's Ping that waits
    pc,          \* how far each Ping has got with its subscription
    look,        \* its pendingChanges
    listening,   \* its listener is attached to the client
    leaving,     \* its unsubscribe is on its way
    answer       \* the folders it has answered, None while it has not

rows  == <<clock, row, unpublished, unheard>>
synced == <<cursor, echo, told>>
vars  == <<rows, synced, connection, active, pc, look, listening, leaving, answer>>

Settled(p) == answer[p] # None
Waits(p)   == pc[p] # "new" /\ ~Settled(p)

Init ==
    /\ clock = 1
    /\ row = [u \in Uids |-> [at |-> 0, deleted |-> FALSE]]
    /\ unpublished = {}
    /\ unheard = {}
    /\ cursor = [f \in Folders |-> IF f \in Synced THEN Epoch ELSE None]
    /\ echo = Never
    /\ told = Never
    /\ connection = "none"
    /\ active = None
    /\ pc = [p \in Pings |-> "new"]
    /\ look = [p \in Pings |-> Idle]
    /\ listening = [p \in Pings |-> FALSE]
    /\ leaving = [p \in Pings |-> FALSE]
    /\ answer = [p \in Pings |-> None]

-----------------------------------------------------------------------------
(* The rest of the server: writes, publishes, and the device's own Syncs.  *)

Rows ==
    {[uid |-> u, folder |-> folderOf[u], at |-> row[u].at, deleted |-> row[u].deleted] :
        u \in {v \in Uids : row[v].at # 0}}

Written(u, t, deleted) ==
    /\ clock < MaxTime
    /\ u \notin unpublished
    /\ ~row[u].deleted
    /\ t > row[u].at
    /\ clock' = clock + 1
    /\ row' = [row EXCEPT ![u] = [at |-> t, deleted |-> deleted]]
    /\ unpublished' = unpublished \cup {u}
    /\ unheard' = unheard \ {u}

\* Someone else's write; with a MaxLag it may commit after a later one.
Write(u) ==
    /\ \E t \in (clock + 1 - MaxLag)..(clock + 1), deleted \in BOOLEAN :
           /\ deleted => row[u].at # 0
           /\ Written(u, t, deleted)
    /\ UNCHANGED <<synced, connection, active, pc, look, listening, leaving, answer>>

\* The device's own edit in a Sync, which notes its stamp.
SyncEdit(u) ==
    /\ cursor[folderOf[u]] # None
    /\ row[u].at # 0
    /\ Written(u, clock + 1, FALSE)
    /\ echo' = [echo EXCEPT ![u] = clock + 1]
    /\ UNCHANGED <<cursor, told, connection, active, pc, look, listening, leaving, answer>>

\* A round of Sync reports what is in the stream up to some row, late commits included
\* (its overlap).
SyncRound(f) ==
    /\ cursor[f] # None
    /\ \E r \in {q \in Rows : q.folder = f /\ told[q.uid] # q.at} :
           LET upTo == IF Precedes(cursor[f], cursorOf(r)) THEN cursorOf(r) ELSE cursor[f]
           IN  /\ cursor' = [cursor EXCEPT ![f] = upTo]
               /\ told' = [u \in Uids |->
                     IF folderOf[u] = f /\ ~Precedes(upTo, [date |-> row[u].at, uid |-> u])
                     THEN row[u].at ELSE told[u]]
    /\ UNCHANGED <<rows, echo, connection, active, pc, look, listening, leaving, answer>>

\* The connection is down for a moment and the client reconnects by itself.
PublishLost(u) ==
    /\ u \in unpublished
    /\ Cardinality(unheard) < MaxUnheard
    /\ unpublished' = unpublished \ {u}
    /\ unheard' = unheard \cup {u}
    /\ UNCHANGED <<clock, row, synced, connection, active, pc, look, listening,
                   leaving, answer>>

-----------------------------------------------------------------------------
(* handle and waitForChange.                                               *)

\* Mutant of finish: the entry of activePings stays.
finishKeepsEntry(P, found) ==
    /\ answer' = [p \in Pings |-> IF p \in P THEN found ELSE answer[p]]
    /\ look' = [p \in Pings |-> IF p \in P THEN Idle ELSE look[p]]
    /\ leaving' = [p \in Pings |-> leaving[p] \/ (p \in P /\ pc[p] = "subscribed")]
    /\ UNCHANGED active

\* finish, for Pings that still wait: what a look of theirs finds later is ignored.
finish(P, found) ==
    /\ answer' = [p \in Pings |-> IF p \in P THEN found ELSE answer[p]]
    /\ look' = [p \in Pings |-> IF p \in P THEN Idle ELSE look[p]]
    /\ leaving' = [p \in Pings |-> leaving[p] \/ (p \in P /\ pc[p] = "subscribed")]
    /\ active' = IF active \in P THEN None ELSE active

Goes(p, to) == pc' = [pc EXCEPT ![p] = to]
Looks(p)    == look' = [look EXCEPT ![p] = [Idle EXCEPT !.step = "states"]]

\* The permissions are known.  The Ping that waits is answered, its place taken, and
\* the shared client connected unless it is.
waitForChange(p) ==
    /\ pc[p] = "new"
    /\ Goes(p, IF UseRedis THEN "connect" ELSE "alone")
    /\ connection' = IF UseRedis /\ connection = "none" THEN "connecting" ELSE connection
    /\ active' = p
    /\ answer' = [q \in Pings |-> IF q = active THEN {} ELSE answer[q]]
    /\ leaving' = [q \in Pings |-> leaving[q] \/ (q = active /\ pc[q] = "subscribed")]
    /\ look' = [q \in Pings |-> IF q = active THEN Idle
                                ELSE IF q = p /\ ~UseRedis THEN [Idle EXCEPT !.step = "states"]
                                ELSE look[q]]
    /\ UNCHANGED <<rows, synced, listening>>

\* Mutant of Cancel: the timer is armed once the Ping is subscribed.
CancelSubscribed(p) ==
    /\ Waits(p)
    /\ pc[p] \in {"subscribed", "alone"}
    /\ finish({p}, {})
    /\ UNCHANGED <<rows, synced, connection, pc, listening>>

\* The heartbeat is over, or the response is (the device has gone).
Cancel(p) ==
    /\ Waits(p)
    /\ finish({p}, {})
    /\ UNCHANGED <<rows, synced, connection, pc, listening>>

-----------------------------------------------------------------------------
(* The subscription.                                                       *)

Connects ==
    /\ connection = "connecting"
    /\ connection' = "ready"
    /\ UNCHANGED <<rows, synced, active, pc, look, listening, leaving, answer>>

\* getSubscriber forgets the client; whoever has waited for it fails open.
ConnectFails ==
    /\ connection = "connecting"
    /\ connection' = "none"
    /\ pc' = [p \in Pings |-> IF pc[p] = "connect" THEN "alone" ELSE pc[p]]
    /\ look' = [p \in Pings |-> IF pc[p] = "connect" /\ Waits(p)
                                THEN [Idle EXCEPT !.step = "states"] ELSE look[p]]
    /\ UNCHANGED <<rows, synced, active, listening, leaving, answer>>

Subscribe(p) ==
    /\ pc[p] = "connect"
    /\ connection = "ready"
    /\ Goes(p, IF Settled(p) THEN "over" ELSE "subscribe")
    /\ UNCHANGED <<rows, synced, connection, active, look, listening, leaving, answer>>

\* Redis' answer, or an error: from here on publishes reach the listener, or never do.
Subscribed(p) ==
    /\ pc[p] = "subscribe"
    /\ Goes(p, "answered")
    /\ \E ok \in BOOLEAN : listening' = [listening EXCEPT ![p] = ok]
    /\ UNCHANGED <<rows, synced, connection, active, look, leaving, answer>>

\* Mutant of Resume: a Ping answered meanwhile is not looked for.
ResumeSettled(p) ==
    /\ pc[p] = "answered"
    /\ Goes(p, "subscribed")
    /\ IF Settled(p) THEN UNCHANGED look ELSE Looks(p)
    /\ UNCHANGED <<rows, synced, connection, active, listening, leaving, answer>>

\* handle goes on after its subscribe: it leaves again if it was answered meanwhile.
Resume(p) ==
    /\ pc[p] = "answered"
    /\ IF Settled(p)
       THEN /\ Goes(p, "over")
            /\ leaving' = [leaving EXCEPT ![p] = TRUE]
            /\ UNCHANGED look
       ELSE /\ Goes(p, "subscribed")
            /\ Looks(p)
            /\ UNCHANGED leaving
    /\ UNCHANGED <<rows, synced, connection, active, listening, answer>>

\* The client drops the listener.
Unsubscribed(p) ==
    /\ leaving[p]
    /\ leaving' = [leaving EXCEPT ![p] = FALSE]
    /\ listening' = [listening EXCEPT ![p] = FALSE]
    /\ UNCHANGED <<rows, synced, connection, active, pc, look, answer>>

\* Mutant of Publish: the listener does nothing while the look goes on.
PublishAfterLook(u) ==
    /\ u \in unpublished
    /\ unpublished' = unpublished \ {u}
    /\ finish({p \in Pings : /\ Waits(p)
                            /\ listening[p]
                            /\ look[p].step \in {"over", "failed"}
                            /\ folderOf[u] \in readable[p]}, {folderOf[u]})
    /\ UNCHANGED <<clock, row, unheard, synced, connection, pc, listening>>

\* Redis hands it to every listener of the folder at once.
Publish(u) ==
    /\ u \in unpublished
    /\ unpublished' = unpublished \ {u}
    /\ finish({p \in Pings : Waits(p) /\ listening[p] /\ folderOf[u] \in readable[p]}, {folderOf[u]})
    /\ UNCHANGED <<clock, row, unheard, synced, connection, pc, listening>>

-----------------------------------------------------------------------------
(* pendingChanges: the folders with a row the device has not synced.       *)

Known(s, p) == {f \in readable[p] : s.cursor[f] # None}

\* The stream order of one page, up to its limit and one more.
Page(R) == FirstOf(R, BatchRowLimit + 1)

\* One of the two queries of a batch over the folders F: from the earliest cursor on.
Batch(R, s, F, deleted) ==
    Page({r \in R : /\ r.folder \in F
                   /\ r.deleted = deleted
                   /\ \E f \in F : r.at >= s.cursor[f].date})

NewRows(f, R, s) == {r \in R : r.folder = f /\ Precedes(s.cursor[f], cursorOf(r))}

isPending(f, R, s) ==
    LET after == NewRows(f, R, s)
    IN  \/ Cardinality(after) > ScanLimit
        \/ \E r \in after : s.echo[r.uid] # r.at

complete(live, deleted) ==
    Cardinality(live) <= BatchRowLimit /\ Cardinality(deleted) <= BatchRowLimit

\* Pending by what the batch has read, and left undecided by it.
Decided(live, deleted, s, F)   == {f \in F \cap Listed : isPending(f, live \cup deleted, s)}
Undecided(live, deleted, s, F) ==
    (F \ Listed) \cup IF complete(live, deleted) THEN {}
                      ELSE (F \cap Listed) \ Decided(live, deleted, s, F)

\* A folder's own scan.
Scanned(f, R, s) ==
    LET page == scanAfter({r \in R : r.folder = f}, s.cursor[f], ScanLimit)
    IN  isPending(f, page.rows, s) \/ page.more

\* pendingInClass, of rows that stay as they are.
pendingInClass(R, s, F) ==
    LET live    == Batch(R, s, F \cap Listed, FALSE)
        deleted == Batch(R, s, F \cap Listed, TRUE)
    IN  Decided(live, deleted, s, F) \cup
            {f \in Undecided(live, deleted, s, F) : Scanned(f, R, s)}

Reports(p, found) ==
    IF found # {} THEN finish({p}, found)
    ELSE look' = [look EXCEPT ![p] = Over] /\ UNCHANGED <<active, leaving, answer>>

LookUnchanged == UNCHANGED <<rows, synced, connection, pc, listening>>

loadStates(p) ==
    /\ look[p].step = "states"
    /\ LET s == [cursor |-> cursor, echo |-> echo]
       IN  look' = [look EXCEPT ![p] = IF Known(s, p) = {} THEN Over
                                       ELSE [Idle EXCEPT !.step = "both", !.states = s]]
    /\ LookUnchanged
    /\ UNCHANGED <<active, leaving, answer>>

\* Of the two queries that are under way, live or deleted, one is answered.
ReadOne(p, deleted) ==
    /\ look[p].step = "both"
    /\ LET s    == look[p].states
           page == Batch(Rows, s, Known(s, p) \cap Listed, deleted)
       IN  look' = [look EXCEPT ![p] =
               IF deleted THEN [Idle EXCEPT !.step = "live", !.states = s, !.deleted = page]
               ELSE [Idle EXCEPT !.step = "deleted", !.states = s, !.live = page]]
    /\ LookUnchanged
    /\ UNCHANGED <<active, leaving, answer>>

ReadOther(p, deleted) ==
    /\ look[p].step = IF deleted THEN "deleted" ELSE "live"
    /\ LET s       == look[p].states
           F       == Known(s, p)
           page    == Batch(Rows, s, F \cap Listed, deleted)
           liveOf  == IF deleted THEN look[p].live ELSE page
           delOf   == IF deleted THEN page ELSE look[p].deleted
           found   == Decided(liveOf, delOf, s, F)
           left    == Undecided(liveOf, delOf, s, F)
       IN  IF left = {} THEN Reports(p, found)
           ELSE /\ look' = [look EXCEPT ![p] = [Idle EXCEPT !.step = "scan", !.states = s,
                                                !.found = found, !.left = left]]
                /\ UNCHANGED <<active, leaving, answer>>
    /\ LookUnchanged

\* The folders that the batch could not decide.
Scan(p) ==
    /\ look[p].step = "scan"
    /\ LET s == look[p].states
       IN  Reports(p, look[p].found \cup {f \in look[p].left : Scanned(f, Rows, s)})
    /\ LookUnchanged

\* A query fails: nothing is pending.
LookFails(p) ==
    /\ look[p].step \notin {"idle", "over", "failed"}
    /\ look' = [look EXCEPT ![p] = [Idle EXCEPT !.step = "failed"]]
    /\ LookUnchanged
    /\ UNCHANGED <<active, leaving, answer>>

-----------------------------------------------------------------------------
\* What the process does by itself: its promises and its timer.
Proceed(p) == Subscribe(p) \/ Resume(p)

\* The database answers.
Query(p) ==
    \/ loadStates(p) \/ Scan(p) \/ LookFails(p)
    \/ \E deleted \in BOOLEAN : ReadOne(p, deleted) \/ ReadOther(p, deleted)

Next ==
    \/ \E u \in Uids : Write(u) \/ SyncEdit(u) \/ Publish(u) \/ PublishLost(u)
    \/ \E f \in Folders : SyncRound(f)
    \/ Connects \/ ConnectFails
    \/ \E p \in Pings : \/ waitForChange(p) \/ Proceed(p) \/ Cancel(p)
                        \/ Subscribed(p) \/ Unsubscribed(p) \/ Query(p)

Spec == Init /\ [][Next]_vars

\* The process goes on and its timers fire.  Redis need not answer a connect or a
\* subscribe, nor the database a query.
FairSpec ==
    /\ Spec
    /\ \A p \in Pings : WF_vars(Proceed(p)) /\ WF_vars(Cancel(p))

-----------------------------------------------------------------------------
(* Properties.                                                             *)

\* Every variable has its type.
TypeOK ==
    /\ clock \in 1..MaxTime
    /\ row \in [Uids -> [at : Time, deleted : BOOLEAN]]
    /\ {unpublished, unheard} \subseteq SUBSET Uids
    /\ cursor \in [Folders -> Cursor \cup {None}]
    /\ {echo, told} \subseteq [Uids -> Time]
    /\ connection \in {"none", "connecting", "ready"}
    /\ active \in Pings \cup {None}
    /\ pc \in [Pings -> {"new", "connect", "subscribe", "answered", "subscribed",
                         "alone", "over"}]
    /\ \A p \in Pings :
           /\ look[p].step \in {"idle", "states", "both", "live", "deleted", "scan", "over",
                                "failed"}
           /\ look[p].states \in States
           /\ {look[p].found, look[p].left} \subseteq SUBSET Folders
    /\ {listening, leaving} \subseteq [Pings -> BOOLEAN]
    /\ answer \in [Pings -> {None} \cup SUBSET Folders]

\* "At most one active Ping per (mailbox, device) per process" (PingCommand.ts:61):
\* the Ping that waits is the one activePings has, and activePings keeps none that
\* has been answered, whatever order they are permitted, subscribed and ended in.
OneActive == \A p \in Pings : Waits(p) <=> active = p

\* The device has not been told of the row's last write.
Unsynced(u) ==
    /\ row[u].at # 0
    /\ cursor[folderOf[u]] # None
    /\ row[u].at \notin {told[u], echo[u]}

\* A Ping that listens and has looked misses nothing: whatever the device has not
\* synced in its folders is still to be published, unless the client was cut off when
\* it was.  What was written before the subscribe is in the look, however its queries
\* and the writes cross, and what it does not show is published later.
NothingMissed ==
    \A p \in Pings : Waits(p) /\ listening[p] /\ look[p].step = "over" =>
        \A u \in Uids : Unsynced(u) /\ folderOf[u] \in readable[p] => u \in unpublished \cup unheard

\* No listener stays on the shared client for a Ping that has been answered, whether it
\* was before, during or after its subscribe: the unsubscribe is on its way, or handle
\* still has to find out.
ListenersLeave ==
    \A p \in Pings : Settled(p) /\ listening[p] => leaving[p] \/ pc[p] = "answered"

\* A Ping is answered, whatever Redis and the database do or do not.
AlwaysAnswers == \A p \in Pings : Waits(p) ~> Settled(p)
=============================================================================
