--------------------------- MODULE DeviceSyncState ---------------------------
(***************************************************************************)
(* The row of a paired device and everyone who writes to it: the dispatch  *)
(* of every request (src/src/BaseEasRoute.ts), Provision and remote wipe   *)
(* (src/src/commands/ProvisionCommand.ts, src/src/                         *)
(* BaseDeviceSyncStateRoute.ts) and the clean-up of forgotten devices      *)
(* (src/src/jobs/EasDeviceStateCleanupJob.ts).                             *)
(*                                                                         *)
(* Requests read the row once, decide on what they read, and write later   *)
(* under the row's version; who loses that race reads again and applies    *)
(* the same patch to what it finds (persistDeviceSyncState).               *)
(*                                                                         *)
(* The client may send anything, with any policy key there has been.       *)
(***************************************************************************)
EXTENDS Integers, FiniteSets

CONSTANTS
    Reqs,        \* slots for requests, the device's and the administrator's
    PolicyKeys,  \* policy keys: random, so that none is minted twice
    None,        \* no policy key
    MaxAttempts  \* PERSIST_MAX_ATTEMPTS

ASSUME DeviceAssumption ==
    /\ None \notin PolicyKeys
    /\ MaxAttempts \in Nat \ {0}

VARIABLES
    row,     \* the DeviceSyncState row
    pc,      \* where each request is
    req,     \* what it asks, with which policy key
    copy,    \* the row as it has read it
    version, \* whether that copy still has the row's version
    tries,   \* attempts to write it
    todo,    \* the patch it is writing
    job,     \* whether the clean-up has picked the row
    minted,  \* history: the policy keys issued so far
    acked,   \* history: those the client has acknowledged
    old,     \* history: those minted before the last request of a wipe
    crossed, \* history: the Provisions that had decided and not written when this row
             \* was last marked to be wiped
    locked   \* history: whether the row has been marked to be wiped, or blocked,
             \* since the clean-up picked it

vars == <<row, pc, req, copy, version, tries, todo, job, minted, acked, old, crossed, locked>>
work == <<copy, version, tries, todo>>
wiping  == <<old, crossed, locked>>
history == <<minted, acked, wiping>>

\* lastSync is "old" also while it is not set.
Rows == [exists : BOOLEAN, policyKey : PolicyKeys \cup {None}, provisioned : BOOLEAN,
         wipe : BOOLEAN, blocked : BOOLEAN, lastSync : {"recent", "old"}]
NoRow  == [exists |-> FALSE, policyKey |-> None, provisioned |-> FALSE,
           wipe |-> FALSE, blocked |-> FALSE, lastSync |-> "old"]
NewRow == [NoRow EXCEPT !.exists = TRUE]

\* A command, one that is served before provisioning (Settings), the three
\* requests of Provision, and the administrator's two.
Provisions == {"issue", "ack", "wiped"}
Admin      == {"wipe", "unblock"}
Kinds      == {"command", "exempt"} \cup Provisions \cup Admin
NoRequest  == [kind |-> "command", key |-> None]

Writing == {"persist", "reread"}

Init ==
    /\ row = NoRow
    /\ pc = [r \in Reqs |-> "idle"]
    /\ req = [r \in Reqs |-> NoRequest]
    /\ copy = [r \in Reqs |-> NoRow]
    /\ version = [r \in Reqs |-> "current"]
    /\ tries = [r \in Reqs |-> 0]
    /\ todo = [r \in Reqs |-> "none"]
    /\ job = FALSE
    /\ minted = {}
    /\ acked = {}
    /\ old = {}
    /\ crossed = {}
    /\ locked = FALSE

-----------------------------------------------------------------------------
(* The patches.                                                            *)

\* Mutant of Patch: an acknowledgement only sets the flag.
PatchFlagOnly(what, key, r) ==
    CASE what = "issue"   -> [r EXCEPT !.policyKey = key, !.provisioned = FALSE]
      [] what = "ack"     -> [r EXCEPT !.provisioned = TRUE]
      [] what = "wiped"   -> [r EXCEPT !.wipe = FALSE, !.blocked = TRUE]
      [] what = "wipe"    -> [r EXCEPT !.wipe = TRUE, !.provisioned = FALSE,
                                       !.policyKey = None]
      [] what = "unblock" -> [r EXCEPT !.blocked = FALSE]
      [] OTHER            -> [r EXCEPT !.lastSync = "recent"]

\* Mutant of Patch: a wipe leaves the policy key.
PatchKeepsKey(what, key, r) ==
    CASE what = "issue"   -> [r EXCEPT !.policyKey = key, !.provisioned = FALSE]
      [] what = "ack"     -> [r EXCEPT !.policyKey = key, !.provisioned = TRUE]
      [] what = "wiped"   -> [r EXCEPT !.wipe = FALSE, !.blocked = TRUE]
      [] what = "wipe"    -> [r EXCEPT !.wipe = TRUE, !.provisioned = FALSE]
      [] what = "unblock" -> [r EXCEPT !.blocked = FALSE]
      [] OTHER            -> [r EXCEPT !.lastSync = "recent"]

\* What each writer makes of the row: constants, whatever it finds there.
Patch(what, key, r) ==
    CASE what = "issue"   -> [r EXCEPT !.policyKey = key, !.provisioned = FALSE]
      [] what = "ack"     -> [r EXCEPT !.policyKey = key, !.provisioned = TRUE]
      [] what = "wiped"   -> [r EXCEPT !.wipe = FALSE, !.blocked = TRUE]
      [] what = "wipe"    -> [r EXCEPT !.wipe = TRUE, !.provisioned = FALSE,
                                       !.policyKey = None]
      [] what = "unblock" -> [r EXCEPT !.blocked = FALSE]
      [] OTHER            -> [r EXCEPT !.lastSync = "recent"]

-----------------------------------------------------------------------------
(* Requests.                                                               *)

\* Bound: no more policies are asked for than there are keys to issue.
KeysLeft ==
    Cardinality({q \in Reqs : pc[q] \in {"sent", "create"} /\ req[q].kind = "issue"})
        < Cardinality(PolicyKeys \ minted)

Send(r, kind, key) ==
    /\ pc[r] = "idle"
    /\ kind = "issue" => KeysLeft
    /\ key # None => kind \in {"command", "ack"} /\ key \in minted
    /\ kind = "ack" => key # None
    /\ pc' = [pc EXCEPT ![r] = "sent"]
    /\ req' = [req EXCEPT ![r] = [kind |-> kind, key |-> key]]
    /\ acked' = IF kind = "ack" THEN acked \cup {key} ELSE acked
    /\ UNCHANGED <<row, work, job, minted, wiping>>

\* r is answered, and its handler's variables are gone.
Ends(r) ==
    /\ pc' = [pc EXCEPT ![r] = "idle"]
    /\ req' = [req EXCEPT ![r] = NoRequest]
    /\ copy' = [copy EXCEPT ![r] = NoRow]
    /\ tries' = [tries EXCEPT ![r] = 0]
    /\ todo' = [todo EXCEPT ![r] = "none"]
Answer(r) == Ends(r) /\ version' = [version EXCEPT ![r] = "current"]

\* The gate of dispatch: 403 for a blocked device, 449 without the policy key
\* that the device has acknowledged.
Refused(r, c) ==
    \/ req[r].kind \in {"command", "exempt"} /\ c.blocked
    \/ /\ req[r].kind = "command"
       /\ ~c.provisioned \/ c.policyKey = None \/ req[r].key # c.policyKey

\* Mutant of Applies: a pending wipe does not keep a device from provisioning.
AppliesPastWipe(r, c) ==
    \/ req[r].kind \in Admin
    \/ /\ req[r].kind \in Provisions
       /\ ~c.blocked
       /\ req[r].kind = "wiped" => c.wipe
       /\ req[r].kind = "ack" => req[r].key = c.policyKey

\* Whether the handler does what it is asked for, the row being as it was read: no
\* Provision of a blocked device, while a wipe is pending only its acknowledgement,
\* and of a policy only that of the row's key.
Applies(r, c) ==
    \/ req[r].kind \in Admin
    \/ /\ req[r].kind \in Provisions
       /\ ~c.blocked
       /\ req[r].kind = "wiped" <=> c.wipe
       /\ req[r].kind = "ack" => req[r].key = c.policyKey

\* r, with the row c before it, goes through the gate and its handler up to the
\* first write.  Issuing a policy mints its key.
Handle(r, c) ==
    IF Refused(r, c) THEN Answer(r) /\ UNCHANGED minted
    ELSE LET what == IF Applies(r, c) THEN req[r].kind ELSE "seen"
         IN  /\ pc' = [pc EXCEPT ![r] = "persist"]
             /\ copy' = [copy EXCEPT ![r] = c]
             /\ version' = [version EXCEPT ![r] = "current"]
             /\ tries' = [tries EXCEPT ![r] = 1]
             /\ todo' = [todo EXCEPT ![r] = what]
             /\ IF what = "issue"
                THEN \E k \in PolicyKeys \ minted :
                        /\ minted' = minted \cup {k}
                        /\ req' = [req EXCEPT ![r].key = k]
                ELSE UNCHANGED <<minted, req>>

Find(r) ==
    /\ pc[r] = "sent"
    /\ row.exists
    /\ Handle(r, row)
    /\ UNCHANGED <<row, job, acked, wiping>>

\* A device without a row gets one; for the administrator it does not exist (404).
FindNothing(r) ==
    /\ pc[r] = "sent"
    /\ ~row.exists
    /\ IF req[r].kind \in Admin THEN Answer(r)
       ELSE pc' = [pc EXCEPT ![r] = "create"] /\ UNCHANGED <<req, work>>
    /\ UNCHANGED <<row, job, history>>

Create(r) ==
    /\ pc[r] = "create"
    /\ ~row.exists
    /\ row' = NewRow
    /\ Handle(r, NewRow)
    /\ UNCHANGED <<job, acked, wiping>>

\* Another request has created the row: the unique index refuses a second one.
CreateRefused(r) ==
    /\ pc[r] = "create"
    /\ row.exists
    /\ Answer(r)
    /\ UNCHANGED <<row, job, history>>

-----------------------------------------------------------------------------
(* persistDeviceSyncState.                                                 *)

\* Everyone else's copy of the row is of an older version now.
Outdates(r) ==
    version' = [q \in Reqs |-> IF q # r /\ pc[q] \in Writing /\ version[q] = "current"
                               THEN "old" ELSE version[q]]

\* The Provisions that go on writing what they decided from an older row.
Crossing == {req[q] : q \in {p \in Reqs : /\ pc[p] \in Writing /\ version[p] # "gone"
                                         /\ todo[p] \in {"issue", "ack"}}}
Locks(r) == locked' = (locked \/ (job /\ todo[r] \in {"wipe", "wiped"}))

\* Mutant of Update: the version is not looked at.
UpdateUnversioned(r) ==
    /\ pc[r] = "persist"
    /\ version[r] # "gone"
    /\ todo[r] \in Provisions
    /\ LET c == Patch(todo[r], req[r].key, copy[r])
       IN  row' = c /\ copy' = [copy EXCEPT ![r] = c]
    /\ todo' = [todo EXCEPT ![r] = "seen"]
    /\ tries' = [tries EXCEPT ![r] = 1]
    /\ Outdates(r)
    /\ Locks(r)
    /\ UNCHANGED <<pc, req, job, minted, acked, old, crossed>>

\* The write of a Provision.  Then the time of the request is to be noted.
Update(r) ==
    /\ pc[r] = "persist"
    /\ version[r] = "current"
    /\ todo[r] \in Provisions
    /\ LET c == Patch(todo[r], req[r].key, copy[r])
       IN  row' = c /\ copy' = [copy EXCEPT ![r] = c]
    /\ todo' = [todo EXCEPT ![r] = "seen"]
    /\ tries' = [tries EXCEPT ![r] = 1]
    /\ Outdates(r)
    /\ Locks(r)
    /\ UNCHANGED <<pc, req, job, minted, acked, old, crossed>>

\* The last write of a request: the administrator's, or the time of a device's.
LastUpdate(r) ==
    /\ pc[r] = "persist"
    /\ version[r] = "current"
    /\ todo[r] \notin Provisions
    /\ row' = Patch(todo[r], req[r].key, copy[r])
    /\ IF todo[r] = "wipe" THEN old' = minted /\ crossed' = Crossing
                           ELSE UNCHANGED <<old, crossed>>
    /\ Locks(r)
    /\ Ends(r)
    /\ Outdates(r)
    /\ UNCHANGED <<job, minted, acked>>

\* The version has changed: read the row again, unless that was tried too often.  The
\* copy is of no use then.
Conflict(r) ==
    /\ pc[r] = "persist"
    /\ version[r] = "old"
    /\ tries[r] < MaxAttempts
    /\ pc' = [pc EXCEPT ![r] = "reread"]
    /\ tries' = [tries EXCEPT ![r] = @ + 1]
    /\ copy' = [copy EXCEPT ![r] = NoRow]
    /\ UNCHANGED <<row, req, version, todo, job, history>>

\* The same patch is applied to what is there now.
Reread(r) ==
    /\ pc[r] = "reread"
    /\ version[r] # "gone"
    /\ copy' = [copy EXCEPT ![r] = row]
    /\ version' = [version EXCEPT ![r] = "current"]
    /\ pc' = [pc EXCEPT ![r] = "persist"]
    /\ UNCHANGED <<row, req, tries, todo, job, history>>

\* Too many attempts, or the row is gone: an error, but for the time of a request,
\* which nobody minds.
PersistFails(r) ==
    /\ \/ pc[r] = "persist" /\ version[r] = "old" /\ tries[r] >= MaxAttempts
       \/ pc[r] \in Writing /\ version[r] = "gone"
    /\ Answer(r)
    /\ UNCHANGED <<row, job, history>>

\* The process dies, or the database refuses.
Die(r) ==
    /\ pc[r] # "idle"
    /\ Answer(r)
    /\ UNCHANGED <<row, job, history>>

-----------------------------------------------------------------------------
(* The clean-up.                                                           *)

\* The device has not been heard of for days; no request takes that long.
Age ==
    /\ row.exists
    /\ row.lastSync = "recent"
    /\ \A r \in Reqs : pc[r] = "idle"
    /\ row' = [row EXCEPT !.lastSync = "old"]
    /\ UNCHANGED <<pc, req, work, job, history>>

\* Mutant of Pick: blocked devices are forgotten, too.
PickBlocked ==
    /\ ~job
    /\ row.exists
    /\ row.lastSync = "old"
    /\ ~row.wipe
    /\ job' = TRUE
    /\ locked' = FALSE
    /\ UNCHANGED <<row, pc, req, work, minted, acked, old, crossed>>

\* A device is to be forgotten unless it is to be wiped or is locked out.
Pick ==
    /\ ~job
    /\ row.exists
    /\ row.lastSync = "old"
    /\ ~row.wipe
    /\ ~row.blocked
    /\ job' = TRUE
    /\ locked' = FALSE
    /\ UNCHANGED <<row, pc, req, work, minted, acked, old, crossed>>

\* Its row is deleted as it was picked, whatever it has become.
Purge ==
    /\ job
    /\ job' = FALSE
    /\ row' = NoRow
    /\ version' = [r \in Reqs |-> IF pc[r] \in Writing THEN "gone" ELSE version[r]]
    /\ crossed' = {}
    /\ locked' = FALSE
    /\ UNCHANGED <<pc, req, copy, tries, todo, minted, acked, old>>

PurgeFails ==
    /\ job
    /\ job' = FALSE
    /\ locked' = FALSE
    /\ UNCHANGED <<row, pc, req, work, minted, acked, old, crossed>>

-----------------------------------------------------------------------------
Serve(r) ==
    \/ Find(r) \/ FindNothing(r) \/ Create(r) \/ CreateRefused(r)
    \/ Update(r) \/ LastUpdate(r) \/ Conflict(r) \/ Reread(r) \/ PersistFails(r)

Next ==
    \/ \E r \in Reqs, kind \in Kinds, key \in PolicyKeys \cup {None} : Send(r, kind, key)
    \/ \E r \in Reqs : Serve(r) \/ Die(r)
    \/ Age \/ Pick \/ Purge \/ PurgeFails

Spec == Init /\ [][Next]_vars
-----------------------------------------------------------------------------
(* Properties.                                                             *)

Requests == [kind : Kinds, key : PolicyKeys \cup {None}]

\* Every variable has its type.
TypeOK ==
    /\ row \in Rows
    /\ pc \in [Reqs -> {"idle", "sent", "create"} \cup Writing]
    /\ req \in [Reqs -> Requests]
    /\ copy \in [Reqs -> Rows]
    /\ version \in [Reqs -> {"current", "old", "gone"}]
    /\ tries \in [Reqs -> 0..MaxAttempts]
    /\ todo \in [Reqs -> {"none", "seen"} \cup Provisions \cup Admin]
    /\ job \in BOOLEAN
    /\ {minted, acked, old} \subseteq SUBSET PolicyKeys
    /\ crossed \subseteq Requests
    /\ locked \in BOOLEAN

\* "requires the device to be provisioned AND to present the policy key it
\* acknowledged" (BaseEasRoute.ts:210-211): the key that opens the gate is one the
\* device has acknowledged, whichever Provisions ran beside each other.
ProvisionedByAck == row.provisioned => row.policyKey \in acked

\* "While a wipe is pending, every other Provision request ... never provisions"
\* (ProvisionCommand.ts:38-39): a device that is to be wiped is not provisioned.
WipeSticks == row.wipe => ~row.provisioned

\* What holds of it, whoever races: only the acknowledgement of a policy that had
\* been accepted, and not written, when the wipe was requested provisions a device
\* that is to be wiped, and no Provision or command of later.
WipeCrossed ==
    row.wipe /\ row.provisioned => [kind |-> "ack", key |-> row.policyKey] \in crossed

\* "so a device can't keep syncing on its old key" (ProvisionCommand.ts:41): a key
\* from before a wipe was requested opens the gate, then or ever after, only if a
\* Provision that the request crossed has brought it back.
FreshKey ==
    row.provisioned /\ row.policyKey \in old => \E q \in crossed : q.key = row.policyKey

\* "A row with a pending remote wipe is never purged ... Nor is a device blocked"
\* (EasDeviceStateCleanupJob.ts:102-104): a device that is to be wiped stays so until
\* it is blocked, and a blocked one until an administrator's unblock is written,
\* whatever else is under way. The clean-up forgets neither, unless it was requested
\* or acknowledged after the clean-up had picked the row.
LockoutKept ==
    [][LET forgotten == job /\ locked /\ ~row'.exists
       IN  /\ row.wipe => row'.wipe \/ row'.blocked \/ forgotten
           /\ row.blocked /\ ~row'.blocked =>
                 forgotten \/ \E r \in Reqs : todo[r] = "unblock" /\ pc'[r] = "idle"]_vars

\* Nobody's write takes back another's: a write changes the row as it is, by the
\* writer's patch and nothing else (persistDeviceSyncState: "merges into what the
\* other request wrote rather than overwriting it").
PatchesMerge ==
    [][row.exists /\ row'.exists =>
         \/ row' = [row EXCEPT !.lastSync = "old"]
         \/ \E r \in Reqs : pc[r] = "persist" /\ row' = Patch(todo[r], req[r].key, row)]_row
=============================================================================
