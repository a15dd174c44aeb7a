------------------------ MODULE DeviceSyncStateProofs ------------------------
(***************************************************************************)
(* DeviceSyncState for any number of requests, policy keys and attempts:   *)
(* no write to the device's row takes back another, the gate opens only    *)
(* for a key that was acknowledged, and a wipe is circumvented only by a   *)
(* Provision or a clean-up that it has crossed.                            *)
(***************************************************************************)
EXTENDS DeviceSyncState, TLAPS

\* A request writes what it asks for, and an acknowledgement comes with a key that
\* has been acknowledged.
Asked ==
    \A r \in Reqs :
        /\ pc[r] \in Writing /\ todo[r] \in Provisions \cup Admin => req[r].kind = todo[r]
        /\ req[r].kind = "ack" => req[r].key \in acked

\* A copy with the row's version is the row, and a request whose row is not gone
\* has one.
CopyCurrent ==
    \A r \in Reqs :
        pc[r] \in Writing /\ version[r] # "gone" =>
            row.exists /\ (version[r] = "current" => copy[r] = row)

IInv == TypeOK /\ Asked /\ CopyCurrent /\ ProvisionedByAck

\* What the patches do to each field.
LEMMA PatchFields ==
    ASSUME NEW c \in Rows, NEW what, NEW key
    PROVE  LET p == Patch(what, key, c) IN
           /\ key \in PolicyKeys \cup {None} => p \in Rows
           /\ p.exists = c.exists
           /\ what \notin {"issue", "ack", "wipe"} =>
                p.policyKey = c.policyKey /\ p.provisioned = c.provisioned
           /\ what \in {"issue", "wipe"} => ~p.provisioned
           /\ what \in {"issue", "ack"} => p.policyKey = key
           /\ what = "wipe" => p.policyKey = None
           /\ what \notin {"wiped", "wipe"} => p.wipe = c.wipe
           /\ what = "wiped" => p.blocked /\ ~p.wipe
           /\ what = "wipe" => p.wipe
           /\ what \notin {"wiped", "unblock"} => p.blocked = c.blocked
  BY DEF Patch, Rows

LEMMA NewRowTyped == NoRow \in Rows /\ NewRow \in Rows
  BY DEF NoRow, NewRow, Rows

\* The initial state satisfies the invariant.
LEMMA InitIInv == Init => IInv
<1> SUFFICES ASSUME Init
             PROVE  IInv
  OBVIOUS
<1>1. TypeOK
  <2>1. NoRequest \in Requests
    BY DEF NoRequest, Requests, Kinds
  <2>2. minted \subseteq PolicyKeys /\ acked \subseteq PolicyKeys /\ old \subseteq PolicyKeys
    BY DEF Init
  <2>3. tries \in [Reqs -> 0..MaxAttempts]
    BY DeviceAssumption DEF Init
  <2>4. row \in Rows /\ copy \in [Reqs -> Rows] /\ req \in [Reqs -> Requests]
    BY <2>1, NewRowTyped DEF Init
  <2> QED
    BY <2>2, <2>3, <2>4 DEF Init, TypeOK
<1>2. Asked /\ CopyCurrent
  BY DEF Init, Asked, CopyCurrent, NoRequest, Writing
<1>3. ProvisionedByAck
  BY DEF Init, ProvisionedByAck, NoRow
<1> QED
  BY <1>1, <1>2, <1>3 DEF IInv

\* An answer keeps the types of what it touches.
LEMMA EndsTyped ==
    ASSUME TypeOK, NEW r \in Reqs, Ends(r)
    PROVE  /\ pc' \in [Reqs -> {"idle", "sent", "create"} \cup Writing]
           /\ req' \in [Reqs -> Requests]
           /\ copy' \in [Reqs -> Rows]
           /\ tries' \in [Reqs -> 0..MaxAttempts]
           /\ todo' \in [Reqs -> {"none", "seen"} \cup Provisions \cup Admin]
  BY NewRowTyped, DeviceAssumption DEF Ends, TypeOK, NoRequest, Requests, Kinds

\* So does a request on its way through the gate.
LEMMA HandleTyped ==
    ASSUME TypeOK, NEW r \in Reqs, NEW c \in Rows, Handle(r, c)
    PROVE  /\ pc' \in [Reqs -> {"idle", "sent", "create"} \cup Writing]
           /\ req' \in [Reqs -> Requests]
           /\ copy' \in [Reqs -> Rows]
           /\ version' \in [Reqs -> {"current", "old", "gone"}]
           /\ tries' \in [Reqs -> 0..MaxAttempts]
           /\ todo' \in [Reqs -> {"none", "seen"} \cup Provisions \cup Admin]
           /\ minted' \subseteq PolicyKeys
<1>1. CASE Refused(r, c)
  BY <1>1, EndsTyped DEF Handle, Answer, TypeOK
<1>2. CASE ~Refused(r, c)
  <2>1. Applies(r, c) => req[r].kind \in Provisions \cup Admin
    BY DEF Applies
  <2>2. req' \in [Reqs -> Requests]
    BY <1>2 DEF Handle, TypeOK, Requests
  <2>3. minted' \subseteq PolicyKeys
    BY <1>2 DEF Handle, TypeOK
  <2>4. todo' \in [Reqs -> {"none", "seen"} \cup Provisions \cup Admin]
    BY <1>2, <2>1 DEF Handle, TypeOK
  <2> QED
    BY <1>2, <2>2, <2>3, <2>4, DeviceAssumption DEF Handle, TypeOK, Writing
<1> QED
  BY <1>1, <1>2

\* Every step keeps the types.
LEMMA NextKeepsTypes ==
    ASSUME TypeOK, Next
    PROVE  TypeOK'
<1>1. ASSUME NEW r \in Reqs, NEW kind \in Kinds, NEW key \in PolicyKeys \cup {None},
             Send(r, kind, key)
      PROVE  TypeOK'
  BY <1>1 DEF Send, TypeOK, Requests, work, wiping
<1>2. ASSUME NEW r \in Reqs, Find(r)
      PROVE  TypeOK'
  BY <1>2, HandleTyped DEF Find, TypeOK, wiping
<1>3. ASSUME NEW r \in Reqs, FindNothing(r)
      PROVE  TypeOK'
  BY <1>3, EndsTyped DEF FindNothing, Answer, TypeOK, work, history, wiping
<1>4. ASSUME NEW r \in Reqs, Create(r)
      PROVE  TypeOK'
  BY <1>4, HandleTyped, NewRowTyped DEF Create, TypeOK, wiping
<1>5. ASSUME NEW r \in Reqs, CreateRefused(r) \/ PersistFails(r) \/ Die(r)
      PROVE  TypeOK'
  BY <1>5, EndsTyped DEF CreateRefused, PersistFails, Die, Answer, TypeOK, history, wiping
<1>6. ASSUME NEW r \in Reqs, Update(r)
      PROVE  TypeOK'
  <2>1. Patch(todo[r], req[r].key, copy[r]) \in Rows
    BY PatchFields DEF TypeOK, Requests
  <2> QED
    BY <1>6, <2>1, DeviceAssumption DEF Update, Outdates, Locks, TypeOK
<1>7. ASSUME NEW r \in Reqs, LastUpdate(r)
      PROVE  TypeOK'
  <2>1. Patch(todo[r], req[r].key, copy[r]) \in Rows
    BY PatchFields DEF TypeOK, Requests
  <2>2. Crossing \subseteq Requests
    BY DEF Crossing, TypeOK
  <2> QED
    BY <1>7, <2>1, <2>2, EndsTyped DEF LastUpdate, Outdates, Locks, TypeOK
<1>8. ASSUME NEW r \in Reqs, Conflict(r) \/ Reread(r)
      PROVE  TypeOK'
  BY <1>8, NewRowTyped, DeviceAssumption DEF Conflict, Reread, TypeOK, Writing, history, wiping
<1>9. CASE Age
  BY <1>9 DEF Age, TypeOK, Rows, work, history, wiping
<1>10. CASE Pick \/ Purge \/ PurgeFails
  BY <1>10, NewRowTyped DEF Pick, Purge, PurgeFails, TypeOK, work, history, wiping
<1> QED
  BY <1>1, <1>2, <1>3, <1>4, <1>5, <1>6, <1>7, <1>8, <1>9, <1>10 DEF Next, Serve

\* Every step keeps requests writing what they ask for.
LEMMA NextKeepsAsked ==
    ASSUME TypeOK, Asked, Next
    PROVE  Asked'
<1>1. ASSUME NEW r \in Reqs, NEW kind \in Kinds, NEW key \in PolicyKeys \cup {None},
             Send(r, kind, key)
      PROVE  Asked'
  BY <1>1 DEF Send, Asked, TypeOK, Requests, Writing, work
<1>2. ASSUME NEW r \in Reqs, NEW c \in Rows, Handle(r, c), acked' = acked
      PROVE  Asked'
  <2>1. CASE Refused(r, c)
    BY <1>2, <2>1 DEF Handle, Answer, Ends, Asked, TypeOK, Writing, NoRequest
  <2>2. CASE ~Refused(r, c)
    <3>1. \A q \in Reqs \ {r} :
             pc'[q] = pc[q] /\ todo'[q] = todo[q] /\ req'[q] = req[q]
      BY <1>2, <2>2 DEF Handle, TypeOK
    <3>2. req'[r].kind = req[r].kind /\ (req[r].kind # "issue" => req'[r] = req[r])
      BY <1>2, <2>2 DEF Handle, TypeOK, Requests
    <3>3. todo'[r] \in {req[r].kind, "seen"}
      BY <1>2, <2>2 DEF Handle, TypeOK
    <3> QED
      BY <1>2, <3>1, <3>2, <3>3 DEF Asked, Provisions, Admin
  <2> QED
    BY <2>1, <2>2
<1>3. ASSUME NEW r \in Reqs, Ends(r), acked' = acked
      PROVE  Asked'
  BY <1>3 DEF Ends, Asked, TypeOK, Writing, NoRequest
<1>4. ASSUME NEW r \in Reqs, Find(r) \/ Create(r)
      PROVE  Asked'
  BY <1>2, <1>4, NewRowTyped DEF Find, Create, TypeOK
<1>5. ASSUME NEW r \in Reqs, FindNothing(r)
      PROVE  Asked'
  BY <1>3, <1>5 DEF FindNothing, Answer, Asked, TypeOK, Writing, work, history, wiping
<1>6. ASSUME NEW r \in Reqs,
             CreateRefused(r) \/ PersistFails(r) \/ Die(r) \/ LastUpdate(r)
      PROVE  Asked'
  BY <1>3, <1>6 DEF CreateRefused, PersistFails, Die, LastUpdate, Answer, history, wiping
<1>7. ASSUME NEW r \in Reqs, Update(r) \/ Conflict(r) \/ Reread(r)
      PROVE  Asked'
  BY <1>7 DEF Update, Conflict, Reread, Asked, TypeOK, Writing, Provisions, Admin, history, wiping
<1>8. CASE Age \/ Pick \/ Purge \/ PurgeFails
  BY <1>8 DEF Age, Pick, Purge, PurgeFails, Asked, work, history, wiping
<1> QED
  BY <1>1, <1>4, <1>5, <1>6, <1>7, <1>8 DEF Next, Serve

\* Every step keeps the copies with the row's version equal to the row.
LEMMA NextKeepsCopies ==
    ASSUME TypeOK, CopyCurrent, Next
    PROVE  CopyCurrent'
<1>1. ASSUME NEW r \in Reqs, NEW kind \in Kinds, NEW key \in PolicyKeys \cup {None},
             Send(r, kind, key)
      PROVE  CopyCurrent'
  BY <1>1 DEF Send, CopyCurrent, TypeOK, Writing, work
<1>2. ASSUME NEW r \in Reqs, Answer(r), row' = row
      PROVE  CopyCurrent'
  BY <1>2 DEF Answer, Ends, CopyCurrent, TypeOK, Writing
<1>3. ASSUME NEW r \in Reqs, Find(r)
      PROVE  CopyCurrent'
  BY <1>2, <1>3 DEF Find, Handle, CopyCurrent, TypeOK, Writing
<1>4. ASSUME NEW r \in Reqs, Create(r)
      PROVE  CopyCurrent'
  BY <1>4 DEF Create, Handle, Answer, Ends, CopyCurrent, TypeOK, Writing, NewRow, NoRow
<1>5. ASSUME NEW r \in Reqs, FindNothing(r)
      PROVE  CopyCurrent'
  BY <1>2, <1>5 DEF FindNothing, CopyCurrent, TypeOK, Writing, work
<1>6. ASSUME NEW r \in Reqs, CreateRefused(r) \/ PersistFails(r) \/ Die(r)
      PROVE  CopyCurrent'
  BY <1>2, <1>6 DEF CreateRefused, PersistFails, Die
<1>7. ASSUME NEW r \in Reqs, Update(r) \/ LastUpdate(r)
      PROVE  CopyCurrent'
  <2>1. pc[r] \in Writing /\ version[r] = "current"
    BY <1>7 DEF Update, LastUpdate, Writing
  <2>2. row.exists /\ copy[r] = row
    BY <2>1 DEF CopyCurrent
  <2>3. row'.exists
    BY <1>7, <2>2, PatchFields DEF Update, LastUpdate, TypeOK
  <2>4. ASSUME NEW q \in Reqs \ {r}, pc'[q] \in Writing
        PROVE  version'[q] # "current"
    BY <1>7, <2>4 DEF Update, LastUpdate, Outdates, Ends, TypeOK
  <2>5. pc'[r] \in Writing => copy'[r] = row'
    BY <1>7 DEF Update, LastUpdate, Ends, TypeOK, Writing
  <2> QED
    BY <2>3, <2>4, <2>5 DEF CopyCurrent
<1>8. ASSUME NEW r \in Reqs, Conflict(r) \/ Reread(r)
      PROVE  CopyCurrent'
  BY <1>8 DEF Conflict, Reread, CopyCurrent, TypeOK, Writing, history, wiping
<1>9. CASE Age
  BY <1>9 DEF Age, CopyCurrent, Writing, work
<1>10. CASE Purge
  BY <1>10 DEF Purge, CopyCurrent, TypeOK
<1>11. CASE Pick \/ PurgeFails
  BY <1>11 DEF Pick, PurgeFails, CopyCurrent, work
<1> QED
  BY <1>1, <1>3, <1>4, <1>5, <1>6, <1>7, <1>8, <1>9, <1>10, <1>11 DEF Next, Serve

\* A write of the row is the patch of a request to the row as it is.
LEMMA NextPatches ==
    ASSUME TypeOK, CopyCurrent, Next, row' # row, row.exists, row'.exists
    PROVE  \/ row' = [row EXCEPT !.lastSync = "old"]
           \/ \E r \in Reqs : pc[r] = "persist" /\ row' = Patch(todo[r], req[r].key, row)
<1>1. ASSUME NEW r \in Reqs, Update(r) \/ LastUpdate(r)
      PROVE  pc[r] = "persist" /\ row' = Patch(todo[r], req[r].key, row)
  BY <1>1 DEF Update, LastUpdate, CopyCurrent, Writing
<1>2. Age => row' = [row EXCEPT !.lastSync = "old"]
  BY DEF Age
<1>3. ~Purge
  BY DEF Purge, NoRow
<1> QED
  BY <1>1, <1>2, <1>3
  DEF Next, Serve, Send, Find, FindNothing, Create, CreateRefused, Conflict, Reread,
      PersistFails, Die, Pick, PurgeFails

\* So the gate still opens only for an acknowledged key.
LEMMA NextKeepsProvisioned ==
    ASSUME IInv, Next
    PROVE  ProvisionedByAck'
<1>1. acked \subseteq acked'
  BY DEF Next, Serve, Send, Find, FindNothing, Create, CreateRefused, Update, LastUpdate,
         Conflict, Reread, PersistFails, Die, Age, Pick, Purge, PurgeFails, history, wiping
<1>2. CASE row' = row
  BY <1>1, <1>2 DEF IInv, ProvisionedByAck
<1>3. CASE row' \in {NoRow, NewRow}
  BY <1>3 DEF ProvisionedByAck, NewRow, NoRow
<1>4. CASE row' = [row EXCEPT !.lastSync = "old"]
  BY <1>1, <1>4 DEF IInv, ProvisionedByAck, TypeOK, Rows
<1>5. ASSUME NEW r \in Reqs, pc[r] = "persist", row' = Patch(todo[r], req[r].key, row)
      PROVE  ProvisionedByAck'
  <2>1. todo[r] = "ack" => req[r].key \in acked
    BY <1>5 DEF IInv, Asked, Writing, Provisions
  <2> QED
    BY <1>1, <1>5, <2>1, PatchFields DEF IInv, ProvisionedByAck, TypeOK
<1>6. row' = row \/ row' \in {NoRow, NewRow} \/ (row.exists /\ row'.exists)
  <2>1. ASSUME NEW r \in Reqs, Update(r) \/ LastUpdate(r)
        PROVE  row.exists /\ row'.exists
    BY <2>1, PatchFields DEF IInv, CopyCurrent, TypeOK, Update, LastUpdate, Writing
  <2>2. Age => row.exists /\ row'.exists
    BY DEF Age, IInv, TypeOK, Rows
  <2> QED
    BY <2>1, <2>2
    DEF Next, Serve, Send, Find, FindNothing, Create, CreateRefused, Conflict, Reread,
        PersistFails, Die, Pick, Purge, PurgeFails
<1> QED
  BY <1>2, <1>3, <1>4, <1>5, <1>6, NextPatches DEF IInv

\* The invariant is inductive.
LEMMA NextKeepsIInv == IInv /\ [Next]_vars => IInv'
<1>1. ASSUME IInv, Next
      PROVE  IInv'
  BY <1>1, NextKeepsTypes, NextKeepsAsked, NextKeepsCopies, NextKeepsProvisioned DEF IInv
<1>2. ASSUME IInv, UNCHANGED vars
      PROVE  IInv'
  BY <1>2 DEF IInv, TypeOK, Asked, CopyCurrent, ProvisionedByAck, vars
<1> QED
  BY <1>1, <1>2

LEMMA Invariance == Spec => []IInv
  BY InitIInv, NextKeepsIInv, PTL DEF Spec

\* Every variable of the device's row and its writers keeps its type, for any number
\* of requests, policy keys and attempts.
THEOREM TypeCorrect == Spec => []TypeOK
<1>1. IInv => TypeOK
  BY DEF IInv
<1> QED
  BY <1>1, Invariance, PTL

\* However Provisions, wipes, commands and the clean-up run beside each other, the
\* gate of dispatch opens only for a key that the client has acknowledged.
THEOREM GateNeedsAck == Spec => []ProvisionedByAck
<1>1. IInv => ProvisionedByAck
  BY DEF IInv
<1> QED
  BY <1>1, Invariance, PTL

\* No write of persistDeviceSyncState takes back what another has written: it is the
\* writer's patch to the row as it is.
THEOREM NoLostPatch == Spec => PatchesMerge
<1>1. IInv /\ [Next]_vars =>
        [row.exists /\ row'.exists =>
           \/ row' = [row EXCEPT !.lastSync = "old"]
           \/ \E r \in Reqs : pc[r] = "persist" /\ row' = Patch(todo[r], req[r].key, row)]_row
  BY NextPatches DEF IInv, vars
<1> QED
  BY <1>1, Invariance, PTL DEF Spec, PatchesMerge
-----------------------------------------------------------------------------
(* What gets past a wipe.                                                  *)

\* Some request in rs is of key k.
KeyOf(k, rs) == \E q \in rs : q.key = k

RowGone == ~row.exists => row = NoRow

\* The row's key is younger than the last request of a wipe, or that request has
\* crossed a Provision of it.
YoungKey == old \subseteq minted /\ (row.policyKey \in old => KeyOf(row.policyKey, crossed))

\* So is the key that a Provision is going to write, and an acknowledgement that
\* goes on although the device is to be wiped was crossed itself.
Decided(r) ==
    todo[r] \in {"issue", "ack"} =>
        /\ req[r].key \in old => KeyOf(req[r].key, crossed)
        /\ todo[r] = "ack" /\ row.wipe => req[r] \in crossed
Decisions == \A r \in Reqs : pc[r] \in Writing /\ version[r] # "gone" => Decided(r)

\* The clean-up has picked a row that was neither to be wiped nor blocked.
PickedFree == job /\ (row.wipe \/ row.blocked) => locked

Explained == RowGone /\ YoungKey /\ WipeCrossed /\ Decisions /\ PickedFree

\* The initial state satisfies it.
LEMMA InitExplained == Init => Explained
<1> SUFFICES ASSUME Init
             PROVE  Explained
  OBVIOUS
<1>1. RowGone /\ PickedFree
  BY DEF Init, RowGone, PickedFree
<1>2. YoungKey /\ Decisions
  BY DEF Init, YoungKey, Decisions, Writing
<1>3. WipeCrossed
  BY DEF Init, WipeCrossed, NoRow
<1> QED
  BY <1>1, <1>2, <1>3 DEF Explained

\* r patches the row.
Patches(r) ==
    /\ pc[r] = "persist"
    /\ version[r] = "current"
    /\ row.exists
    /\ row' = Patch(todo[r], req[r].key, row)
    /\ IF todo[r] = "wipe" THEN old' = minted /\ crossed' = Crossing
                           ELSE old' = old /\ crossed' = crossed
    /\ Locks(r)
    /\ job' = job

SameRow == row' = row /\ old' = old /\ crossed' = crossed

\* All that can happen to the row.
LEMMA RowSteps ==
    ASSUME IInv, Next
    PROVE  \/ SameRow /\ (job' => job /\ locked' = locked)
           \/ SameRow /\ Pick
           \/ Purge
           \/ ~row.exists /\ row' = NewRow /\ old' = old /\ crossed' = crossed
                /\ job' = job /\ locked' = locked
           \/ Age
           \/ \E r \in Reqs : Patches(r)
<1>1. ASSUME NEW r \in Reqs, Update(r) \/ LastUpdate(r)
      PROVE  Patches(r)
  BY <1>1
  DEF IInv, CopyCurrent, Update, LastUpdate, Patches, Writing, Provisions
<1>2. Pick => SameRow
  BY DEF Pick, SameRow
<1> QED
  BY <1>1, <1>2
  DEF Next, Serve, Send, Find, FindNothing, Create, CreateRefused, Conflict, Reread,
      PersistFails, Die, PurgeFails, SameRow, history, wiping

\* A patch leaves the row explained, and what others are going to write.
LEMMA PatchesExplained ==
    ASSUME IInv, Explained, NEW r \in Reqs, Patches(r)
    PROVE  /\ row'.exists
           /\ row'.policyKey \in old' => KeyOf(row'.policyKey, crossed')
           /\ WipeCrossed'
           /\ \A q \in Reqs : pc[q] \in Writing /\ version[q] # "gone"
                              /\ todo[q] \in {"issue", "ack"} =>
                /\ req[q].key \in old' => KeyOf(req[q].key, crossed')
                /\ todo[q] = "ack" /\ row'.wipe => req[q] \in crossed'
           /\ PickedFree'
<1>1. row \in Rows /\ row' = Patch(todo[r], req[r].key, row)
  BY DEF IInv, TypeOK, Patches
<1>2. Decided(r)
  BY DEF Explained, Decisions, Patches, Writing
<1>3. row'.exists
  BY <1>1, PatchFields DEF Patches
<1>4. PickedFree'
  <2>1. CASE todo[r] \in {"wipe", "wiped"}
    BY <2>1 DEF Patches, Locks, PickedFree
  <2>2. CASE todo[r] \notin {"wipe", "wiped"}
    <3>1. row'.wipe = row.wipe /\ (row'.blocked => row.blocked)
      BY <1>1, <2>2, PatchFields DEF Patch, Rows
    <3>2. locked => locked'
      BY DEF Patches, Locks
    <3> QED
      BY <3>1, <3>2 DEF Patches, Explained, PickedFree
  <2> QED
    BY <2>1, <2>2
<1>5. CASE todo[r] = "wipe"
  <2>1. row'.policyKey = None /\ ~row'.provisioned /\ old' = minted /\ crossed' = Crossing
    BY <1>1, <1>5, PatchFields DEF Patches
  <2>2. None \notin minted
    BY DeviceAssumption DEF IInv, TypeOK
  <2>3. ASSUME NEW q \in Reqs, pc[q] \in Writing, version[q] # "gone",
               todo[q] \in {"issue", "ack"}
        PROVE  req[q] \in crossed' /\ KeyOf(req[q].key, crossed')
    BY <2>1, <2>3 DEF Crossing, KeyOf
  <2> QED
    BY <1>3, <1>4, <2>1, <2>2, <2>3 DEF WipeCrossed
<1>6. CASE todo[r] # "wipe"
  <2>1. old' = old /\ crossed' = crossed
    BY <1>6 DEF Patches
  <2>2. row'.policyKey \in old => KeyOf(row'.policyKey, crossed)
    <3>1. CASE todo[r] \in {"issue", "ack"}
      BY <1>1, <1>2, <3>1, PatchFields DEF Decided
    <3>2. CASE todo[r] \notin {"issue", "ack"}
      BY <1>1, <1>6, <3>2, PatchFields DEF Explained, YoungKey
    <3> QED
      BY <3>1, <3>2
  <2>3. row'.wipe => row.wipe
    BY <1>1, <1>6, PatchFields
  <2>4. WipeCrossed'
    <3> SUFFICES ASSUME row'.wipe, row'.provisioned
                 PROVE  [kind |-> "ack", key |-> row'.policyKey] \in crossed
      BY <2>1 DEF WipeCrossed
    <3>1. CASE todo[r] = "ack"
      <4>1. row'.policyKey = req[r].key /\ req[r].kind = "ack" /\ req[r] \in Requests
        BY <1>1, <3>1, PatchFields DEF IInv, TypeOK, Asked, Patches, Writing, Provisions
      <4>2. req[r] = [kind |-> "ack", key |-> row'.policyKey]
        BY <4>1 DEF Requests
      <4> QED
        BY <1>2, <2>3, <3>1, <4>2 DEF Decided
    <3>2. CASE todo[r] # "ack"
      <4>1. todo[r] # "issue"
        <5>1. todo[r] = "issue" => ~row'.provisioned
          BY <1>1, PatchFields
        <5> QED
          BY <5>1
      <4>2. todo[r] \notin {"issue", "ack", "wipe"}
        BY <1>6, <3>2, <4>1
      <4>3. row'.policyKey = row.policyKey /\ row'.provisioned = row.provisioned
        BY <1>1, <4>2 DEF Patch, Rows
      <4> QED
        BY <2>3, <4>3 DEF Explained, WipeCrossed
    <3> QED
      BY <3>1, <3>2
  <2>5. ASSUME NEW q \in Reqs, pc[q] \in Writing, version[q] # "gone",
               todo[q] \in {"issue", "ack"}
        PROVE  /\ req[q].key \in old => KeyOf(req[q].key, crossed)
               /\ todo[q] = "ack" /\ row'.wipe => req[q] \in crossed
    BY <2>3, <2>5 DEF Explained, Decisions, Decided
  <2> QED
    BY <1>3, <1>4, <2>1, <2>2, <2>4, <2>5
<1> QED
  BY <1>5, <1>6

\* Policy keys are minted for ever.
LEMMA NextMints == ASSUME Next PROVE minted \subseteq minted'
  BY DEF Next, Serve, Send, Find, FindNothing, Create, CreateRefused, Update, LastUpdate,
         Conflict, Reread, PersistFails, Die, Age, Pick, Purge, PurgeFails, Handle,
         history, wiping

\* Every step leaves the row explained.
LEMMA NextKeepsRow ==
    ASSUME IInv, Explained, Next
    PROVE  RowGone' /\ YoungKey' /\ WipeCrossed' /\ PickedFree'
<1> USE NextMints
<1>1. None \notin old
  BY DeviceAssumption DEF IInv, TypeOK
<1>2. CASE SameRow /\ (job' => job /\ locked' = locked)
  BY <1>2 DEF SameRow, Explained, RowGone, YoungKey, WipeCrossed, PickedFree, KeyOf
<1>3. CASE SameRow /\ Pick
  BY <1>3 DEF SameRow, Pick, Explained, RowGone, YoungKey, WipeCrossed, PickedFree, KeyOf
<1>4. CASE Purge
  BY <1>1, <1>4
  DEF Purge, Explained, RowGone, YoungKey, WipeCrossed, PickedFree, NoRow
<1>5. CASE ~row.exists /\ row' = NewRow /\ old' = old /\ crossed' = crossed
             /\ job' = job /\ locked' = locked
  BY <1>1, <1>5 DEF Explained, RowGone, YoungKey, WipeCrossed, PickedFree, NewRow, NoRow
<1>6. CASE Age
  BY <1>6
  DEF Age, IInv, TypeOK, Rows, Explained, RowGone, YoungKey, WipeCrossed, PickedFree, KeyOf,
      history, wiping
<1>7. ASSUME NEW r \in Reqs, Patches(r)
      PROVE  RowGone' /\ YoungKey' /\ WipeCrossed' /\ PickedFree'
  <2>1. old' \subseteq minted'
    BY <1>7 DEF Patches, Explained, YoungKey
  <2> QED
    BY <1>7, <2>1, PatchesExplained DEF RowGone, YoungKey
<1> QED
  BY <1>2, <1>3, <1>4, <1>5, <1>6, <1>7, RowSteps

\* A Provision has decided from a row that is not to be wiped, for a key of its own
\* or the row's, when it begins to write.
LEMMA HandleDecided ==
    ASSUME IInv, YoungKey, NEW r \in Reqs, pc[r] \notin Writing, NEW c, Handle(r, c),
           c.policyKey \in old => KeyOf(c.policyKey, crossed), row' = c, old' = old,
           crossed' = crossed, pc'[r] \in Writing
    PROVE  Decided(r)'
<1>1. ~Refused(r, c)
  BY DEF Handle, Answer, Ends, IInv, TypeOK, Writing
<1>2. todo'[r] = IF Applies(r, c) THEN req[r].kind ELSE "seen"
  BY <1>1 DEF Handle, IInv, TypeOK
<1>3. CASE todo'[r] = "issue"
  <2>1. PICK k \in PolicyKeys \ minted : req' = [req EXCEPT ![r].key = k]
    BY <1>1, <1>2, <1>3 DEF Handle
  <2>2. req'[r].key \notin old
    BY <2>1 DEF YoungKey, IInv, TypeOK, Requests
  <2> QED
    BY <1>3, <2>2 DEF Decided
<1>4. CASE todo'[r] = "ack"
  <2>1. req'[r] = req[r]
    BY <1>1, <1>2, <1>4 DEF Handle, IInv, TypeOK
  <2>2. ~c.wipe /\ req[r].key = c.policyKey
    BY <1>2, <1>4 DEF Applies, Admin
  <2> QED
    BY <1>4, <2>1, <2>2 DEF Decided
<1> QED
  BY <1>3, <1>4 DEF Decided

\* Who goes on writing what it decided, its row not gone, did so before.
LEMMA DecidedByRow ==
    ASSUME Decisions, NEW q \in Reqs, pc[q] \in Writing, version[q] # "gone",
           todo'[q] = todo[q], req'[q] = req[q], SameRow
    PROVE  Decided(q)'
  BY DEF Decisions, Decided, SameRow, KeyOf

\* Every step keeps what Provisions are going to write explained.
LEMMA NextKeepsDecisions ==
    ASSUME IInv, Explained, Next
    PROVE  Decisions'
<1> USE DEF Explained
<1>1. ASSUME NEW r \in Reqs, NEW kind \in Kinds, NEW key \in PolicyKeys \cup {None},
             Send(r, kind, key)
      PROVE  Decisions'
  <2>1. ASSUME NEW q \in Reqs, pc'[q] \in Writing
        PROVE  q # r
    BY <1>1, <2>1 DEF Send, IInv, TypeOK, Writing
  <2> QED
    BY <1>1, <2>1, DecidedByRow
    DEF Send, IInv, TypeOK, Writing, Decisions, SameRow, work, wiping
<1>2. ASSUME NEW r \in Reqs, Answer(r), SameRow
      PROVE  Decisions'
  BY <1>2, DecidedByRow DEF Answer, Ends, IInv, TypeOK, Writing, Decisions
<1>3. ASSUME NEW r \in Reqs, NEW c, pc[r] \notin Writing, Handle(r, c), row' = c,
             c.policyKey \in old => KeyOf(c.policyKey, crossed),
             old' = old, crossed' = crossed,
             \A q \in Reqs : pc[q] \in Writing /\ version[q] # "gone" => row' = row
      PROVE  Decisions'
  <2>1. ASSUME NEW q \in Reqs, q # r
        PROVE  /\ pc'[q] = pc[q] /\ version'[q] = version[q]
               /\ todo'[q] = todo[q] /\ req'[q] = req[q]
    BY <1>3, <2>1 DEF Handle, Answer, Ends, IInv, TypeOK
  <2>2. pc'[r] \in Writing => Decided(r)'
    BY <1>3, HandleDecided
  <2> QED
    BY <1>3, <2>1, <2>2, DecidedByRow DEF Decisions, SameRow
<1>4. ASSUME NEW r \in Reqs, Find(r)
      PROVE  Decisions'
  BY <1>3, <1>4 DEF Find, YoungKey, Writing, wiping
<1>5. ASSUME NEW r \in Reqs, Create(r)
      PROVE  Decisions'
  <2>1. \A q \in Reqs : pc[q] \in Writing => version[q] = "gone"
    BY <1>5 DEF Create, IInv, CopyCurrent
  <2>2. NewRow.policyKey \notin old
    BY DeviceAssumption DEF NewRow, NoRow, IInv, TypeOK
  <2> QED
    BY <1>3, <1>5, <2>1, <2>2 DEF Create, Writing, wiping
<1>6. ASSUME NEW r \in Reqs, FindNothing(r)
      PROVE  Decisions'
  BY <1>2, <1>6, DecidedByRow
  DEF FindNothing, IInv, TypeOK, Writing, Decisions, SameRow, work, history, wiping
<1>7. ASSUME NEW r \in Reqs, CreateRefused(r) \/ PersistFails(r) \/ Die(r)
      PROVE  Decisions'
  BY <1>2, <1>7 DEF CreateRefused, PersistFails, Die, SameRow, history, wiping
<1>8. ASSUME NEW r \in Reqs, Update(r) \/ LastUpdate(r)
      PROVE  Decisions'
  <2>1. Patches(r)
    BY <1>8 DEF IInv, CopyCurrent, Update, LastUpdate, Patches, Writing, Provisions
  <2>2. pc'[r] \in Writing => todo'[r] = "seen"
    BY <1>8 DEF Update, LastUpdate, Ends, IInv, TypeOK, Writing
  <2>3. ASSUME NEW q \in Reqs, q # r, pc'[q] \in Writing, version'[q] # "gone"
        PROVE  /\ pc[q] \in Writing /\ version[q] # "gone"
               /\ todo'[q] = todo[q] /\ req'[q] = req[q]
    BY <1>8, <2>3 DEF Update, LastUpdate, Ends, Outdates, IInv, TypeOK
  <2> QED
    BY <2>1, <2>2, <2>3, PatchesExplained DEF Decisions, Decided
<1>9. ASSUME NEW r \in Reqs, Conflict(r) \/ Reread(r)
      PROVE  Decisions'
  <2>1. ASSUME NEW q \in Reqs, pc'[q] \in Writing, version'[q] # "gone"
        PROVE  pc[q] \in Writing /\ version[q] # "gone"
    BY <1>9, <2>1 DEF Conflict, Reread, IInv, TypeOK, Writing
  <2> QED
    BY <1>9, <2>1, DecidedByRow DEF Conflict, Reread, Decisions, SameRow, history, wiping
<1>10. CASE Age
  BY <1>10 DEF Age, Decisions, Writing, work
<1>11. CASE Purge
  BY <1>11 DEF Purge, Decisions, IInv, TypeOK
<1>12. CASE Pick \/ PurgeFails
  BY <1>12 DEF Pick, PurgeFails, Decisions, Decided, KeyOf, Writing, work
<1> QED
  BY <1>1, <1>4, <1>5, <1>6, <1>7, <1>8, <1>9, <1>10, <1>11, <1>12 DEF Next, Serve

\* Together with IInv, Explained is inductive.
LEMMA ExplainedInvariance == Spec => []Explained
<1>1. IInv /\ Explained /\ [Next]_vars => Explained'
  <2>1. ASSUME IInv, Explained, Next
        PROVE  Explained'
    BY <2>1, NextKeepsRow, NextKeepsDecisions DEF Explained
  <2>2. ASSUME Explained, UNCHANGED vars
        PROVE  Explained'
    BY <2>2
    DEF Explained, RowGone, YoungKey, WipeCrossed, Decisions, Decided, KeyOf, PickedFree, vars
  <2> QED
    BY <2>1, <2>2
<1> QED
  BY <1>1, InitExplained, Invariance, PTL DEF Spec

\* For any number of requests and keys, and whoever races: while a wipe is pending,
\* what provisions the device is an acknowledgement that the request of the wipe has
\* crossed (persistDeviceSyncState re-applies it), and nothing else.
THEOREM WipeCircumvented == Spec => []WipeCrossed
<1>1. Explained => WipeCrossed
  BY DEF Explained
<1> QED
  BY <1>1, ExplainedInvariance, PTL

\* Whoever races, a key from before a wipe opens the gate ever after only if the
\* request of the wipe has crossed a Provision of that key.
THEOREM KeysAreFresh == Spec => []FreshKey
<1>1. Explained => FreshKey
  BY DEF Explained, YoungKey, FreshKey, KeyOf
<1> QED
  BY <1>1, ExplainedInvariance, PTL

\* A wipe, pending or done, is undone by nobody but the administrator, whoever
\* races, and forgotten only with a row that the clean-up had picked before.
THEOREM LockoutStays == Spec => LockoutKept
<1> DEFINE forgotten == job /\ locked /\ ~row'.exists
           Step == /\ row.wipe => row'.wipe \/ row'.blocked \/ forgotten
                   /\ row.blocked /\ ~row'.blocked =>
                        forgotten \/ \E r \in Reqs : todo[r] = "unblock" /\ pc'[r] = "idle"
<1>1. ASSUME IInv, Explained, Next
      PROVE  Step
  <2>1. CASE row' = row
    BY <2>1
  <2>2. CASE Purge
    BY <1>1, <2>2 DEF Purge, Explained, PickedFree, NoRow
  <2>3. CASE ~row.exists
    BY <1>1, <2>3 DEF Explained, RowGone, NoRow
  <2>4. CASE Age
    BY <1>1, <2>4 DEF Age, IInv, TypeOK, Rows
  <2>5. ASSUME NEW r \in Reqs, Update(r) \/ LastUpdate(r)
        PROVE  Step
    <3>1. row \in Rows /\ row' = Patch(todo[r], req[r].key, row)
      BY <1>1, <2>5 DEF Update, LastUpdate, IInv, TypeOK, CopyCurrent, Writing
    <3>2. todo[r] = "unblock" => pc'[r] = "idle"
      BY <1>1, <2>5 DEF Update, LastUpdate, Ends, Provisions, IInv, TypeOK
    <3> QED
      BY <3>1, <3>2, PatchFields
  <2> QED
    BY <1>1, <2>1, <2>2, <2>3, <2>4, <2>5
    DEF Next, Serve, Send, Find, FindNothing, Create, CreateRefused, Conflict, Reread,
        PersistFails, Die, Pick, PurgeFails
<1>2. IInv /\ Explained /\ [Next]_vars => [Step]_vars
  BY <1>1 DEF vars
<1> QED
  BY <1>2, Invariance, ExplainedInvariance, PTL DEF Spec, LockoutKept
=============================================================================
