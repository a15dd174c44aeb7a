-------------------------- MODULE PingCommandProofs --------------------------
(***************************************************************************)
(* PingCommand for any number of Pings, folders and rows: whatever order   *)
(* Pings are permitted, connected, subscribed and ended in, one waits at a *)
(* time and it is the one activePings has, no listener stays behind, and   *)
(* a look misses nothing that no publish is going to tell.                 *)
(***************************************************************************)
EXTENDS PingCommand, EasSyncKeyUtilsProofs

\* `look` is a function on the Pings: what its records hold beyond TypeOK does not
\* matter here.
LookFcn == look = [p \in Pings |-> look[p]]

\* A look goes on only for a Ping that waits, a listener is only there after the
\* subscribe, and handle gives a Ping up only when it has been answered.
Order ==
    \A p \in Pings :
        /\ pc[p] = "new" => answer[p] = None
        /\ look[p].step # "idle" => Waits(p)
        /\ listening[p] => pc[p] \in {"answered", "subscribed", "over"}
        /\ pc[p] = "over" => Settled(p)

IInv == TypeOK /\ LookFcn /\ OneActive /\ ListenersLeave /\ Order

\* What is not the Pings'.
World == <<clock, row, unpublished, unheard, cursor, echo, told>>
Ours  == <<connection, active, pc, look, listening, leaving, answer>>

\* The types of the two halves of the state.
WorldTypes ==
    /\ clock \in 1..MaxTime
    /\ row \in [Uids -> [at : Time, deleted : BOOLEAN]]
    /\ {unpublished, unheard} \subseteq SUBSET Uids
    /\ cursor \in [Folders -> Cursor \cup {None}]
    /\ echo \in [Uids -> Time]
    /\ told \in [Uids -> Time]

LookType(l) ==
    /\ l.step \in {"idle", "states", "both", "live", "deleted", "scan", "over", "failed"}
    /\ l.states \in States
    /\ l.found \subseteq Folders
    /\ l.left \subseteq Folders

Places == {"new", "connect", "subscribe", "answered", "subscribed", "alone", "over"}

OurTypes ==
    /\ connection \in {"none", "connecting", "ready"}
    /\ active \in Pings \cup {None}
    /\ pc \in [Pings -> Places]
    /\ \A p \in Pings : LookType(look[p])
    /\ listening \in [Pings -> BOOLEAN]
    /\ leaving \in [Pings -> BOOLEAN]
    /\ answer \in [Pings -> {None} \cup SUBSET Folders]

\* TypeOK is the two.
LEMMA TwoHalves == TypeOK <=> WorldTypes /\ OurTypes
  BY DEF TypeOK, WorldTypes, OurTypes, LookType, Places

\* The initial state satisfies the invariant.
LEMMA InitIInv == Init => IInv
<1> SUFFICES ASSUME Init PROVE IInv
  OBVIOUS
<1>1. WorldTypes
  BY PingAssumption, UtilsAssumption
  DEF Init, WorldTypes, Time, Uids, Cursor, Epoch, Never
<1>2. NoStates \in States
  BY UtilsAssumption DEF NoStates, States, Never, Time, Uids
<1>3. LookType(Idle) /\ Idle.step = "idle"
  BY <1>2 DEF LookType, Idle
<1>4. OurTypes
  BY <1>3 DEF Init, OurTypes, Places
<1>5. LookFcn /\ OneActive /\ ListenersLeave /\ Order
  BY <1>3, PingAssumption
  DEF Init, LookFcn, OneActive, ListenersLeave, Order, Waits, Settled
<1> QED
  BY <1>1, <1>4, <1>5, TwoHalves DEF IInv

-----------------------------------------------------------------------------
(* The rest of the server.                                                 *)

\* What Rows makes of the rows has their types.
LEMMA RowsTyped ==
    ASSUME WorldTypes
    PROVE  \A r \in Rows : r.uid \in Uids /\ r.at \in Time /\ r.folder = folderOf[r.uid]
  BY DEF WorldTypes, Rows

\* A write that is not stamped after the clock keeps the types.
LEMMA WrittenTypes ==
    ASSUME WorldTypes, NEW u \in Uids, NEW t \in Int, NEW d \in BOOLEAN,
           t <= clock + 1, Written(u, t, d)
    PROVE  /\ clock' \in 1..MaxTime
           /\ t \in Time
           /\ row' \in [Uids -> [at : Time, deleted : BOOLEAN]]
           /\ {unpublished', unheard'} \subseteq SUBSET Uids
<1>1. row[u].at \in Time /\ clock \in 1..MaxTime /\ MaxTime \in Nat
  BY UtilsAssumption DEF WorldTypes
<1>2. clock' \in 1..MaxTime /\ t \in Time
  BY <1>1 DEF Written, Time
<1>3. row' \in [Uids -> [at : Time, deleted : BOOLEAN]]
  BY <1>2 DEF Written, WorldTypes
<1> QED
  BY <1>2, <1>3 DEF Written, WorldTypes

\* The writers and the device's Syncs keep the types, and leave the Pings alone.
Elsewhere ==
    \/ \E u \in Uids : Write(u) \/ SyncEdit(u) \/ PublishLost(u)
    \/ \E f \in Folders : SyncRound(f)

\* It touches neither the types nor the Pings.
LEMMA WorldStep ==
    ASSUME WorldTypes, Elsewhere
    PROVE  WorldTypes' /\ UNCHANGED Ours
<1>1. CASE \E u \in Uids : Write(u)
  <2>1. PICK u \in Uids : Write(u)
    BY <1>1
  <2>2. PICK t \in (clock + 1 - MaxLag)..(clock + 1), d \in BOOLEAN : Written(u, t, d)
    BY <2>1 DEF Write
  <2>3. t \in Int /\ t <= clock + 1
    BY <2>2, PingAssumption, UtilsAssumption DEF WorldTypes
  <2>4. /\ clock' \in 1..MaxTime
        /\ row' \in [Uids -> [at : Time, deleted : BOOLEAN]]
        /\ {unpublished', unheard'} \subseteq SUBSET Uids
    BY <2>2, <2>3, WrittenTypes
  <2>5. UNCHANGED <<cursor, echo, told>> /\ UNCHANGED Ours
    BY <2>1 DEF Write, synced, Ours
  <2> QED
    BY <2>4, <2>5 DEF WorldTypes
<1>2. CASE \E u \in Uids : SyncEdit(u)
  <2>1. PICK u \in Uids : SyncEdit(u)
    BY <1>2
  <2>2. clock + 1 \in Int /\ clock + 1 <= clock + 1
    BY UtilsAssumption DEF WorldTypes
  <2>6. Written(u, clock + 1, FALSE)
    BY <2>1 DEF SyncEdit
  <2>3. /\ clock' \in 1..MaxTime
        /\ clock + 1 \in Time
        /\ row' \in [Uids -> [at : Time, deleted : BOOLEAN]]
        /\ {unpublished', unheard'} \subseteq SUBSET Uids
    BY <2>2, <2>6, WrittenTypes
  <2> QED
    BY <2>1, <2>3 DEF SyncEdit, WorldTypes, Ours
<1>3. CASE \E u \in Uids : PublishLost(u)
  BY <1>3 DEF PublishLost, WorldTypes, synced, Ours
<1>4. CASE \E f \in Folders : SyncRound(f)
  <2>1. PICK f \in Folders : SyncRound(f)
    BY <1>4
  <2>2. PICK r \in Rows :
           LET upTo == IF Precedes(cursor[f], cursorOf(r)) THEN cursorOf(r) ELSE cursor[f]
           IN  /\ cursor' = [cursor EXCEPT ![f] = upTo]
               /\ told' = [u \in Uids |->
                     IF folderOf[u] = f /\ ~Precedes(upTo, [date |-> row[u].at, uid |-> u])
                     THEN row[u].at ELSE told[u]]
    BY <2>1 DEF SyncRound
  <2>3. cursorOf(r) \in Cursor
    BY RowsTyped DEF cursorOf, Cursor
  <2>4. cursor' \in [Folders -> Cursor \cup {None}]
    BY <2>2, <2>3 DEF WorldTypes
  <2>5. told' \in [Uids -> Time]
    BY <2>2 DEF WorldTypes
  <2> QED
    BY <2>1, <2>4, <2>5 DEF SyncRound, WorldTypes, rows, Ours
<1> QED
  BY <1>1, <1>2, <1>3, <1>4 DEF Elsewhere

-----------------------------------------------------------------------------
(* The Pings.                                                              *)

\* The part of the invariant that is about them.
Inner == OurTypes /\ LookFcn /\ OneActive /\ ListenersLeave /\ Order

\* The looks that are written out as they are.
LEMMA IdleType ==
    /\ LookType(Idle) /\ Idle.step = "idle"
    /\ LookType([Idle EXCEPT !.step = "states"]) /\ [Idle EXCEPT !.step = "states"].step = "states"
    /\ LookType(Over) /\ Over.step = "over"
<1>1. NoStates \in States
  BY UtilsAssumption DEF NoStates, States, Never, Time, Uids
<1> QED
  BY <1>1 DEF LookType, Idle, Over

\* Pings that wait are answered, whichever they are.
LEMMA Finish ==
    ASSUME Inner, NEW P \in SUBSET Pings, \A p \in P : Waits(p),
           NEW found \in SUBSET Folders, finish(P, found),
           UNCHANGED <<connection, pc, listening>>
    PROVE  Inner'
<1>1. \A p \in Pings : /\ answer'[p] = IF p \in P THEN found ELSE answer[p]
                       /\ look'[p] = IF p \in P THEN Idle ELSE look[p]
                       /\ leaving'[p] = (leaving[p] \/ (p \in P /\ pc[p] = "subscribed"))
                       /\ pc'[p] = pc[p] /\ listening'[p] = listening[p]
  BY DEF finish
<1>2. \A p \in Pings : Settled(p)' <=> p \in P \/ Settled(p)
  BY <1>1, PingAssumption DEF Settled
<1>3. \A p \in Pings : Waits(p)' <=> Waits(p) /\ p \notin P
  BY <1>1, <1>2 DEF Waits
<1>4. OurTypes'
  <2>1. \A p \in Pings : LookType(look'[p])
    BY <1>1, IdleType DEF Inner, OurTypes
  <2>2. leaving' \in [Pings -> BOOLEAN]
    BY DEF finish, Inner, OurTypes
  <2>3. answer' \in [Pings -> {None} \cup SUBSET Folders]
    BY DEF finish, Inner, OurTypes
  <2> QED
    BY <2>1, <2>2, <2>3 DEF finish, Inner, OurTypes, LookType
<1>5. LookFcn'
  BY <1>1 DEF finish, LookFcn
<1>6. OneActive'
  <2>1. active' = IF active \in P THEN None ELSE active
    BY DEF finish
  <2>2. \A p \in Pings : active' = p <=> active = p /\ p \notin P
    BY <2>1, PingAssumption
  <2> QED
    BY <1>3, <2>2 DEF Inner, OneActive
<1>7. ListenersLeave'
  <2> SUFFICES ASSUME NEW p \in Pings, Settled(p)', listening'[p]
               PROVE  leaving'[p] \/ pc'[p] = "answered"
    BY DEF ListenersLeave
  <2>1. CASE p \in P
    BY <1>1, <2>1 DEF Inner, Order, Waits
  <2>2. CASE p \notin P
    BY <1>1, <1>2, <2>2 DEF Inner, ListenersLeave
  <2> QED
    BY <2>1, <2>2
<1>8. Order'
  <2> SUFFICES ASSUME NEW p \in Pings
               PROVE  /\ pc'[p] = "new" => answer'[p] = None
                      /\ look'[p].step # "idle" => Waits(p)'
                      /\ listening'[p] => pc'[p] \in {"answered", "subscribed", "over"}
                      /\ pc'[p] = "over" => Settled(p)'
    BY DEF Order
  <2> QED
    BY <1>1, <1>2, <1>3, IdleType DEF Inner, Order, Waits
<1> QED
  BY <1>4, <1>5, <1>6, <1>7, <1>8 DEF Inner

\* A Ping that waits goes on with its look.
LEMMA GoOn ==
    ASSUME Inner, NEW p \in Pings, Waits(p), NEW l, LookType(l),
           look' = [look EXCEPT ![p] = l],
           UNCHANGED <<connection, active, pc, listening, leaving, answer>>
    PROVE  Inner'
<1>1. \A q \in Pings : look'[q] = IF q = p THEN l ELSE look[q]
  BY DEF Inner, LookFcn
<1>2. \A q \in Pings : (Settled(q)' <=> Settled(q)) /\ (Waits(q)' <=> Waits(q))
  BY DEF Settled, Waits
<1>3. OurTypes'
  BY <1>1 DEF Inner, OurTypes, LookType
<1>4. LookFcn'
  BY DEF Inner, LookFcn
<1>5. OneActive' /\ ListenersLeave'
  BY <1>2 DEF Inner, OneActive, ListenersLeave
<1>6. Order'
  BY <1>1, <1>2 DEF Inner, Order
<1> QED
  BY <1>3, <1>4, <1>5, <1>6 DEF Inner

-----------------------------------------------------------------------------
(* One Ping's actions, one by one.                                         *)

\* A Ping takes the place of the one that waits.
LEMMA Permitted ==
    ASSUME Inner, NEW p \in Pings, waitForChange(p)
    PROVE  Inner'
<1>1. /\ pc[p] = "new" /\ answer[p] = None /\ ~Waits(p) /\ active # p
      /\ look[p].step = "idle" /\ ~listening[p]
  BY DEF waitForChange, Inner, Order, Waits, OneActive
<1>2. pc' = [pc EXCEPT ![p] = IF UseRedis THEN "connect" ELSE "alone"]
  BY DEF waitForChange, Goes
<1>3. \A q \in Pings :
         /\ answer'[q] = IF q = active THEN {} ELSE answer[q]
         /\ look'[q] = IF q = active THEN Idle
                       ELSE IF q = p /\ ~UseRedis THEN [Idle EXCEPT !.step = "states"]
                       ELSE look[q]
         /\ leaving'[q] = (leaving[q] \/ (q = active /\ pc[q] = "subscribed"))
         /\ pc'[q] = IF q = p THEN (IF UseRedis THEN "connect" ELSE "alone") ELSE pc[q]
         /\ listening'[q] = listening[q]
  BY <1>2 DEF waitForChange, Inner, OurTypes
<1>4. \A q \in Pings : Settled(q)' <=> q = active \/ Settled(q)
  BY <1>3, PingAssumption DEF Settled
<1>5. \A q \in Pings : Waits(q)' <=> q = p
  BY <1>1, <1>3, <1>4 DEF Waits, Settled, Inner, OneActive
<1>6. OurTypes'
  <2>1. \A q \in Pings : LookType(look'[q])
    BY <1>3, IdleType DEF Inner, OurTypes
  <2>2. leaving' \in [Pings -> BOOLEAN] /\ answer' \in [Pings -> {None} \cup SUBSET Folders]
    BY DEF waitForChange, Inner, OurTypes
  <2>3. pc' \in [Pings -> Places]
    BY <1>2 DEF Inner, OurTypes, Places
  <2> QED
    BY <2>1, <2>2, <2>3 DEF waitForChange, Inner, OurTypes, LookType
<1>7. LookFcn'
  BY <1>3 DEF waitForChange, LookFcn
<1>8. OneActive'
  BY <1>5 DEF waitForChange, OneActive
<1>9. ListenersLeave'
  <2> SUFFICES ASSUME NEW q \in Pings, Settled(q)', listening'[q]
               PROVE  leaving'[q] \/ pc'[q] = "answered"
    BY DEF ListenersLeave
  <2>1. CASE q = active
    BY <1>1, <1>3, <2>1 DEF Inner, Order, OneActive, Waits
  <2>2. CASE q # active
    BY <1>1, <1>3, <1>4, <2>2 DEF Inner, ListenersLeave
  <2> QED
    BY <2>1, <2>2
<1>10. Order'
  <2> SUFFICES ASSUME NEW q \in Pings
               PROVE  /\ pc'[q] = "new" => answer'[q] = None
                      /\ look'[q].step # "idle" => Waits(q)'
                      /\ listening'[q] => pc'[q] \in {"answered", "subscribed", "over"}
                      /\ pc'[q] = "over" => Settled(q)'
    BY DEF Order
  <2>1. pc'[q] = "new" => answer'[q] = None
    BY <1>1, <1>3 DEF Inner, Order, OneActive, Waits
  <2>2. look'[q].step # "idle" => Waits(q)'
    BY <1>1, <1>3, <1>5, IdleType DEF Inner, Order, OneActive
  <2>3. listening'[q] => pc'[q] \in {"answered", "subscribed", "over"}
    BY <1>1, <1>3 DEF Inner, Order
  <2>4. pc'[q] = "over" => Settled(q)'
    BY <1>3, <1>4 DEF Inner, Order
  <2> QED
    BY <2>1, <2>2, <2>3, <2>4
<1> QED
  BY <1>6, <1>7, <1>8, <1>9, <1>10 DEF Inner

\* Everyone who waits for the connection goes on alone.
LEMMA ConnectionFails ==
    ASSUME Inner, ConnectFails
    PROVE  Inner'
<1>1. \A q \in Pings : /\ pc'[q] = IF pc[q] = "connect" THEN "alone" ELSE pc[q]
                       /\ look'[q] = IF pc[q] = "connect" /\ Waits(q)
                                     THEN [Idle EXCEPT !.step = "states"] ELSE look[q]
                       /\ answer'[q] = answer[q] /\ leaving'[q] = leaving[q]
                       /\ listening'[q] = listening[q]
  BY DEF ConnectFails
<1>2. \A q \in Pings : (Settled(q)' <=> Settled(q)) /\ (Waits(q)' <=> Waits(q))
  BY <1>1 DEF Settled, Waits
<1>3. OurTypes'
  <2>1. \A q \in Pings : LookType(look'[q])
    BY <1>1, IdleType DEF Inner, OurTypes
  <2>2. pc' \in [Pings -> Places]
    BY DEF ConnectFails, Inner, OurTypes, Places
  <2> QED
    BY <2>1, <2>2 DEF ConnectFails, Inner, OurTypes, LookType
<1>4. LookFcn'
  BY <1>1 DEF ConnectFails, LookFcn
<1>5. OneActive' /\ ListenersLeave'
  BY <1>1, <1>2 DEF ConnectFails, Inner, OneActive, ListenersLeave
<1>6. Order'
  BY <1>1, <1>2, IdleType DEF Inner, Order
<1> QED
  BY <1>3, <1>4, <1>5, <1>6 DEF Inner

\* handle on its way into a subscription and out of it.
LEMMA Subscription ==
    ASSUME Inner, NEW p \in Pings,
           Subscribe(p) \/ Subscribed(p) \/ Resume(p) \/ Unsubscribed(p)
    PROVE  Inner'
<1>1. CASE Subscribe(p)
  <2>1. pc' = [pc EXCEPT ![p] = IF Settled(p) THEN "over" ELSE "subscribe"]
    BY <1>1 DEF Subscribe, Goes
  <2> QED
    BY <1>1, <2>1 DEF Subscribe, Inner, OurTypes, Places, LookFcn, LookType, OneActive,
       ListenersLeave, Order, Waits, Settled
<1>2. CASE Subscribed(p)
  <2>1. PICK ok \in BOOLEAN : listening' = [listening EXCEPT ![p] = ok]
    BY <1>2 DEF Subscribed
  <2>2. /\ pc[p] = "subscribe"
        /\ pc' = [pc EXCEPT ![p] = "answered"]
        /\ UNCHANGED <<connection, active, look, leaving, answer>>
    BY <1>2 DEF Subscribed, Goes
  <2>3. \A q \in Pings : /\ pc'[q] = IF q = p THEN "answered" ELSE pc[q]
                         /\ listening'[q] = IF q = p THEN ok ELSE listening[q]
    BY <2>1, <2>2 DEF Inner, OurTypes
  <2>4. \A q \in Pings : (Settled(q)' <=> Settled(q)) /\ (Waits(q)' <=> Waits(q))
    BY <2>2, <2>3 DEF Settled, Waits
  <2>5. OurTypes' /\ LookFcn'
    BY <2>1, <2>2 DEF Inner, OurTypes, Places, LookFcn, LookType
  <2>6. OneActive' /\ ListenersLeave' /\ Order'
    BY <2>2, <2>3, <2>4 DEF Inner, OneActive, ListenersLeave, Order
  <2> QED
    BY <2>5, <2>6 DEF Inner
<1>3. CASE Resume(p) /\ Settled(p)
  <2>1. /\ pc[p] = "answered"
        /\ pc' = [pc EXCEPT ![p] = "over"]
        /\ leaving' = [leaving EXCEPT ![p] = TRUE]
        /\ UNCHANGED <<connection, active, look, listening, answer>>
    BY <1>3 DEF Resume, Goes
  <2>2. \A q \in Pings : /\ pc'[q] = IF q = p THEN "over" ELSE pc[q]
                         /\ leaving'[q] = IF q = p THEN TRUE ELSE leaving[q]
    BY <2>1 DEF Inner, OurTypes
  <2>3. \A q \in Pings : (Settled(q)' <=> Settled(q)) /\ (Waits(q)' <=> Waits(q))
    BY <2>1, <2>2 DEF Settled, Waits
  <2>4. OurTypes' /\ LookFcn'
    BY <2>1 DEF Inner, OurTypes, Places, LookFcn, LookType
  <2>5. OneActive' /\ ListenersLeave'
    BY <2>1, <2>2, <2>3 DEF Inner, OneActive, ListenersLeave
  <2>6. Order'
    BY <1>3, <2>1, <2>2, <2>3 DEF Inner, Order
  <2> QED
    BY <2>4, <2>5, <2>6 DEF Inner
<1>4. CASE Resume(p) /\ ~Settled(p)
  <2>1. /\ pc[p] = "answered"
        /\ pc' = [pc EXCEPT ![p] = "subscribed"]
        /\ look' = [look EXCEPT ![p] = [Idle EXCEPT !.step = "states"]]
        /\ UNCHANGED <<connection, active, listening, leaving, answer>>
    BY <1>4 DEF Resume, Goes, Looks
  <2>2. \A q \in Pings :
           /\ pc'[q] = IF q = p THEN "subscribed" ELSE pc[q]
           /\ look'[q] = IF q = p THEN [Idle EXCEPT !.step = "states"] ELSE look[q]
    BY <2>1 DEF Inner, OurTypes, LookFcn
  <2>3. \A q \in Pings : (Settled(q)' <=> Settled(q)) /\ (Waits(q)' <=> Waits(q))
    BY <2>1, <2>2 DEF Settled, Waits
  <2>4. Waits(p)
    BY <1>4, <2>1 DEF Waits
  <2>5. OurTypes'
    <3>1. \A q \in Pings : LookType(look'[q])
      BY <2>2, IdleType DEF Inner, OurTypes
    <3>2. pc' \in [Pings -> Places]
      BY <2>1 DEF Inner, OurTypes, Places
    <3> QED
      BY <2>1, <3>1, <3>2 DEF Inner, OurTypes, LookType
  <2>6. LookFcn'
    BY <2>1 DEF Inner, LookFcn
  <2>7. OneActive' /\ ListenersLeave'
    BY <1>4, <2>1, <2>2, <2>3 DEF Inner, OneActive, ListenersLeave
  <2>8. Order'
    BY <1>4, <2>1, <2>2, <2>3, <2>4 DEF Inner, Order
  <2> QED
    BY <2>5, <2>6, <2>7, <2>8 DEF Inner
<1>5. CASE Unsubscribed(p)
  BY <1>5 DEF Unsubscribed, Inner, OurTypes, Places, LookFcn, LookType, OneActive,
     ListenersLeave, Order, Waits, Settled
<1> QED
  BY <1>1, <1>2, <1>3, <1>4, <1>5

\* What a look reports is a set of folders.
LEMMA Reported ==
    ASSUME Inner, NEW p \in Pings, Waits(p), NEW found \in SUBSET Folders,
           Reports(p, found), LookUnchanged
    PROVE  Inner'
<1>1. CASE found # {}
  <2>1. finish({p}, found) /\ UNCHANGED <<connection, pc, listening>>
    BY <1>1 DEF Reports, LookUnchanged
  <2> QED
    BY <2>1, Finish
<1>2. CASE found = {}
  <2>1. look' = [look EXCEPT ![p] = Over]
    BY <1>2 DEF Reports
  <2>2. UNCHANGED <<connection, active, pc, listening, leaving, answer>>
    BY <1>2 DEF Reports, LookUnchanged
  <2> QED
    BY <2>1, <2>2, IdleType, GoOn
<1> QED
  BY <1>1, <1>2

\* The steps of a look are those of a Ping that waits.
LEMMA Looking ==
    ASSUME Inner, WorldTypes, NEW p \in Pings, Query(p)
    PROVE  Inner'
<1>1. look[p].step # "idle"
  BY DEF Query, loadStates, ReadOne, ReadOther, Scan, LookFails
<1>2. Waits(p) /\ LookType(look[p])
  BY <1>1 DEF Inner, Order, OurTypes
<1>3. ASSUME NEW s PROVE Known(s, p) \subseteq Folders
  BY PingAssumption DEF Known
<1>4. CASE loadStates(p)
  <2> DEFINE s == [cursor |-> cursor, echo |-> echo]
             l == IF Known(s, p) = {} THEN Over ELSE [Idle EXCEPT !.step = "both", !.states = s]
  <2>1. s \in States
    BY DEF WorldTypes, States
  <2>2. LookType(l)
    BY <2>1, IdleType DEF LookType, Idle
  <2>3. look' = [look EXCEPT ![p] = l]
    BY <1>4 DEF loadStates
  <2>4. UNCHANGED <<connection, active, pc, listening, leaving, answer>>
    BY <1>4 DEF loadStates, LookUnchanged
  <2> QED
    BY <1>2, <2>2, <2>3, <2>4, GoOn
<1>5. CASE \E deleted \in BOOLEAN : ReadOne(p, deleted)
  <2>1. PICK deleted \in BOOLEAN : ReadOne(p, deleted)
    BY <1>5
  <2> DEFINE s    == look[p].states
             page == Batch(Rows, s, Known(s, p) \cap Listed, deleted)
             l    == IF deleted
                     THEN [Idle EXCEPT !.step = "live", !.states = s, !.deleted = page]
                     ELSE [Idle EXCEPT !.step = "deleted", !.states = s, !.live = page]
  <2>2. LookType(l)
    BY <1>2, IdleType DEF LookType, Idle
  <2>3. look' = [look EXCEPT ![p] = l]
    BY <2>1 DEF ReadOne
  <2>4. UNCHANGED <<connection, active, pc, listening, leaving, answer>>
    BY <2>1 DEF ReadOne, LookUnchanged
  <2> QED
    BY <1>2, <2>2, <2>3, <2>4, GoOn
<1>6. CASE \E deleted \in BOOLEAN : ReadOther(p, deleted)
  <2>1. PICK deleted \in BOOLEAN : ReadOther(p, deleted)
    BY <1>6
  <2> DEFINE s       == look[p].states
             F       == Known(s, p)
             page    == Batch(Rows, s, F \cap Listed, deleted)
             liveOf  == IF deleted THEN look[p].live ELSE page
             delOf   == IF deleted THEN page ELSE look[p].deleted
             found   == Decided(liveOf, delOf, s, F)
             left    == Undecided(liveOf, delOf, s, F)
  <2>2. found \in SUBSET Folders /\ left \in SUBSET Folders
    BY <1>3 DEF Decided, Undecided
  <2>3. LookUnchanged
    BY <2>1 DEF ReadOther
  <2>4. CASE left = {}
    <3>1. Reports(p, found)
      BY <2>1, <2>4 DEF ReadOther
    <3> QED
      BY <1>2, <2>2, <2>3, <3>1, Reported
  <2>5. CASE left # {}
    <3> DEFINE l == [Idle EXCEPT !.step = "scan", !.states = s, !.found = found, !.left = left]
    <3>1. LookType(l)
      <4> HIDE DEF found, left
      <4> QED
        BY <1>2, <2>2 DEF LookType, Idle
    <3>2. look' = [look EXCEPT ![p] = l] /\ UNCHANGED <<active, leaving, answer>>
      BY <2>1, <2>5 DEF ReadOther
    <3>3. UNCHANGED <<connection, active, pc, listening, leaving, answer>>
      BY <2>3, <3>2 DEF LookUnchanged
    <3> HIDE DEF l
    <3> QED
      BY <1>2, <3>1, <3>2, <3>3, GoOn
  <2> QED
    BY <2>4, <2>5
<1>7. CASE Scan(p)
  <2> DEFINE found == look[p].found \cup
                         {f \in look[p].left : Scanned(f, Rows, look[p].states)}
  <2>1. found \in SUBSET Folders
    BY <1>2 DEF LookType
  <2>2. Reports(p, found) /\ LookUnchanged
    BY <1>7 DEF Scan
  <2> HIDE DEF found
  <2> QED
    BY <1>2, <2>1, <2>2, Reported
<1>8. CASE LookFails(p)
  <2> DEFINE l == [Idle EXCEPT !.step = "failed"]
  <2>1. LookType(l)
    BY IdleType DEF LookType, Idle
  <2>2. look' = [look EXCEPT ![p] = l]
    BY <1>8 DEF LookFails
  <2>3. UNCHANGED <<connection, active, pc, listening, leaving, answer>>
    BY <1>8 DEF LookFails, LookUnchanged
  <2> QED
    BY <1>2, <2>1, <2>2, <2>3, GoOn
<1> QED
  BY <1>4, <1>5, <1>6, <1>7, <1>8 DEF Query

-----------------------------------------------------------------------------
(* The invariant.                                                          *)

\* Every step keeps it.
LEMMA StepIInv == IInv /\ [Next]_vars => IInv'
<1> SUFFICES ASSUME IInv, [Next]_vars PROVE IInv'
  OBVIOUS
<1>1. WorldTypes /\ Inner
  BY TwoHalves DEF IInv, Inner
<1>2. SUFFICES WorldTypes' /\ Inner'
  BY TwoHalves, PTL DEF IInv, Inner
<1>3. CASE Elsewhere
  <2>1. WorldTypes' /\ UNCHANGED Ours
    BY <1>1, <1>3, WorldStep
  <2>2. Inner'
    BY <1>1, <2>1 DEF Ours, Inner, OurTypes, LookType, LookFcn, OneActive, ListenersLeave,
       Order, Waits, Settled
  <2> QED
    BY <2>1, <2>2
<1>4. CASE \E u \in Uids : Publish(u)
  <2>1. PICK u \in Uids : Publish(u)
    BY <1>4
  <2> DEFINE P == {p \in Pings : Waits(p) /\ listening[p] /\ folderOf[u] \in readable[p]}
  <2>2. finish(P, {folderOf[u]}) /\ UNCHANGED <<connection, pc, listening>>
    BY <2>1 DEF Publish
  <2>3. P \in SUBSET Pings /\ (\A p \in P : Waits(p)) /\ {folderOf[u]} \in SUBSET Folders
    BY PingAssumption
  <2>4. Inner'
    <3> HIDE DEF P
    <3> QED
      BY <1>1, <2>2, <2>3, Finish
  <2>5. WorldTypes'
    BY <1>1, <2>1 DEF Publish, WorldTypes, synced
  <2> QED
    BY <2>4, <2>5
<1>5. CASE Connects
  BY <1>1, <1>5 DEF Connects, rows, synced, WorldTypes, Inner, OurTypes, LookType, LookFcn,
     OneActive, ListenersLeave, Order, Waits, Settled
<1>6. CASE ConnectFails
  <2>1. WorldTypes'
    BY <1>1, <1>6 DEF ConnectFails, rows, synced, WorldTypes
  <2> QED
    BY <1>1, <1>6, <2>1, ConnectionFails
<1>7. ASSUME NEW p \in Pings,
             \/ waitForChange(p) \/ Proceed(p) \/ Cancel(p)
             \/ Subscribed(p) \/ Unsubscribed(p) \/ Query(p)
      PROVE  WorldTypes' /\ Inner'
  <2>1. UNCHANGED <<rows, synced>>
    BY <1>7 DEF waitForChange, Proceed, Subscribe, Resume, Cancel, Subscribed, Unsubscribed,
       Query, loadStates, ReadOne, ReadOther, Scan, LookFails, LookUnchanged
  <2>2. WorldTypes'
    BY <1>1, <2>1 DEF rows, synced, WorldTypes
  <2>3. CASE Cancel(p)
    <3>1. Waits(p) /\ finish({p}, {}) /\ UNCHANGED <<connection, pc, listening>>
      BY <2>3 DEF Cancel
    <3>2. {} \in SUBSET Folders /\ {p} \in SUBSET Pings
      OBVIOUS
    <3> QED
      BY <1>1, <2>2, <3>1, <3>2, Finish
  <2> QED
    BY <1>1, <1>7, <2>2, <2>3, Permitted, Subscription, Looking DEF Proceed
<1>8. CASE UNCHANGED vars
  BY <1>1, <1>8 DEF vars, rows, synced, WorldTypes, Inner, OurTypes, LookType, LookFcn,
     OneActive, ListenersLeave, Order, Waits, Settled
<1> QED
  BY <1>3, <1>4, <1>5, <1>6, <1>7, <1>8 DEF Next, Elsewhere

\* The invariant holds always.
LEMMA Always == Spec => []IInv
  BY InitIInv, StepIInv, PTL DEF Spec

\* Every variable of Ping and of what it looks at keeps its type.
THEOREM TypeCorrect == Spec => []TypeOK
<1>1. IInv => TypeOK
  BY DEF IInv
<1> QED
  BY Always, <1>1, PTL

\* Whatever order a device's Pings are permitted and end in, activePings has the one
\* that waits, and none that does not: nobody is superseded by a Ping that is over, and
\* no two wait.
THEOREM OneWaits == Spec => []OneActive
<1>1. IInv => OneActive
  BY DEF IInv
<1> QED
  BY Always, <1>1, PTL

\* Whenever a Ping is answered - before, during or after its subscribe - its listener is
\* not forgotten on the shared client.
THEOREM NoListenerLeft == Spec => []ListenersLeave
<1>1. IInv => ListenersLeave
  BY DEF IInv
<1> QED
  BY Always, <1>1, PTL

-----------------------------------------------------------------------------
(* Nothing is missed.                                                      *)

\* Whether the cursor c has row u's last write ahead of it.
Beyond(c, u) == Precedes(c, [date |-> row[u].at, uid |-> u])

\* Nothing is stamped after the clock, and what a Sync has been through it has told.
Stamps ==
    /\ \A u \in Uids : row[u].at <= clock
    /\ \A f \in Folders : cursor[f] # None =>
           /\ cursor[f].date <= clock
           /\ cursor[f].uid = 0 => cursor[f].date = 0
    /\ \A u \in Uids :
           row[u].at # 0 /\ cursor[folderOf[u]] # None /\ ~Beyond(cursor[folderOf[u]], u)
               => told[u] = row[u].at

\* A row that p's look has to find: no publish of it is going to arrive.
Overlooked(u, p) ==
    /\ Unsynced(u)
    /\ folderOf[u] \in readable[p]
    /\ u \notin unpublished \cup unheard

RowOf(u) == [uid |-> u, folder |-> folderOf[u], at |-> row[u].at, deleted |-> row[u].deleted]

Asking == {"both", "live", "deleted", "scan"}

\* The cursors a look has read are those of the last Syncs, or earlier ones.
NotAhead(s) ==
    \A f \in Folders : cursor[f] # None =>
        /\ s.cursor[f] # None
        /\ ~Precedes(cursor[f], s.cursor[f])
        /\ s.cursor[f].uid = 0 => s.cursor[f].date = 0

\* What a look knows of row u by then, unless it gives up: that it is no echo; that a page
\* which is all there is has it; that its folder is pending or left to a scan.
Covers(l, u) ==
    /\ l.step \in Asking => l.states.echo[u] # row[u].at
    /\ l.step = "live" /\ row[u].deleted /\ folderOf[u] \in Listed
          /\ Cardinality(l.deleted) <= BatchRowLimit => RowOf(u) \in l.deleted
    /\ l.step = "deleted" /\ ~row[u].deleted /\ folderOf[u] \in Listed
          /\ Cardinality(l.live) <= BatchRowLimit => RowOf(u) \in l.live
    /\ l.step = "scan" => folderOf[u] \in l.found \cup l.left
    /\ l.step # "over"

Sees(p) ==
    /\ look[p].step \in Asking => NotAhead(look[p].states)
    /\ \A u \in Uids : Overlooked(u, p) => Covers(look[p], u)

\* A Ping looks once it is subscribed, and then sees what it has to find.
Looked ==
    \A p \in Pings :
        /\ pc[p] \in {"new", "connect", "subscribe", "answered"} => look[p].step = "idle"
        /\ Waits(p) /\ listening[p] => Sees(p)

Missing == Stamps /\ Looked

\* The rows are finitely many, and a stream.
LEMMA StreamOfRows ==
    ASSUME WorldTypes
    PROVE  /\ IsFiniteSet(Rows)
           /\ Stream(Rows)
           /\ \A u \in Uids : row[u].at # 0 => RowOf(u) \in Rows
<1> DEFINE G  == {v \in Uids : row[v].at # 0}
           fn == [u \in G |-> RowOf(u)]
<1>1. Rows = {RowOf(u) : u \in G}
  BY DEF Rows, RowOf
<1>2. IsFiniteSet(G)
  <2>1. IsFiniteSet(1..MaxUid)
    BY FS_Interval, UtilsAssumption
  <2> QED
    BY <2>1, FS_Subset DEF Uids
<1>3. IsFiniteSet({RowOf(u) : u \in G})
  <2> HIDE DEF G
  <2>1. fn \in Surjection(G, {RowOf(u) : u \in G})
    BY DEF Surjection
  <2> HIDE DEF fn
  <2> QED
    BY <1>2, <2>1, FS_Surjection
<1>4. \A u \in Uids : RowOf(u).at \in Time /\ RowOf(u).uid = u
  BY DEF WorldTypes, RowOf
<1>5. Stream(Rows)
  BY <1>1, <1>4 DEF Stream
<1> QED
  BY <1>1, <1>3, <1>5

\* A row that is overlooked is ahead of the cursors the look has read.
LEMMA OverlookedAhead ==
    ASSUME WorldTypes, Stamps, NEW p \in Pings, NEW u \in Uids, Overlooked(u, p),
           NEW s \in States, NotAhead(s), s.echo[u] # row[u].at
    PROVE  /\ folderOf[u] \in Known(s, p)
           /\ s.cursor[folderOf[u]] \in Cursor
           /\ Beyond(s.cursor[folderOf[u]], u)
           /\ s.cursor[folderOf[u]].uid = 0 => s.cursor[folderOf[u]].date = 0
           /\ RowOf(u) \in Rows
           /\ \A R : RowOf(u) \in R => isPending(folderOf[u], R, s)
<1> DEFINE f == folderOf[u]
           c == s.cursor[f]
<1>1. f \in Folders /\ f \in readable[p] /\ cursor[f] # None /\ row[u].at # 0
  BY PingAssumption DEF Overlooked, Unsynced
<1>2. Beyond(cursor[f], u)
  BY <1>1 DEF Stamps, Overlooked, Unsynced
<1>3. c # None /\ ~Precedes(cursor[f], c) /\ (c.uid = 0 => c.date = 0)
  BY <1>1 DEF NotAhead
<1>4. c \in Cursor /\ cursor[f] \in Cursor
  BY <1>1, <1>3 DEF States, WorldTypes
<1>5. Beyond(c, u)
  <2>1. \A k \in Cursor : k.date \in Int /\ k.uid \in Int
    BY UtilsAssumption DEF Cursor, Time, Uids
  <2>2. row[u].at \in Int /\ u \in Int
    BY UtilsAssumption DEF Time, Uids, WorldTypes
  <2> HIDE DEF c, f
  <2> QED
    BY <1>2, <1>3, <1>4, <2>1, <2>2 DEF Beyond, Precedes
<1>6. RowOf(u) \in Rows
  BY <1>1, StreamOfRows
<1>7. ASSUME NEW R, RowOf(u) \in R PROVE isPending(f, R, s)
  <2>1. RowOf(u) \in NewRows(f, R, s)
    BY <1>5, <1>7 DEF NewRows, RowOf, cursorOf, Beyond
  <2>2. s.echo[RowOf(u).uid] # RowOf(u).at
    BY DEF RowOf
  <2> QED
    BY <2>1, <2>2 DEF isPending
<1>8. f \in Known(s, p)
  BY <1>1, <1>3 DEF Known
<1> QED
  BY <1>3, <1>4, <1>5, <1>6, <1>7, <1>8

\* A query of the batch that has not found more than its limit has the row.
LEMMA BatchHas ==
    ASSUME WorldTypes, Stamps, NEW p \in Pings, NEW u \in Uids, Overlooked(u, p),
           NEW s \in States, NotAhead(s), s.echo[u] # row[u].at, folderOf[u] \in Listed,
           NEW page, page = Batch(Rows, s, Known(s, p) \cap Listed, row[u].deleted),
           Cardinality(page) <= BatchRowLimit
    PROVE  RowOf(u) \in page
<1> DEFINE F == Known(s, p) \cap Listed
           R == {r \in Rows : /\ r.folder \in F
                              /\ r.deleted = row[u].deleted
                              /\ \E f \in F : r.at >= s.cursor[f].date}
<1>1. page = FirstOf(R, BatchRowLimit + 1)
  BY DEF Batch, Page
<1>2. IsFiniteSet(R) /\ Stream(R)
  <2>1. R \subseteq Rows
    OBVIOUS
  <2> HIDE DEF R
  <2> QED
    BY <2>1, StreamOfRows, FS_Subset DEF Stream
<1>3. page = R
  <2> HIDE DEF R
  <2> QED
    BY <1>1, <1>2, AllRows, PingAssumption
<1>4. /\ folderOf[u] \in F
      /\ s.cursor[folderOf[u]] \in Cursor
      /\ Beyond(s.cursor[folderOf[u]], u)
      /\ RowOf(u) \in Rows
  BY OverlookedAhead
<1>5. row[u].at >= s.cursor[folderOf[u]].date
  BY <1>4, UtilsAssumption DEF Beyond, Precedes, Cursor, Time, WorldTypes
<1> QED
  BY <1>3, <1>4, <1>5 DEF RowOf

\* A folder's own scan has it.
LEMMA ScanHas ==
    ASSUME WorldTypes, Stamps, NEW p \in Pings, NEW u \in Uids, Overlooked(u, p),
           NEW s \in States, NotAhead(s), s.echo[u] # row[u].at
    PROVE  Scanned(folderOf[u], Rows, s)
<1> DEFINE f     == folderOf[u]
           R     == {r \in Rows : r.folder = f}
           found == After(R, s.cursor[f])
           page  == scanAfter(R, s.cursor[f], ScanLimit)
<1>1. /\ s.cursor[f] \in Cursor
      /\ Beyond(s.cursor[f], u)
      /\ s.cursor[f].uid = 0 => s.cursor[f].date = 0
      /\ RowOf(u) \in Rows
      /\ \A Q : RowOf(u) \in Q => isPending(f, Q, s)
  BY OverlookedAhead
<1>2. RowOf(u) \in found
  <2>1. RowOf(u) \in R
    BY <1>1 DEF RowOf
  <2>2. s.cursor[f].uid = 0 => row[u].at > s.cursor[f].date
    BY <1>1, UtilsAssumption DEF Overlooked, Unsynced, WorldTypes, Time
  <2> QED
    BY <1>1, <2>1, <2>2 DEF After, RowOf, cursorOf, Beyond
<1>3. IsFiniteSet(found) /\ Stream(found)
  <2>1. found \subseteq Rows
    BY DEF After
  <2> HIDE DEF found
  <2> QED
    BY <2>1, StreamOfRows, FS_Subset DEF Stream
<1>4. page.rows = FirstOf(found, ScanLimit) /\ page.more = (Cardinality(found) > ScanLimit)
  BY DEF scanAfter
<1>5. CASE Cardinality(found) > ScanLimit
  BY <1>4, <1>5 DEF Scanned
<1>6. CASE ~(Cardinality(found) > ScanLimit)
  <2>1. FirstOf(found, ScanLimit) = found
    <3> HIDE DEF found
    <3>1. Cardinality(found) \in Nat /\ ScanLimit \in Nat
      BY <1>3, FS_CardinalityType, PingAssumption
    <3> QED
      BY <1>3, <1>6, <3>1, FirstRows
  <2>2. isPending(f, page.rows, s)
    BY <1>1, <1>2, <1>4, <2>1
  <2> QED
    BY <2>2 DEF Scanned
<1> QED
  BY <1>5, <1>6

-----------------------------------------------------------------------------
(* The rest of the server, beside a look.                                  *)

\* A write commits as it is stamped.
NoLag == MaxLag = 0

\* A write, if it is stamped after the clock.
LEMMA WrittenStamps ==
    ASSUME WorldTypes, Stamps, NEW v \in Uids, NEW d \in BOOLEAN,
           Written(v, clock + 1, d), UNCHANGED <<cursor, told>>
    PROVE  Stamps'
<1>1. /\ clock' = clock + 1 /\ clock \in Int /\ cursor' = cursor /\ told' = told
      /\ row'[v].at = clock + 1
      /\ \A u \in Uids : u # v => row'[u] = row[u]
      /\ \A u \in Uids : row[u].at \in Int
  BY UtilsAssumption DEF Written, WorldTypes, Time
<1>2. \A u \in Uids : row'[u].at <= clock'
  BY <1>1 DEF Stamps
<1>3. \A f \in Folders : cursor'[f] # None => cursor'[f].date \in Int
  BY <1>1, UtilsAssumption DEF WorldTypes, Cursor, Time
<1>4. \A f \in Folders : cursor'[f] # None =>
          cursor'[f].date <= clock' /\ (cursor'[f].uid = 0 => cursor'[f].date = 0)
  BY <1>1, <1>3 DEF Stamps
<1>5. ASSUME NEW u \in Uids, cursor'[folderOf[u]] # None, ~Beyond(cursor[folderOf[u]], u)'
      PROVE  told'[u] = row'[u].at \/ row'[u].at = 0
  <2>1. folderOf[u] \in Folders
    BY PingAssumption
  <2>2. cursor[folderOf[u]].date <= clock
    BY <1>1, <1>5, <2>1 DEF Stamps
  <2>3. CASE u = v
    BY <1>1, <1>3, <1>5, <2>1, <2>2, <2>3 DEF Beyond, Precedes
  <2>4. CASE u # v
    BY <1>1, <1>5, <2>4 DEF Stamps, Beyond
  <2> QED
    BY <2>3, <2>4
<1> QED
  BY <1>2, <1>4, <1>5 DEF Stamps

\* What happens elsewhere keeps the stamps.
LEMMA WorldStamps ==
    ASSUME NoLag, WorldTypes, Stamps, Elsewhere
    PROVE  Stamps'
<1>1. ASSUME NEW u \in Uids, Write(u) PROVE Stamps'
  <2>1. PICK t \in (clock + 1 - MaxLag)..(clock + 1), d \in BOOLEAN : Written(u, t, d)
    BY <1>1 DEF Write
  <2>2. t = clock + 1
    BY UtilsAssumption DEF NoLag, WorldTypes
  <2> QED
    BY <1>1, <2>1, <2>2, WrittenStamps DEF Write, synced
<1>2. ASSUME NEW u \in Uids, SyncEdit(u) PROVE Stamps'
  BY <1>2, WrittenStamps DEF SyncEdit
<1>3. ASSUME NEW u \in Uids, PublishLost(u) PROVE Stamps'
  BY <1>3 DEF PublishLost, synced, Stamps, Beyond
<1>4. ASSUME NEW f \in Folders, SyncRound(f) PROVE Stamps'
  <2>1. PICK r \in Rows :
           LET upTo == IF Precedes(cursor[f], cursorOf(r)) THEN cursorOf(r) ELSE cursor[f]
           IN  /\ cursor' = [cursor EXCEPT ![f] = upTo]
               /\ told' = [u \in Uids |->
                     IF folderOf[u] = f /\ ~Precedes(upTo, [date |-> row[u].at, uid |-> u])
                     THEN row[u].at ELSE told[u]]
    BY <1>4 DEF SyncRound
  <2> DEFINE upTo == IF Precedes(cursor[f], cursorOf(r)) THEN cursorOf(r) ELSE cursor[f]
  <2>2. cursor[f] # None /\ UNCHANGED rows
    BY <1>4 DEF SyncRound
  <2>3. row' = row /\ clock' = clock
    BY <2>2 DEF rows
  <2>4. /\ \A g \in Folders : cursor'[g] = IF g = f THEN upTo ELSE cursor[g]
        /\ \A u \in Uids : told'[u] = IF folderOf[u] = f /\ ~Beyond(upTo, u)
                                      THEN row[u].at ELSE told[u]
    BY <2>1 DEF WorldTypes, Beyond
  <2>5. r.at <= clock /\ r.uid # 0
    BY RowsTyped, UtilsAssumption DEF Stamps, Rows, Uids
  <2>6. upTo.date <= clock /\ (upTo.uid = 0 => upTo.date = 0)
    BY <2>2, <2>5 DEF Stamps, cursorOf
  <2> HIDE DEF upTo
  <2>7. \A g \in Folders : cursor'[g] # None =>
            cursor'[g].date <= clock /\ (cursor'[g].uid = 0 => cursor'[g].date = 0)
    BY <2>4, <2>6 DEF Stamps
  <2>8. ASSUME NEW u \in Uids, row[u].at # 0, cursor'[folderOf[u]] # None,
               ~Beyond(cursor'[folderOf[u]], u)
        PROVE  told'[u] = row[u].at
    <3>1. folderOf[u] \in Folders
      BY PingAssumption
    <3> QED
      BY <2>4, <2>8, <3>1 DEF Stamps
  <2>9. \A u \in Uids : row[u].at <= clock
    BY DEF Stamps
  <2> QED
    BY <2>3, <2>7, <2>8, <2>9 DEF Stamps, Beyond
<1> QED
  BY <1>1, <1>2, <1>3, <1>4 DEF Elsewhere

\* It writes no row that a Ping overlooks: such a row is to be published again.
LEMMA WorldOverlooked ==
    ASSUME WorldTypes, Elsewhere, NEW p \in Pings, NEW u \in Uids, Overlooked(u, p)'
    PROVE  Overlooked(u, p) /\ row'[u] = row[u]
<1>1. ASSUME NEW v \in Uids, NEW t, NEW d, Written(v, t, d), cursor' = cursor, told' = told,
             \A w \in Uids : w # v => echo'[w] = echo[w]
      PROVE  Overlooked(u, p) /\ row'[u] = row[u]
  <2>1. u # v
    BY <1>1 DEF Written, Overlooked
  <2>2. row'[u] = row[u]
    BY <1>1, <2>1 DEF Written, WorldTypes
  <2>3. u \notin unpublished \cup unheard
    BY <1>1, <2>1 DEF Written, Overlooked
  <2> QED
    BY <1>1, <2>1, <2>2, <2>3 DEF Overlooked, Unsynced
<1>2. ASSUME NEW v \in Uids, Write(v) PROVE Overlooked(u, p) /\ row'[u] = row[u]
  BY <1>1, <1>2 DEF Write, synced
<1>3. ASSUME NEW v \in Uids, SyncEdit(v) PROVE Overlooked(u, p) /\ row'[u] = row[u]
  <2>1. \A w \in Uids : w # v => echo'[w] = echo[w]
    BY <1>3 DEF SyncEdit, WorldTypes
  <2> QED
    BY <1>1, <1>3, <2>1 DEF SyncEdit
<1>4. ASSUME NEW v \in Uids, PublishLost(v) PROVE Overlooked(u, p) /\ row'[u] = row[u]
  BY <1>4 DEF PublishLost, synced, Overlooked, Unsynced
<1>5. ASSUME NEW f \in Folders, SyncRound(f) PROVE Overlooked(u, p) /\ row'[u] = row[u]
  <2>1. PICK r \in Rows :
           LET upTo == IF Precedes(cursor[f], cursorOf(r)) THEN cursorOf(r) ELSE cursor[f]
           IN  /\ cursor' = [cursor EXCEPT ![f] = upTo]
               /\ told' = [w \in Uids |->
                     IF folderOf[w] = f /\ ~Precedes(upTo, [date |-> row[w].at, uid |-> w])
                     THEN row[w].at ELSE told[w]]
    BY <1>5 DEF SyncRound
  <2>2. cursor[f] # None /\ UNCHANGED <<rows, echo>>
    BY <1>5 DEF SyncRound
  <2>3. told'[u] \in {row[u].at, told[u]}
    BY <2>1
  <2>4. cursor'[folderOf[u]] # None => cursor[folderOf[u]] # None
    BY <2>1, <2>2 DEF WorldTypes
  <2> QED
    BY <2>2, <2>3, <2>4 DEF rows, Overlooked, Unsynced
<1> QED
  BY <1>2, <1>3, <1>4, <1>5 DEF Elsewhere

\* Cursors only move on.
LEMMA WorldNotAhead ==
    ASSUME WorldTypes, Elsewhere, NEW s \in States, NotAhead(s)
    PROVE  NotAhead(s)'
<1>1. CASE cursor' = cursor
  BY <1>1 DEF NotAhead
<1>2. ASSUME NEW f \in Folders, SyncRound(f) PROVE NotAhead(s)'
  <2>1. PICK r \in Rows :
           LET upTo == IF Precedes(cursor[f], cursorOf(r)) THEN cursorOf(r) ELSE cursor[f]
           IN  cursor' = [cursor EXCEPT ![f] = upTo]
    BY <1>2 DEF SyncRound
  <2>2. cursor[f] # None /\ cursor[f] \in Cursor
    BY <1>2 DEF SyncRound, WorldTypes
  <2> DEFINE upTo == IF Precedes(cursor[f], cursorOf(r)) THEN cursorOf(r) ELSE cursor[f]
  <2>3. \A g \in Folders : cursor'[g] = IF g = f THEN upTo ELSE cursor[g]
    BY <2>1 DEF WorldTypes
  <2>4. s.cursor[f] \in Cursor /\ ~Precedes(cursor[f], s.cursor[f])
    BY <2>2 DEF NotAhead, States
  <2>5. cursorOf(r) \in Cursor
    BY RowsTyped DEF cursorOf, Cursor
  <2>6. \A k \in Cursor : k.date \in Int /\ k.uid \in Int
    BY UtilsAssumption DEF Cursor, Time, Uids
  <2>7. ~Precedes(upTo, s.cursor[f])
    BY <2>2, <2>4, <2>5, <2>6 DEF Precedes
  <2> HIDE DEF upTo
  <2> QED
    BY <2>2, <2>3, <2>7 DEF NotAhead
<1> QED
  BY <1>1, <1>2 DEF Elsewhere, Write, SyncEdit, PublishLost, synced

\* A look sees what it saw, whatever happens elsewhere.
LEMMA WorldSees ==
    ASSUME WorldTypes, OurTypes, Elsewhere, UNCHANGED Ours, NEW p \in Pings, Sees(p)
    PROVE  Sees(p)'
<1>1. look' = look /\ look[p].states \in States
  BY DEF Ours, OurTypes, LookType
<1>2. look[p].step \in Asking => NotAhead(look[p].states)'
  BY <1>1, WorldNotAhead DEF Sees
<1>3. ASSUME NEW u \in Uids, Overlooked(u, p)' PROVE Covers(look[p], u)'
  <2>1. Overlooked(u, p) /\ row'[u] = row[u]
    BY <1>3, WorldOverlooked
  <2>2. Covers(look[p], u)
    BY <2>1 DEF Sees
  <2> QED
    BY <1>1, <2>1, <2>2 DEF Covers, RowOf
<1> QED
  BY <1>1, <1>2, <1>3 DEF Sees, Asking

-----------------------------------------------------------------------------
(* The Pings' own steps.                                                   *)

\* What a look l of p's has to see while the rows stay as they are.
LEMMA SeesNow ==
    ASSUME NEW p \in Pings, NEW l, look'[p] = l, UNCHANGED World,
           l.step \in Asking => NotAhead(l.states),
           \A u \in Uids : Overlooked(u, p) => Covers(l, u)
    PROVE  Sees(p)'
<1>1. /\ clock' = clock /\ row' = row /\ unpublished' = unpublished /\ unheard' = unheard
      /\ cursor' = cursor /\ echo' = echo /\ told' = told
  BY DEF World
<1>2. \A u \in Uids : Overlooked(u, p)' <=> Overlooked(u, p)
  BY <1>1 DEF Overlooked, Unsynced
<1>3. \A u \in Uids : Covers(l, u) => Covers(l, u)'
  BY <1>1 DEF Covers, RowOf
<1>4. l.step \in Asking => NotAhead(l.states)'
  BY <1>1 DEF NotAhead
<1> QED
  BY <1>2, <1>3, <1>4 DEF Sees

\* A look that nobody touches.
LEMMA SeesStill ==
    ASSUME NEW p \in Pings, Sees(p), look'[p] = look[p], UNCHANGED World
    PROVE  Sees(p)'
  BY SeesNow DEF Sees

\* A look that is not asking yet, or has given up, has nothing to see.
LEMMA SeesNothing ==
    ASSUME NEW p \in Pings, look'[p].step \in {"idle", "states", "failed"}, UNCHANGED World
    PROVE  Sees(p)'
  BY SeesNow DEF Covers, Asking

\* A step of p alone, which leaves p answered, not listening, or seeing.
LEMMA OneLooks ==
    ASSUME Looked, NEW p \in Pings, UNCHANGED World,
           \A q \in Pings : q # p =>
               /\ look'[q] = look[q] /\ pc'[q] = pc[q] /\ listening'[q] = listening[q]
               /\ Waits(q)' => Waits(q),
           pc'[p] \in {"new", "connect", "subscribe", "answered"} => look'[p].step = "idle",
           Waits(p)' /\ listening'[p] => Sees(p)'
    PROVE  Looked'
<1> SUFFICES ASSUME NEW q \in Pings
             PROVE  /\ pc'[q] \in {"new", "connect", "subscribe", "answered"} =>
                           look'[q].step = "idle"
                    /\ Waits(q)' /\ listening'[q] => Sees(q)'
  BY DEF Looked
<1>1. CASE q = p
  BY <1>1
<1>2. CASE q # p
  BY <1>2, SeesStill DEF Looked
<1> QED
  BY <1>1, <1>2

\* Pings that are answered need not see any more.
LEMMA FinishLooked ==
    ASSUME Inner, Looked, NEW P \in SUBSET Pings, NEW found \in SUBSET Folders,
           finish(P, found), UNCHANGED <<pc, listening>>,
           \A p \in Pings \ P : Waits(p) /\ listening[p] /\ Sees(p) => Sees(p)'
    PROVE  Looked'
<1>1. \A p \in Pings : /\ answer'[p] = IF p \in P THEN found ELSE answer[p]
                       /\ look'[p] = IF p \in P THEN Idle ELSE look[p]
                       /\ pc'[p] = pc[p] /\ listening'[p] = listening[p]
  BY DEF finish
<1>2. \A p \in Pings : Waits(p)' => Waits(p) /\ p \notin P
  BY <1>1, PingAssumption DEF Waits, Settled
<1> SUFFICES ASSUME NEW p \in Pings
             PROVE  /\ pc'[p] \in {"new", "connect", "subscribe", "answered"} =>
                           look'[p].step = "idle"
                    /\ Waits(p)' /\ listening'[p] => Sees(p)'
  BY DEF Looked
<1> QED
  BY <1>1, <1>2, IdleType DEF Looked

\* A look that ends with nothing has overlooked nothing.
LEMMA ReportsLooked ==
    ASSUME Inner, Looked, NEW p \in Pings, Waits(p), UNCHANGED World, LookUnchanged,
           NEW found \in SUBSET Folders, Reports(p, found), look[p].step # "idle",
           listening[p] => \A u \in Uids : Overlooked(u, p) => folderOf[u] \in found
    PROVE  Looked'
<1>1. UNCHANGED <<pc, listening>>
  BY DEF LookUnchanged
<1>2. CASE found # {}
  <2>1. finish({p}, found)
    BY <1>2 DEF Reports
  <2>2. \A q \in Pings \ {p} : look'[q] = look[q]
    BY <2>1 DEF finish
  <2>3. \A q \in Pings \ {p} : Sees(q) => Sees(q)'
    BY <2>2, SeesStill
  <2> QED
    BY <1>1, <2>1, <2>3, FinishLooked
<1>3. CASE found = {}
  <2>1. /\ look' = [look EXCEPT ![p] = Over]
        /\ UNCHANGED <<active, leaving, answer>>
    BY <1>3 DEF Reports
  <2>2. look'[p] = Over /\ \A q \in Pings : q # p => look'[q] = look[q]
    BY <2>1 DEF Inner, LookFcn
  <2>3. \A q \in Pings : Waits(q)' <=> Waits(q)
    BY <1>1, <2>1 DEF Waits, Settled
  <2>4. pc'[p] \notin {"new", "connect", "subscribe", "answered"}
    BY <1>1 DEF Looked
  <2>5. listening[p] => Sees(p)'
    BY <1>3, <2>2, SeesNow, IdleType DEF Asking
  <2> QED
    BY <1>1, <2>2, <2>3, <2>4, <2>5, OneLooks
<1> QED
  BY <1>2, <1>3

\* A look that goes on with the record l.
LEMMA GoesOnLooked ==
    ASSUME Inner, Looked, NEW p \in Pings, look[p].step # "idle", UNCHANGED World,
           NEW l, look' = [look EXCEPT ![p] = l],
           UNCHANGED <<pc, listening, answer>>,
           Waits(p) /\ listening[p] =>
               /\ l.step \in Asking => NotAhead(l.states)
               /\ \A u \in Uids : Overlooked(u, p) => Covers(l, u)
    PROVE  Looked'
<1>1. look'[p] = l /\ \A q \in Pings : q # p => look'[q] = look[q]
  BY DEF Inner, LookFcn
<1>2. \A q \in Pings : Waits(q)' <=> Waits(q)
  BY DEF Waits, Settled
<1>3. pc'[p] \notin {"new", "connect", "subscribe", "answered"}
  BY DEF Looked
<1>4. Waits(p) /\ listening[p] => Sees(p)'
  BY <1>1, SeesNow
<1> QED
  BY <1>1, <1>2, <1>3, <1>4, OneLooks

\* Each step of a look sees what there is to see, or has seen it before.
LEMMA QueryLooked ==
    ASSUME Inner, WorldTypes, Missing, NEW p \in Pings, Query(p)
    PROVE  Looked'
<1>1. look[p].step # "idle" /\ Waits(p) /\ LookType(look[p]) /\ look[p].states \in States
  <2>1. look[p].step # "idle"
    BY DEF Query, loadStates, ReadOne, ReadOther, Scan, LookFails
  <2> QED
    BY <2>1 DEF Inner, Order, OurTypes, LookType
<1>2. Stamps /\ Looked
  BY DEF Missing
<1>3. LookUnchanged /\ UNCHANGED World
  BY DEF Query, loadStates, ReadOne, ReadOther, Scan, LookFails, LookUnchanged, rows,
     synced, World
<1>4. UNCHANGED <<pc, listening>>
  BY <1>3 DEF LookUnchanged
<1>5. listening[p] => Sees(p)
  BY <1>1, <1>2 DEF Looked
<1>6. ASSUME listening[p], NEW u \in Uids, Overlooked(u, p), look[p].step \in Asking
      PROVE  /\ NotAhead(look[p].states)
             /\ look[p].states.echo[u] # row[u].at
             /\ Covers(look[p], u)
  BY <1>5, <1>6 DEF Sees, Covers
<1>7. ASSUME NEW u \in Uids, Overlooked(u, p)
      PROVE  folderOf[u] \in readable[p] /\ cursor[folderOf[u]] # None /\ echo[u] # row[u].at
  BY <1>7 DEF Overlooked, Unsynced
<1>8. CASE loadStates(p)
  <2> DEFINE s == [cursor |-> cursor, echo |-> echo]
             l == IF Known(s, p) = {} THEN Over ELSE [Idle EXCEPT !.step = "both", !.states = s]
  <2>1. look' = [look EXCEPT ![p] = l] /\ UNCHANGED answer
    BY <1>8 DEF loadStates
  <2>2. NotAhead(s)
    <3> SUFFICES ASSUME NEW f \in Folders, cursor[f] # None
                 PROVE  /\ ~Precedes(cursor[f], cursor[f])
                        /\ cursor[f].uid = 0 => cursor[f].date = 0
      BY DEF NotAhead
    <3>1. cursor[f].date \in Int /\ cursor[f].uid \in Int
      BY UtilsAssumption DEF WorldTypes, Cursor, Time, Uids
    <3> QED
      BY <1>2, <3>1 DEF Stamps, Precedes
  <2>3. CASE Known(s, p) = {}
    <3>1. \A u \in Uids : ~Overlooked(u, p)
      BY <1>7, <2>3 DEF Known
    <3>2. l = Over /\ l.step = "over"
      BY <2>3, IdleType
    <3> HIDE DEF l, s
    <3> QED
      BY <1>1, <1>2, <1>3, <1>4, <2>1, <3>1, <3>2, GoesOnLooked DEF Inner, Asking
  <2>4. CASE Known(s, p) # {}
    <3>1. l.step = "both" /\ l.states = s
      BY <2>4 DEF Idle
    <3>2. \A u \in Uids : Overlooked(u, p) => Covers(l, u)
      <4> HIDE DEF l
      <4> QED
        BY <1>7, <3>1 DEF Covers
    <3> HIDE DEF l, s
    <3> QED
      BY <1>1, <1>2, <1>3, <1>4, <2>1, <2>2, <3>1, <3>2, GoesOnLooked DEF Inner
  <2> QED
    BY <2>3, <2>4
<1>9. ASSUME NEW deleted \in BOOLEAN, ReadOne(p, deleted) PROVE Looked'
  <2> DEFINE s    == look[p].states
             page == Batch(Rows, s, Known(s, p) \cap Listed, deleted)
             l    == IF deleted
                     THEN [Idle EXCEPT !.step = "live", !.states = s, !.deleted = page]
                     ELSE [Idle EXCEPT !.step = "deleted", !.states = s, !.live = page]
  <2>1. look' = [look EXCEPT ![p] = l] /\ UNCHANGED answer /\ look[p].step = "both"
    BY <1>9 DEF ReadOne
  <2>2. /\ l.states = s
        /\ l.step = IF deleted THEN "live" ELSE "deleted"
        /\ deleted => l.deleted = page
        /\ ~deleted => l.live = page
    <3> HIDE DEF page, s
    <3> QED BY DEF Idle
  <2>3. ASSUME listening[p], NEW u \in Uids, Overlooked(u, p) PROVE Covers(l, u)
    <3>1. NotAhead(s) /\ s.echo[u] # row[u].at
      BY <1>6, <2>1, <2>3 DEF Asking
    <3>2. folderOf[u] \in Listed /\ Cardinality(page) <= BatchRowLimit /\ row[u].deleted = deleted
              => RowOf(u) \in page
      BY <1>1, <1>2, <2>3, <3>1, BatchHas
    <3> HIDE DEF l, page, s
    <3>3. row[u].deleted \in BOOLEAN
      BY DEF WorldTypes
    <3> QED
      BY <2>2, <3>1, <3>2, <3>3 DEF Covers
  <2>4. listening[p] => NotAhead(s)
    BY <1>5, <2>1 DEF Sees, Asking
  <2> HIDE DEF l, page, s
  <2> QED
    BY <1>1, <1>2, <1>3, <1>4, <2>1, <2>2, <2>3, <2>4, GoesOnLooked DEF Inner
<1>10. ASSUME NEW deleted \in BOOLEAN, ReadOther(p, deleted) PROVE Looked'
  <2> DEFINE s       == look[p].states
             F       == Known(s, p)
             page    == Batch(Rows, s, F \cap Listed, deleted)
             liveOf  == IF deleted THEN look[p].live ELSE page
             delOf   == IF deleted THEN page ELSE look[p].deleted
             found   == Decided(liveOf, delOf, s, F)
             left    == Undecided(liveOf, delOf, s, F)
  <2>1. look[p].step = IF deleted THEN "deleted" ELSE "live"
    BY <1>10 DEF ReadOther
  <2>2. ASSUME listening[p], NEW u \in Uids, Overlooked(u, p)
        PROVE  folderOf[u] \in found \cup left
    <3>1. NotAhead(s) /\ s.echo[u] # row[u].at /\ Covers(look[p], u)
      BY <1>6, <2>1, <2>2 DEF Asking
    <3>2. /\ folderOf[u] \in F
          /\ \A R : RowOf(u) \in R => isPending(folderOf[u], R, s)
      BY <1>1, <1>2, <2>2, <3>1, OverlookedAhead
    <3>3. CASE folderOf[u] \notin Listed
      BY <3>2, <3>3 DEF Undecided
    <3>4. CASE folderOf[u] \in Listed /\ ~complete(liveOf, delOf)
      <4> HIDE DEF found, liveOf, delOf, F, s, page
      <4>1. left = (F \ Listed) \cup ((F \cap Listed) \ found)
        BY <3>4 DEF Undecided, found
      <4> HIDE DEF left
      <4> QED BY <3>2, <3>4, <4>1
    <3>5. CASE folderOf[u] \in Listed /\ complete(liveOf, delOf)
      <4>1. Cardinality(liveOf) <= BatchRowLimit /\ Cardinality(delOf) <= BatchRowLimit
        BY <3>5 DEF complete
      <4>2. row[u].deleted = deleted /\ Cardinality(page) <= BatchRowLimit => RowOf(u) \in page
        BY <1>1, <1>2, <2>2, <3>1, <3>5, BatchHas
      <4>3. row[u].deleted \in BOOLEAN
        BY DEF WorldTypes
      <4>4. RowOf(u) \in liveOf \cup delOf
        <5>1. CASE row[u].deleted = deleted
          BY <4>1, <4>2, <5>1
        <5>2. CASE row[u].deleted # deleted
          BY <2>1, <3>1, <3>5, <4>1, <4>3, <5>2 DEF Covers
        <5> QED BY <5>1, <5>2
      <4>5. isPending(folderOf[u], liveOf \cup delOf, s)
        BY <3>2, <4>4
      <4> HIDE DEF liveOf, delOf, F, s, page
      <4> QED BY <3>2, <3>5, <4>5 DEF Decided
    <3> QED BY <3>3, <3>4, <3>5
  <2>3. found \in SUBSET Folders
    BY PingAssumption DEF Decided, Known
  <2>4. CASE left = {}
    <3>1. Reports(p, found)
      BY <1>10, <2>4 DEF ReadOther
    <3> HIDE DEF found, left, liveOf, delOf, F, s, page
    <3> QED
      BY <1>1, <1>2, <1>3, <2>2, <2>3, <2>4, <3>1, ReportsLooked
  <2>5. CASE left # {}
    <3> DEFINE l == [Idle EXCEPT !.step = "scan", !.states = s, !.found = found, !.left = left]
    <3>1. look' = [look EXCEPT ![p] = l] /\ UNCHANGED answer
      BY <1>10, <2>5 DEF ReadOther
    <3> HIDE DEF found, left, liveOf, delOf, F, page
    <3>2. l.step = "scan" /\ l.states = s /\ l.found = found /\ l.left = left
      BY DEF Idle
    <3>3. ASSUME listening[p], NEW u \in Uids, Overlooked(u, p) PROVE Covers(l, u)
      <4>1. s.echo[u] # row[u].at
        BY <1>6, <2>1, <3>3 DEF Asking
      <4> HIDE DEF l, s
      <4> QED
        BY <2>2, <3>2, <3>3, <4>1 DEF Covers
    <3>4. listening[p] => NotAhead(s)
      BY <1>5, <2>1 DEF Sees, Asking
    <3> HIDE DEF l, s
    <3> QED
      BY <1>1, <1>2, <1>3, <1>4, <3>1, <3>2, <3>3, <3>4, GoesOnLooked
  <2> QED
    BY <2>4, <2>5
<1>11. CASE Scan(p)
  <2> DEFINE found == look[p].found \cup
                         {f \in look[p].left : Scanned(f, Rows, look[p].states)}
  <2>1. found \in SUBSET Folders
    BY <1>1 DEF LookType
  <2>2. Reports(p, found) /\ look[p].step = "scan"
    BY <1>11 DEF Scan
  <2>3. ASSUME listening[p], NEW u \in Uids, Overlooked(u, p) PROVE folderOf[u] \in found
    <3>1. /\ NotAhead(look[p].states)
          /\ look[p].states.echo[u] # row[u].at
          /\ Covers(look[p], u)
      BY <1>6, <2>2, <2>3 DEF Asking
    <3>2. folderOf[u] \in look[p].found \cup look[p].left
      BY <2>2, <3>1 DEF Covers
    <3>3. Scanned(folderOf[u], Rows, look[p].states)
      BY <1>1, <1>2, <2>3, <3>1, ScanHas
    <3> QED BY <3>2, <3>3
  <2> HIDE DEF found
  <2> QED
    BY <1>1, <1>2, <1>3, <2>1, <2>2, <2>3, ReportsLooked
<1>12. CASE LookFails(p)
  <2> DEFINE l == [Idle EXCEPT !.step = "failed"]
  <2>1. look' = [look EXCEPT ![p] = l] /\ UNCHANGED answer
    BY <1>12 DEF LookFails
  <2>2. l.step = "failed"
    BY DEF Idle
  <2> HIDE DEF l
  <2>3. \A u \in Uids : Covers(l, u)
    BY <2>2 DEF Covers, Asking
  <2> QED
    BY <1>1, <1>2, <1>3, <1>4, <2>1, <2>2, <2>3, GoesOnLooked DEF Asking
<1> QED
  BY <1>8, <1>9, <1>10, <1>11, <1>12 DEF Query

\* The steps of a Ping that are no look: it looks at nothing before it is subscribed, and
\* from then on anew.
LEMMA PingLooked ==
    ASSUME Inner, WorldTypes, Missing, NEW p \in Pings, UNCHANGED World,
           \/ waitForChange(p) \/ Proceed(p) \/ Cancel(p)
           \/ Subscribed(p) \/ Unsubscribed(p)
    PROVE  Looked'
<1>1. Looked /\ Order /\ OurTypes /\ LookFcn
  BY DEF Missing, Inner
<1>2. CASE waitForChange(p)
  <2>1. pc[p] = "new" /\ ~listening[p] /\ active # p /\ look[p].step = "idle"
    BY <1>1, <1>2 DEF waitForChange, Inner, Order, OneActive, Waits
  <2>2. \A q \in Pings :
           /\ answer'[q] = IF q = active THEN {} ELSE answer[q]
           /\ look'[q] = IF q = active THEN Idle
                         ELSE IF q = p /\ ~UseRedis THEN [Idle EXCEPT !.step = "states"]
                         ELSE look[q]
           /\ pc'[q] = IF q = p THEN (IF UseRedis THEN "connect" ELSE "alone") ELSE pc[q]
           /\ listening'[q] = listening[q]
    BY <1>1, <1>2 DEF waitForChange, Goes, OurTypes
  <2> SUFFICES ASSUME NEW q \in Pings
               PROVE  /\ pc'[q] \in {"new", "connect", "subscribe", "answered"} =>
                             look'[q].step = "idle"
                      /\ Waits(q)' /\ listening'[q] => Sees(q)'
    BY DEF Looked
  <2>3. pc'[q] \in {"new", "connect", "subscribe", "answered"} => look'[q].step = "idle"
    BY <1>1, <2>1, <2>2, IdleType DEF Looked
  <2>4. ASSUME Waits(q)', listening'[q] PROVE Sees(q)'
    <3>1. q # p /\ q # active
      BY <2>1, <2>2, <2>4, PingAssumption DEF Waits, Settled
    <3>2. Waits(q)
      BY <2>2, <2>4, <3>1 DEF Waits, Settled
    <3> QED
      BY <3>1, <3>2 DEF Inner, OneActive
  <2> QED
    BY <2>3, <2>4
<1>3. CASE Cancel(p)
  <2>1. Waits(p) /\ finish({p}, {}) /\ UNCHANGED <<pc, listening>>
    BY <1>3 DEF Cancel
  <2>2. \A q \in Pings \ {p} : look'[q] = look[q]
    BY <2>1 DEF finish
  <2>3. \A q \in Pings \ {p} : Sees(q) => Sees(q)'
    BY <2>2, SeesStill
  <2> QED
    BY <1>1, <2>1, <2>3, FinishLooked
<1>4. CASE Subscribe(p)
  <2>1. \A q \in Pings :
           /\ look'[q] = look[q] /\ listening'[q] = listening[q]
           /\ pc'[q] = IF q = p THEN (IF Settled(p) THEN "over" ELSE "subscribe") ELSE pc[q]
           /\ answer'[q] = answer[q]
    BY <1>1, <1>4 DEF Subscribe, Goes, OurTypes
  <2>2. \A q \in Pings : q # p => (Waits(q)' => Waits(q))
    BY <2>1 DEF Waits, Settled
  <2>3. pc[p] = "connect" /\ ~listening[p] /\ look[p].step = "idle"
    BY <1>1, <1>4 DEF Subscribe, Order, Looked
  <2> QED
    BY <1>1, <2>1, <2>2, <2>3, OneLooks
<1>5. CASE Resume(p)
  <2>1. pc[p] = "answered"
    BY <1>5 DEF Resume
  <2>2. \A q \in Pings :
           /\ q # p => look'[q] = look[q]
           /\ listening'[q] = listening[q]
           /\ pc'[q] = IF q = p THEN (IF Settled(p) THEN "over" ELSE "subscribed") ELSE pc[q]
           /\ answer'[q] = answer[q]
    BY <1>1, <1>5 DEF Resume, Goes, Looks, OurTypes, LookFcn
  <2>3. \A q \in Pings : q # p => (Waits(q)' => Waits(q))
    BY <2>2 DEF Waits, Settled
  <2>4. ASSUME Waits(p)' PROVE look'[p].step = "states"
    <3>1. ~Settled(p)
      BY <2>2, <2>4 DEF Waits, Settled
    <3> QED
      BY <1>1, <1>5, <3>1, IdleType DEF Resume, Looks, LookFcn
  <2>5. Waits(p)' => Sees(p)'
    BY <2>4, SeesNothing
  <2>6. pc'[p] \notin {"new", "connect", "subscribe", "answered"}
    BY <2>2
  <2> QED
    BY <1>1, <2>2, <2>3, <2>5, <2>6, OneLooks
<1>6. CASE Subscribed(p)
  <2>1. \A q \in Pings :
           /\ look'[q] = look[q]
           /\ pc'[q] = IF q = p THEN "answered" ELSE pc[q]
           /\ answer'[q] = answer[q]
    BY <1>1, <1>6 DEF Subscribed, Goes, OurTypes
  <2>2. look'[p].step = "idle"
    BY <1>1, <1>6, <2>1 DEF Subscribed, Looked
  <2>3. \A q \in Pings : q # p => (Waits(q)' => Waits(q)) /\ listening'[q] = listening[q]
    BY <1>1, <1>6, <2>1 DEF Waits, Settled, Subscribed, OurTypes
  <2>4. Sees(p)'
    BY <2>2, SeesNothing
  <2> QED
    BY <1>1, <2>1, <2>2, <2>3, <2>4, OneLooks
<1>7. CASE Unsubscribed(p)
  <2>1. \A q \in Pings :
           /\ look'[q] = look[q] /\ pc'[q] = pc[q] /\ answer'[q] = answer[q]
           /\ listening'[q] = IF q = p THEN FALSE ELSE listening[q]
    BY <1>1, <1>7 DEF Unsubscribed, OurTypes
  <2>2. \A q \in Pings : q # p => (Waits(q)' => Waits(q))
    BY <2>1 DEF Waits, Settled
  <2> QED
    BY <1>1, <2>1, <2>2, OneLooks DEF Looked
<1> QED
  BY <1>2, <1>3, <1>4, <1>5, <1>6, <1>7 DEF Proceed

\* Whoever goes on alone does not listen.
LEMMA FailsLooked ==
    ASSUME Inner, Missing, ConnectFails, UNCHANGED World
    PROVE  Looked'
<1>1. Looked /\ Order /\ OurTypes
  BY DEF Missing, Inner
<1>2. \A q \in Pings : /\ pc'[q] = IF pc[q] = "connect" THEN "alone" ELSE pc[q]
                       /\ pc[q] # "connect" => look'[q] = look[q]
                       /\ answer'[q] = answer[q] /\ listening'[q] = listening[q]
  BY <1>1 DEF ConnectFails, OurTypes
<1> SUFFICES ASSUME NEW q \in Pings
             PROVE  /\ pc'[q] \in {"new", "connect", "subscribe", "answered"} =>
                           look'[q].step = "idle"
                    /\ Waits(q)' /\ listening'[q] => Sees(q)'
  BY DEF Looked
<1>3. CASE pc[q] = "connect"
  BY <1>1, <1>2, <1>3 DEF Order
<1>4. CASE pc[q] # "connect"
  <2>1. Waits(q)' => Waits(q)
    BY <1>2, <1>4 DEF Waits, Settled
  <2> QED
    BY <1>1, <1>2, <1>4, <2>1, SeesStill DEF Looked
<1> QED
  BY <1>3, <1>4

\* A publish answers everyone who listens and may read the folder.
LEMMA PublishLooked ==
    ASSUME Inner, WorldTypes, Missing, NEW v \in Uids, Publish(v)
    PROVE  Looked'
<1> DEFINE P == {p \in Pings : Waits(p) /\ listening[p] /\ folderOf[v] \in readable[p]}
<1>1. /\ finish(P, {folderOf[v]}) /\ UNCHANGED <<pc, listening>>
      /\ UNCHANGED <<clock, row, unheard, cursor, echo, told>>
      /\ unpublished' = unpublished \ {v}
  BY DEF Publish, synced
<1>2. {folderOf[v]} \in SUBSET Folders /\ P \in SUBSET Pings
  BY PingAssumption
<1>3. ASSUME NEW p \in Pings \ P, Waits(p), listening[p], Sees(p) PROVE Sees(p)'
  <2>1. look'[p] = look[p]
    BY <1>1 DEF finish
  <2>2. folderOf[v] \notin readable[p]
    BY <1>3
  <2> HIDE DEF P
  <2>3. ASSUME NEW u \in Uids, Overlooked(u, p)' PROVE Overlooked(u, p)
    <3>1. u # v
      BY <2>2, <2>3 DEF Overlooked
    <3> QED
      BY <1>1, <2>3, <3>1 DEF Overlooked, Unsynced
  <2>4. ASSUME NEW u \in Uids, Overlooked(u, p)' PROVE Covers(look[p], u)'
    <3>1. Covers(look[p], u)
      BY <1>3, <2>3, <2>4 DEF Sees
    <3> QED
      BY <1>1, <2>1, <3>1 DEF Covers, RowOf
  <2>5. look[p].step \in Asking => NotAhead(look[p].states)'
    BY <1>1, <1>3, <2>1 DEF Sees, NotAhead
  <2> QED
    BY <2>1, <2>4, <2>5 DEF Sees, Covers, RowOf, Asking
<1> HIDE DEF P
<1> QED
  BY <1>1, <1>2, <1>3, FinishLooked DEF Missing

\* The initial state.
LEMMA InitMissing == Init => Missing
<1> SUFFICES ASSUME Init PROVE Missing
  OBVIOUS
<1>1. Stamps
  BY PingAssumption, UtilsAssumption DEF Init, Stamps, Epoch
<1>2. Looked
  BY IdleType DEF Init, Looked, Waits
<1> QED
  BY <1>1, <1>2 DEF Missing

\* Every step keeps it.
LEMMA StepMissing == NoLag /\ IInv /\ Missing /\ [Next]_vars => Missing'
<1> SUFFICES ASSUME NoLag, IInv, Missing, [Next]_vars PROVE Missing'
  OBVIOUS
<1>1. WorldTypes /\ Inner /\ OurTypes /\ Stamps /\ Looked
  BY TwoHalves DEF IInv, Inner, Missing
<1>2. CASE UNCHANGED World
  <2>1. Stamps'
    BY <1>1, <1>2 DEF World, Stamps, Beyond
  <2> USE <1>1, <1>2
  <2>2. ASSUME NEW p \in Pings,
               \/ waitForChange(p) \/ Proceed(p) \/ Cancel(p)
               \/ Subscribed(p) \/ Unsubscribed(p)
        PROVE  Looked'
    BY <2>2, PingLooked
  <2>3. ASSUME NEW p \in Pings, Query(p) PROVE Looked'
    BY <2>3, QueryLooked
  <2>4. ASSUME ConnectFails PROVE Looked'
    BY <2>4, FailsLooked
  <2>5. ASSUME pc' = pc, look' = look, listening' = listening, answer' = answer
        PROVE  Looked'
    <3>1. \A p \in Pings : Sees(p) => Sees(p)'
      BY <2>5, SeesStill
    <3> QED
      BY <2>5, <3>1 DEF Looked, Waits, Settled
  <2>6. ASSUME NEW u \in Uids, Publish(u) PROVE Looked'
    BY <2>6, PublishLooked
  <2>7. ASSUME Elsewhere PROVE Looked'
    <3>1. UNCHANGED Ours
      BY <2>7, WorldStep
    <3> QED
      BY <2>5, <3>1 DEF Ours
  <2>8. ASSUME Connects \/ UNCHANGED vars PROVE Looked'
    BY <2>5, <2>8 DEF Connects, vars
  <2>9. Looked'
    BY <2>2, <2>3, <2>4, <2>6, <2>7, <2>8 DEF Next, Elsewhere
  <2> QED
    BY <2>1, <2>9 DEF Missing
<1>3. CASE Elsewhere
  <2>1. Stamps'
    BY <1>1, <1>3, WorldStamps
  <2>2. UNCHANGED Ours
    BY <1>1, <1>3, WorldStep
  <2>3. \A p \in Pings : Sees(p) => Sees(p)'
    BY <1>1, <1>3, <2>2, WorldSees
  <2>4. Looked'
    BY <1>1, <2>2, <2>3 DEF Ours, Looked, Waits, Settled
  <2> QED
    BY <2>1, <2>4 DEF Missing
<1>4. ASSUME NEW u \in Uids, Publish(u) PROVE Missing'
  <2>1. Stamps'
    BY <1>1, <1>4 DEF Publish, synced, Stamps, Beyond
  <2> QED
    BY <1>1, <1>4, <2>1, PublishLooked DEF Missing
<1>5. Elsewhere \/ (\E u \in Uids : Publish(u)) \/ UNCHANGED World
  <2>1. ASSUME NEW p \in Pings,
               \/ waitForChange(p) \/ Proceed(p) \/ Cancel(p)
               \/ Subscribed(p) \/ Unsubscribed(p) \/ Query(p)
        PROVE  UNCHANGED World
    BY <2>1 DEF World, rows, synced, waitForChange, Proceed, Subscribe, Resume, Cancel,
       Subscribed, Unsubscribed, Query, loadStates, ReadOne, ReadOther, Scan, LookFails,
       LookUnchanged
  <2>2. Connects \/ ConnectFails \/ UNCHANGED vars => UNCHANGED World
    BY DEF World, rows, synced, Connects, ConnectFails, vars
  <2> QED
    BY <2>1, <2>2 DEF Next, Elsewhere
<1> QED
  BY <1>2, <1>3, <1>4, <1>5

\* A Ping that listens and has looked has seen, or will be told by a publish, whatever
\* the device lacks, however the queries of its look and the writes and Syncs cross: if
\* writes commit as they are stamped.
THEOREM NothingIsMissed ==
  ASSUME NoLag
  PROVE  Spec => []NothingMissed
<1>1. Init => IInv /\ Missing
  BY InitIInv, InitMissing
<1>2. (IInv /\ Missing) /\ [Next]_vars => (IInv /\ Missing)'
  BY StepIInv, StepMissing
<1>3. IInv /\ Missing => NothingMissed
  <2> SUFFICES ASSUME Missing, NEW p \in Pings, Waits(p), listening[p], look[p].step = "over",
                      NEW u \in Uids, Unsynced(u), folderOf[u] \in readable[p]
               PROVE  u \in unpublished \cup unheard
    BY DEF NothingMissed
  <2> QED
    BY DEF Missing, Looked, Sees, Overlooked, Covers
<1> QED
  BY <1>1, <1>2, <1>3, PTL DEF Spec
=============================================================================
