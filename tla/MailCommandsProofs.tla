------------------------- MODULE MailCommandsProofs -------------------------
(***************************************************************************)
(* What is proved about MailCommands for any messages, requests and bounds *)
(* of its constants.                                                       *)
(***************************************************************************)
EXTENDS MailCommands, FiniteSetTheorems, TLAPS

\* What a request has read is the row, unless it has been written since, and was
\* there when it was read.
Copied ==
    \A r \in Reqs, m \in Messages : m \in Todo(work[r]) =>
        /\ work[r].copy[m].place # "gone"
        /\ m \notin stale[r] => work[r].copy[m] = msg[m]

\* A message that the transport has not got yet: if the job is about to relay it,
\* its row is leased, or has been deleted.
Unsent(m) ==
    /\ relays[m] = 0
    /\ ~msg[m].relayed
    /\ job[m] # "sent"
    /\ job[m] = "claimed" =>
          msg[m].place = "gone" \/ (msg[m].place = "Outbox" /\ msg[m].lease = "live")

\* A message that the transport has got: nothing can queue it or claim it again.
Sent(m) ==
    /\ relays[m] = 1
    /\ job[m] # "claimed"
    /\ msg[m].place # "Drafts"
    /\ msg[m].place = "Outbox" => msg[m].lease = "live" \/ msg[m].relayed
    /\ job[m] = "sent" =>
          msg[m].place = "gone" \/ (msg[m].place = "Outbox" /\ msg[m].lease = "live")

Tracked == \A m \in Messages : m \notin late => Unsent(m) \/ Sent(m)

\* Unless the job races with deletes, none is about to remove what it has claimed.
Guarded ==
    ~JobRaces => \A m \in Messages : m \notin late /\ job[m] = "claimed" =>
        /\ msg[m].place = "Outbox"
        /\ \A r \in Reqs : work[r].kind \in Removes /\ m \in Todo(work[r])
                              => work[r].copy[m].lease = "live"

\* Only what is still in the folder counts as never having left it.
Staying ==
    \A r \in Reqs : work[r].kind = "empty" =>
        /\ work[r].status = "" => work[r].stayed \subseteq In(work[r].folder)
        /\ work[r].status = "ok" => work[r].stayed = {}

IInv == TypeOK /\ Copied /\ Tracked /\ Guarded /\ Staying

-----------------------------------------------------------------------------
(* The records that commands work with.                                    *)

\* A function of messages on rows is what a request may have read.
LEMMA CopyType ==
  ASSUME NEW ms \in SUBSET Messages, NEW f \in [ms -> Message]
  PROVE  f \in RowCopies
BY DEF RowCopies

\* What a request has read are rows of messages.
LEMMA CopyRows ==
  ASSUME NEW f \in RowCopies
  PROVE  DOMAIN f \in SUBSET Messages /\ f \in [DOMAIN f -> Message]
BY DEF RowCopies

LEMMA NoWorkType == NoWork \in Works /\ NoWork.kind = "none" /\ Todo(NoWork) = {}
<1>1. NoCopies \in [{} -> Message]
  BY DEF NoCopies
<1>2. NoCopies \in RowCopies /\ DOMAIN NoCopies = {}
  BY <1>1, CopyType DEF NoCopies
<1> QED
  BY <1>2, MailAssumption DEF NoWork, Works, Folders, Kinds, Todo

\* Request q goes on with w: with fewer messages, read as they were, or with none.
Narrows(w, q, m) ==
    /\ \/ w.kind = "none" /\ Todo(w) = {}
       \/ /\ w.kind = work[q].kind /\ w.folder = work[q].folder
          /\ w.stayed = work[q].stayed /\ w.status = work[q].status
    /\ Todo(w) \subseteq Todo(work[q]) \ {m}
    /\ \A x \in Todo(w) : w.copy[x] = work[q].copy[x]

\* A message that has been dealt with is not dealt with again.
LEMMA HandledNarrows ==
  ASSUME TypeOK, NEW r \in Reqs, NEW m \in Todo(work[r]), NEW ok \in BOOLEAN
  PROVE  Handled(r, m, ok) \in Works /\ Narrows(Handled(r, m, ok), r, m)
<1> DEFINE w == work[r]
           rest == [q \in Todo(w) \ {m} |-> w.copy[q]]
<1>1. w \in Works
  BY DEF TypeOK
<1>2. w.copy \in RowCopies
  BY <1>1 DEF Works
<1>3. Todo(w) \in SUBSET Messages /\ w.copy \in [Todo(w) -> Message]
  BY <1>2, CopyRows DEF Todo
<1>4. rest \in [Todo(w) \ {m} -> Message]
  BY <1>3
<1>5. rest \in RowCopies
  BY <1>3, <1>4, CopyType
<1>6. CASE w.kind # "empty" /\ Todo(w) = {m}
  <2>1. Handled(r, m, ok) = NoWork
    BY <1>6 DEF Handled
  <2> QED
    BY <2>1, NoWorkType DEF Narrows
<1>7. CASE ~(w.kind # "empty" /\ Todo(w) = {m})
  <2> DEFINE h == [w EXCEPT !.copy = rest, !.some = @ \/ ok,
                            !.failed = IF ok THEN @ ELSE @ \cup {m}]
  <2>1. Handled(r, m, ok) = h
    BY <1>7 DEF Handled
  <2>2. m \in Messages
    BY <1>3
  <2>3. h \in Works
    BY <1>1, <1>5, <2>2 DEF Works
  <2>4. h.copy = rest /\ h.kind = w.kind /\ h.folder = w.folder /\ h.stayed = w.stayed
        /\ h.status = w.status
    BY <1>1 DEF Works
  <2>5. Todo(h) = Todo(w) \ {m} /\ \A x \in Todo(h) : h.copy[x] = w.copy[x]
    BY <2>4 DEF Todo
  <2> QED
    BY <2>1, <2>3, <2>4, <2>5 DEF Narrows
<1> QED
  BY <1>6, <1>7

\* What a write of row m leaves of the requests' work.
WrittenAs(m, row) ==
    /\ msg' = [msg EXCEPT ![m] = row] /\ msg' \in [Messages -> Message]
    /\ work' \in [Reqs -> Works] /\ stale' \in [Reqs -> SUBSET Messages]
    /\ Copied' /\ Staying'
    /\ \A q \in Reqs, x \in Messages :
          work'[q].kind # "none" /\ x \in Todo(work'[q]) =>
             /\ work'[q].kind = work[q].kind /\ x \in Todo(work[q])
             /\ work'[q].copy[x] = work[q].copy[x]

\* A row is written: whoever goes on with old copies knows that they are.
LEMMA PutsKeep ==
  ASSUME TypeOK, Copied, Staying, NEW m \in Messages, NEW row \in Message,
         NEW works \in [Reqs -> Works], NEW others \in SUBSET Reqs,
         Puts(m, row, works, others),
         \A q \in Reqs : \/ q \in others /\ works[q] = work[q]
                         \/ Narrows(works[q], q, m)
  PROVE  WrittenAs(m, row)
<1>1. msg' = [msg EXCEPT ![m] = row] /\ msg' \in [Messages -> Message]
  BY DEF Puts, TypeOK
<1>2. ASSUME NEW q \in Reqs
      PROVE  /\ work'[q] \in Works
             /\ work'[q].kind = works[q].kind /\ work'[q].folder = works[q].folder
             /\ work'[q].status = works[q].status /\ work'[q].copy = works[q].copy
             /\ work'[q].stayed \subseteq works[q].stayed
             /\ works[q].kind = "empty" /\ row.place # works[q].folder
                   => m \notin work'[q].stayed
  <2>1. works[q] \in Works
    OBVIOUS
  <2>2. CASE works[q].kind = "empty" /\ row.place # works[q].folder
    <3>1. work'[q] = [works[q] EXCEPT !.stayed = @ \ {m}]
      BY <2>2 DEF Puts
    <3> QED
      BY <2>1, <3>1 DEF Works
  <2>3. CASE ~(works[q].kind = "empty" /\ row.place # works[q].folder)
    <3>1. work'[q] = works[q]
      BY <2>3 DEF Puts
    <3> QED
      BY <2>1, <2>3, <3>1
  <2> QED
    BY <2>2, <2>3
<1>3. work' \in [Reqs -> Works]
  <2>1. work' = [q \in Reqs |-> work'[q]]
    BY DEF Puts
  <2> QED
    BY <1>2, <2>1
<1>4. stale' \in [Reqs -> SUBSET Messages]
  BY DEF Puts, TypeOK
<1>5. ASSUME NEW q \in Reqs, NEW x \in Messages, x \in Todo(work'[q])
      PROVE  /\ x \in Todo(work[q])
             /\ work'[q].copy[x] = work[q].copy[x]
             /\ work'[q].kind # "none" => work'[q].kind = work[q].kind
             /\ x = m => q \in others
  BY <1>2, <1>5 DEF Narrows, Todo
<1>6. Copied'
  <2> SUFFICES ASSUME NEW q \in Reqs, NEW x \in Messages, x \in Todo(work'[q])
               PROVE  /\ work'[q].copy[x].place # "gone"
                      /\ x \notin stale'[q] => work'[q].copy[x] = msg'[x]
    BY DEF Copied, Todo
  <2>1. /\ x \in Todo(work[q]) /\ work'[q].copy[x] = work[q].copy[x]
        /\ x = m => q \in others
    BY <1>5
  <2>2. x \notin stale'[q] => x # m /\ x \notin stale[q]
    BY <2>1 DEF Puts
  <2>3. x # m => msg'[x] = msg[x]
    BY <1>1 DEF TypeOK
  <2> QED
    BY <2>1, <2>2, <2>3 DEF Copied
<1>7. Staying'
  <2> SUFFICES ASSUME NEW q \in Reqs, work'[q].kind = "empty"
               PROVE  /\ work'[q].status = "" =>
                            work'[q].stayed \subseteq {x \in Messages : msg'[x].place = work'[q].folder}
                      /\ work'[q].status = "ok" => work'[q].stayed = {}
    BY DEF Staying, In
  <2>1. /\ works[q].kind = work[q].kind /\ works[q].folder = work[q].folder
        /\ works[q].stayed = work[q].stayed /\ works[q].status = work[q].status
    BY <1>2 DEF Narrows
  <2>2. /\ work[q].kind = "empty" /\ work'[q].folder = work[q].folder
        /\ work'[q].status = work[q].status /\ work'[q].stayed \subseteq work[q].stayed
        /\ row.place # work[q].folder => m \notin work'[q].stayed
    BY <1>2, <2>1
  <2>3. \A x \in Messages : x # m => msg'[x] = msg[x]
    BY <1>1 DEF TypeOK
  <2>4. msg'[m] = row
    BY <1>1 DEF TypeOK
  <2> QED
    BY <2>2, <2>3, <2>4 DEF Staying, In
<1> QED
  BY <1>1, <1>3, <1>4, <1>5, <1>6, <1>7 DEF WrittenAs
LEMMA JobWritesKeep ==
  ASSUME TypeOK, Copied, Staying, NEW m \in Messages, NEW row \in Message, JobWrites(m, row)
  PROVE  WrittenAs(m, row)
<1>1. work \in [Reqs -> Works]
  BY DEF TypeOK
<1> QED
  BY <1>1, PutsKeep DEF JobWrites

LEMMA WritesKeep ==
  ASSUME TypeOK, Copied, Staying, NEW r \in Reqs, NEW m \in Todo(work[r]), NEW ok \in BOOLEAN,
         NEW row \in Message, Writes(r, m, row, Handled(r, m, ok))
  PROVE  m \in Messages /\ WrittenAs(m, row)
<1> DEFINE works == [work EXCEPT ![r] = Handled(r, m, ok)]
<1>1. Handled(r, m, ok) \in Works /\ Narrows(Handled(r, m, ok), r, m)
  BY HandledNarrows
<1>2. works \in [Reqs -> Works]
  BY <1>1 DEF TypeOK
<1>3. \A q \in Reqs : (q \in Reqs \ {r} /\ works[q] = work[q]) \/ Narrows(works[q], q, m)
  BY <1>1 DEF TypeOK
<1>4. m \in Messages
  <2>1. work[r].copy \in RowCopies
    BY DEF TypeOK, Works
  <2> QED
    BY <2>1, CopyRows DEF Todo
<1> QED
  BY <1>2, <1>3, <1>4, PutsKeep DEF Writes

\* A write of row m that fits where the message is on its way.
LEMMA WrittenKeeps ==
  ASSUME TypeOK, Tracked, Guarded, NEW m \in Messages, NEW row \in Message, WrittenAs(m, row),
         late' = late, relays' = relays,
         \A x \in Messages : x # m => job'[x] = job[x],
         m \notin late => Unsent(m)' \/ Sent(m)',
         job'[m] = "claimed" => job[m] = "claimed",
         ~JobRaces /\ job'[m] = "claimed" /\ m \notin late => row.place = "Outbox"
  PROVE  Tracked' /\ Guarded'
<1>1. \A x \in Messages : x # m => msg'[x] = msg[x]
  BY DEF WrittenAs, TypeOK
<1>2. msg'[m] = row
  BY DEF WrittenAs, TypeOK
<1>3. Tracked'
  BY <1>1 DEF Tracked, Unsent, Sent
<1>4. Guarded'
  BY <1>1, <1>2 DEF Guarded, WrittenAs, Removes
<1> QED
  BY <1>3, <1>4

\* A request goes on with w, and no row is written: what it has read it read before,
\* or reads now.
Takes(w, r) ==
    /\ \A q \in Reqs : q # r => stale'[q] = stale[q]
    /\ \A x \in Todo(w) :
          \/ /\ x \in Todo(work[r]) /\ w.copy[x] = work[r].copy[x]
             /\ w.kind = work[r].kind /\ stale'[r] = stale[r]
          \/ w.copy[x] = msg[x] /\ msg[x].place # "gone"
    /\ w.kind = "empty" => /\ w.status = "" => w.stayed \subseteq In(w.folder)
                           /\ w.status = "ok" => w.stayed = {}

LEMMA GoesKeeps ==
  ASSUME TypeOK, Copied, Tracked, Guarded, Staying, NEW r \in Reqs, NEW w \in Works,
         work' = [work EXCEPT ![r] = w], stale' \in [Reqs -> SUBSET Messages],
         UNCHANGED <<msg, relays, late, job>>, Takes(w, r)
  PROVE  work' \in [Reqs -> Works] /\ Copied' /\ Tracked' /\ Guarded' /\ Staying'
<1>1. work \in [Reqs -> Works] /\ work' \in [Reqs -> Works]
  BY DEF TypeOK
<1>2. work'[r] = w /\ \A q \in Reqs : q # r => work'[q] = work[q]
  BY <1>1
<1>3. Tracked'
  BY DEF Tracked, Unsent, Sent
<1>4. ASSUME NEW q \in Reqs, NEW x \in Messages, x \in DOMAIN work'[q].copy
      PROVE  /\ work'[q].copy[x].place # "gone"
             /\ x \notin stale'[q] => work'[q].copy[x] = msg[x]
  <2>1. CASE q # r
    <3>1. work'[q] = work[q] /\ stale'[q] = stale[q]
      BY <1>2, <2>1 DEF Takes
    <3> QED
      BY <1>4, <3>1 DEF Copied, Todo
  <2>2. CASE q = r
    <3>1. work'[q] = w /\ x \in Todo(w)
      BY <1>2, <1>4, <2>2 DEF Todo
    <3>2. \/ /\ x \in Todo(work[r]) /\ w.copy[x] = work[r].copy[x] /\ stale'[r] = stale[r]
          \/ w.copy[x] = msg[x] /\ msg[x].place # "gone"
      BY <3>1 DEF Takes
    <3> QED
      BY <2>2, <3>1, <3>2 DEF Copied
  <2> QED
    BY <2>1, <2>2
<1>5. ASSUME NEW q \in Reqs, work'[q].kind = "empty"
      PROVE  /\ work'[q].status = "" => work'[q].stayed \subseteq In(work'[q].folder)
             /\ work'[q].status = "ok" => work'[q].stayed = {}
  <2>1. CASE q # r
    BY <1>2, <1>5, <2>1 DEF Staying
  <2>2. CASE q = r
    BY <1>2, <1>5, <2>2 DEF Takes
  <2> QED
    BY <2>1, <2>2
<1>6. ASSUME ~JobRaces, NEW x \in Messages, x \notin late, job[x] = "claimed",
             NEW q \in Reqs, work'[q].kind \in Removes, x \in DOMAIN work'[q].copy
      PROVE  work'[q].copy[x].lease = "live"
  <2>1. msg[x].place = "Outbox" /\ msg[x].lease = "live"
    BY <1>6 DEF Guarded, Tracked, Unsent, Sent
  <2>2. CASE q # r
    BY <1>2, <1>6, <2>2 DEF Guarded, Todo
  <2>3. CASE q = r
    <3>1. work'[q] = w /\ x \in Todo(w)
      BY <1>2, <1>6, <2>3 DEF Todo
    <3>2. \/ /\ x \in Todo(work[r]) /\ w.copy[x] = work[r].copy[x]
             /\ w.kind = work[r].kind
          \/ w.copy[x] = msg[x]
      BY <3>1 DEF Takes
    <3> QED
      BY <1>6, <2>1, <3>1, <3>2 DEF Guarded
  <2> QED
    BY <2>2, <2>3
<1>7. Copied'
  BY <1>4 DEF Copied, Todo
<1>8. Staying'
  BY <1>5 DEF Staying, In
<1>9. Guarded'
  BY <1>6 DEF Guarded, Todo
<1> QED
  BY <1>1, <1>3, <1>7, <1>8, <1>9
-----------------------------------------------------------------------------
(* Rows.                                                                   *)

\* The rows that the mail server and the commands write are rows of messages.
LEMMA RowTypes ==
  ASSUME NEW x \in Message, NEW p \in Folders \cup {"gone"}, NEW l \in {"none", "live", "lapsed"},
         NEW b \in BOOLEAN, NEW c \in BOOLEAN, NEW f \in SUBSET {"read", "answered"}
  PROVE  /\ [x EXCEPT !.place = p] \in Message
         /\ [x EXCEPT !.place = p, !.queued = b] \in Message
         /\ [x EXCEPT !.place = p, !.queued = b, !.lease = l] \in Message
         /\ [x EXCEPT !.place = p, !.queued = b, !.lease = l, !.relayed = c] \in Message
         /\ [x EXCEPT !.lease = l] \in Message
         /\ [x EXCEPT !.relayed = b] \in Message
         /\ [x EXCEPT !.flags = f] \in Message
BY DEF Message

\* What a row is after such a write.
LEMMA RowFields ==
  ASSUME NEW x \in Message, NEW p, NEW l, NEW b, NEW c, NEW f
  PROVE  /\ LET y == [x EXCEPT !.place = p]
            IN y.place = p /\ y.lease = x.lease /\ y.relayed = x.relayed /\ y.flags = x.flags
         /\ LET y == [x EXCEPT !.place = p, !.queued = b]
            IN y.place = p /\ y.lease = x.lease /\ y.relayed = x.relayed /\ y.flags = x.flags
         /\ LET y == [x EXCEPT !.place = p, !.queued = b, !.lease = l]
            IN y.place = p /\ y.lease = l /\ y.relayed = x.relayed /\ y.flags = x.flags
         /\ LET y == [x EXCEPT !.place = p, !.queued = b, !.lease = l, !.relayed = c]
            IN y.place = p /\ y.lease = l /\ y.relayed = c /\ y.flags = x.flags
         /\ LET y == [x EXCEPT !.lease = l]
            IN y.place = x.place /\ y.lease = l /\ y.relayed = x.relayed /\ y.flags = x.flags
         /\ LET y == [x EXCEPT !.relayed = b]
            IN y.place = x.place /\ y.lease = x.lease /\ y.relayed = b /\ y.flags = x.flags
         /\ LET y == [x EXCEPT !.flags = f]
            IN y.place = x.place /\ y.lease = x.lease /\ y.relayed = x.relayed /\ y.flags = f
BY DEF Message

-----------------------------------------------------------------------------
(* The mail server's steps.                                                *)

LEMMA Initially == Init => IInv
<1> SUFFICES ASSUME Init PROVE IInv
  OBVIOUS
<1>1. \A m \in Messages : msg[m] \in Message /\ ~msg[m].relayed
  <2>1. Draft \in Message /\ ~Draft.relayed
    BY DEF Draft, Message, Folders
  <2>2. \A x \in Received : x \in Message /\ ~x.relayed
    BY DEF Received, Message
  <2> QED
    BY <2>1, <2>2 DEF Init
<1>2. \A r \in Reqs : work[r] = NoWork
  BY DEF Init
<1>3. TypeOK
  <2>1. msg \in [Messages -> Message]
    BY <1>1 DEF Init
  <2>2. work \in [Reqs -> Works]
    BY NoWorkType DEF Init
  <2> QED
    BY <2>1, <2>2, MailAssumption DEF Init, TypeOK
<1>4. Copied
  BY <1>2, NoWorkType DEF Copied
<1>5. Tracked
  BY <1>1 DEF Init, Tracked, Unsent
<1>6. Guarded
  BY DEF Init, Guarded
<1>7. Staying
  BY <1>2, NoWorkType DEF Staying
<1> QED
  BY <1>3, <1>4, <1>5, <1>6, <1>7 DEF IInv

LEMMA QueueKeeps == ASSUME IInv, NEW m \in Messages, Queue(m) PROVE IInv'
<1> DEFINE row == [msg[m] EXCEPT !.place = "Outbox", !.queued = TRUE]
<1> USE DEF IInv
<1>1. msg[m] \in Message /\ row \in Message
  <2>1. msg[m] \in Message
    BY DEF TypeOK
  <2> QED
    BY <2>1, RowTypes DEF Folders
<1>2. WrittenAs(m, row)
  BY <1>1, JobWritesKeep DEF Queue
<1>3. msg'[m] = row /\ row.place = "Outbox" /\ row.relayed = msg[m].relayed
  BY <1>1, <1>2 DEF WrittenAs, TypeOK, Message
<1>4. msg[m].place = "Drafts" /\ ~msg[m].relayed
  BY DEF Queue, isGenuineDraft
<1>5. late' = late /\ relays' = relays /\ job' = job
  BY DEF Queue
<1>6. m \notin late => Unsent(m)'
  BY <1>3, <1>4, <1>5 DEF Tracked, Unsent, Sent
<1>7. Tracked' /\ Guarded'
  BY <1>1, <1>2, <1>3, <1>5, <1>6, WrittenKeeps
<1>8. TypeOK'
  <2>1. counts' \in [begun : 0..MaxBegun, sends : 0..MaxSends, stops : 0..MaxStops]
    BY MailAssumption DEF Queue, TypeOK
  <2> QED
    BY <1>2, <2>1 DEF TypeOK, WrittenAs, Queue
<1> QED
  BY <1>2, <1>7, <1>8 DEF WrittenAs

LEMMA ClaimKeeps == ASSUME IInv, NEW m \in Messages, Claim(m) PROVE IInv'
<1> DEFINE row == [msg[m] EXCEPT !.lease = "live"]
<1> USE DEF IInv
<1>1. msg[m] \in Message /\ row \in Message
  <2>1. msg[m] \in Message
    BY DEF TypeOK
  <2> QED
    BY <2>1, RowTypes
<1>2. WrittenAs(m, row)
  BY <1>1, JobWritesKeep DEF Claim
<1>3. /\ msg'[m] = row /\ row.place = "Outbox" /\ ~row.relayed /\ row.lease = "live"
      /\ \A x \in Messages : x # m => msg'[x] = msg[x]
  BY <1>1, <1>2 DEF WrittenAs, TypeOK, Message, Claim
<1>4. late' = late /\ relays' = relays /\ job' = [job EXCEPT ![m] = "claimed"]
  BY DEF Claim
<1>5. job'[m] = "claimed" /\ \A x \in Messages : x # m => job'[x] = job[x]
  BY <1>4 DEF TypeOK
<1>6. m \notin late => Unsent(m)'
  BY <1>3, <1>4, <1>5 DEF Tracked, Unsent, Sent, Claim
<1>7. Tracked'
  <2>1. ASSUME NEW x \in Messages, x # m, x \notin late PROVE Unsent(x)' \/ Sent(x)'
    BY <1>3, <1>4, <1>5, <2>1 DEF Tracked, Unsent, Sent
  <2> QED
    BY <1>4, <1>6, <2>1 DEF Tracked
<1>8. Guarded'
  <2> SUFFICES ASSUME ~JobRaces, NEW x \in Messages, x \notin late, job'[x] = "claimed"
               PROVE  /\ msg'[x].place = "Outbox"
                      /\ \A r \in Reqs : work'[r].kind \in Removes /\ x \in Todo(work'[r])
                                            => work'[r].copy[x].lease = "live"
    BY <1>4 DEF Guarded, Todo
  <2>1. CASE x = m
    BY <1>2, <1>3, <2>1 DEF WrittenAs, Claim, Removes
  <2>2. CASE x # m
    BY <1>2, <1>3, <1>5, <2>2 DEF WrittenAs, Guarded, Removes
  <2> QED
    BY <2>1, <2>2
<1>9. TypeOK'
  BY <1>2, <1>4 DEF TypeOK, WrittenAs, Claim
<1> QED
  BY <1>2, <1>7, <1>8, <1>9 DEF WrittenAs

LEMMA RelayKeeps == ASSUME IInv, NEW m \in Messages, Relay(m) PROVE IInv'
<1> USE DEF IInv
<1>1. /\ job' = [job EXCEPT ![m] = "sent"] /\ relays' = [relays EXCEPT ![m] = @ + 1]
      /\ UNCHANGED <<msg, text, late, work, stale, counts>> /\ job[m] = "claimed"
  BY DEF Relay
<1>2. TypeOK'
  BY <1>1 DEF TypeOK
<1>3. /\ job'[m] = "sent" /\ relays'[m] = relays[m] + 1
      /\ \A x \in Messages : x # m => job'[x] = job[x] /\ relays'[x] = relays[x]
  BY <1>1 DEF TypeOK
<1>4. Tracked'
  BY <1>1, <1>3 DEF Tracked, Unsent, Sent
<1>5. Guarded'
  BY <1>1, <1>3 DEF Guarded, Todo
<1>6. Copied' /\ Staying'
  BY <1>1 DEF Copied, Staying, Todo, In
<1> QED
  BY <1>2, <1>4, <1>5, <1>6

LEMMA MarkKeeps == ASSUME IInv, NEW m \in Messages, Mark(m) PROVE IInv'
<1> DEFINE row == [msg[m] EXCEPT !.relayed = TRUE]
<1> USE DEF IInv
<1>1. /\ job' = [job EXCEPT ![m] = "idle"] /\ job[m] = "sent"
      /\ UNCHANGED <<text, relays, late, counts>>
  BY DEF Mark
<1>2. job'[m] = "idle" /\ \A x \in Messages : x # m => job'[x] = job[x]
  BY <1>1 DEF TypeOK
<1>3. CASE msg[m].place = "Outbox" /\ msg[m].lease # "none"
  <2>1. msg[m] \in Message /\ row \in Message
    <3>1. msg[m] \in Message
      BY DEF TypeOK
    <3> QED
      BY <3>1, RowTypes
  <2>2. WrittenAs(m, row)
    BY <1>3, <2>1, JobWritesKeep DEF Mark
  <2>3. msg'[m] = row /\ row.relayed /\ row.place = "Outbox" /\ row.lease = msg[m].lease
    BY <1>3, <2>1, <2>2 DEF WrittenAs, TypeOK, Message
  <2>4. m \notin late => Sent(m)'
    BY <1>1, <1>2, <2>3 DEF Tracked, Unsent, Sent
  <2>5. Tracked' /\ Guarded'
    BY <1>1, <1>2, <2>1, <2>2, <2>4, WrittenKeeps
  <2>6. TypeOK'
    BY <1>1, <2>2 DEF TypeOK, WrittenAs
  <2> QED
    BY <2>2, <2>5, <2>6 DEF WrittenAs
<1>4. CASE ~(msg[m].place = "Outbox" /\ msg[m].lease # "none")
  <2>1. UNCHANGED <<msg, work, stale>>
    BY <1>4 DEF Mark
  <2>2. TypeOK'
    BY <1>1, <2>1 DEF TypeOK
  <2>3. Tracked'
    BY <1>1, <1>2, <1>4, <2>1 DEF Tracked, Unsent, Sent
  <2>4. Guarded'
    BY <1>1, <1>2, <2>1 DEF Guarded, Todo
  <2>5. Copied' /\ Staying'
    BY <2>1 DEF Copied, Staying, Todo, In
  <2> QED
    BY <2>2, <2>3, <2>4, <2>5
<1> QED
  BY <1>3, <1>4
LEMMA FileKeeps == ASSUME IInv, NEW m \in Messages, File(m) PROVE IInv'
<1> DEFINE row == [msg[m] EXCEPT !.place = "Other", !.queued = FALSE,
                                 !.lease = "none", !.relayed = FALSE]
<1> USE DEF IInv
<1>1. msg[m] \in Message /\ row \in Message /\ row.place = "Other"
  <2>1. msg[m] \in Message
    BY DEF TypeOK
  <2>2. row \in Message
    BY <2>1 DEF Message, Folders
  <2>3. row.place = "Other"
    BY <2>1 DEF Message
  <2> QED
    BY <2>1, <2>2, <2>3
<1>2. WrittenAs(m, row)
  BY <1>1, JobWritesKeep DEF File
<1>3. msg'[m].place = "Other"
  BY <1>1, <1>2 DEF WrittenAs, TypeOK
<1>4. UNCHANGED <<text, relays, late, job, counts>> /\ job[m] = "idle" /\ msg[m].relayed
  BY DEF File
<1>5. m \notin late => Sent(m)'
  BY <1>3, <1>4 DEF Tracked, Unsent, Sent
<1>6. Tracked' /\ Guarded'
  BY <1>1, <1>2, <1>4, <1>5, WrittenKeeps
<1>7. TypeOK'
  BY <1>2, <1>4 DEF TypeOK, WrittenAs
<1> QED
  BY <1>2, <1>6, <1>7 DEF WrittenAs

LEMMA StopKeeps == ASSUME IInv, NEW m \in Messages, Stop(m) PROVE IInv'
<1> USE DEF IInv
<1>1. job' = [job EXCEPT ![m] = "idle"] /\ UNCHANGED <<msg, text, relays, late, work, stale>>
  BY DEF Stop
<1>2. job'[m] = "idle" /\ \A x \in Messages : x # m => job'[x] = job[x]
  BY <1>1 DEF TypeOK
<1>3. TypeOK'
  <2>1. counts' \in [begun : 0..MaxBegun, sends : 0..MaxSends, stops : 0..MaxStops]
    BY MailAssumption DEF Stop, TypeOK
  <2> QED
    BY <1>1, <2>1 DEF TypeOK
<1>4. Tracked'
  BY <1>1, <1>2 DEF Tracked, Unsent, Sent
<1>5. Guarded'
  BY <1>1, <1>2 DEF Guarded, Todo
<1>6. Copied' /\ Staying'
  BY <1>1 DEF Copied, Staying, Todo, In
<1> QED
  BY <1>3, <1>4, <1>5, <1>6

\* In the row and in the copies of it, nothing but the lease changes.
LEMMA LapseKeeps == ASSUME IInv, NEW m \in Messages, Lapse(m) PROVE IInv'
<1> USE DEF IInv
<1>1. /\ msg' = [msg EXCEPT ![m] = lapsed(msg[m])]
      /\ work' = [r \in Reqs |-> IF m \in Todo(work[r])
                                 THEN [work[r] EXCEPT !.copy[m] = lapsed(work[r].copy[m])]
                                 ELSE work[r]]
      /\ late' = IF job[m] # "idle" \/ (relays[m] > 0 /\ ~msg[m].relayed)
                 THEN late \cup {m} ELSE late
      /\ UNCHANGED <<text, relays, job, stale>> /\ msg[m].lease = "live"
  BY DEF Lapse
<1>2. \A row \in Message : /\ lapsed(row) \in Message /\ lapsed(row).place = row.place
                           /\ lapsed(row).relayed = row.relayed
  <2> SUFFICES ASSUME NEW row \in Message
               PROVE  /\ lapsed(row) \in Message /\ lapsed(row).place = row.place
                      /\ lapsed(row).relayed = row.relayed
    OBVIOUS
  <2>1. CASE hasLiveSendLease(row)
    BY <2>1 DEF lapsed, Message
  <2>2. CASE ~hasLiveSendLease(row)
    BY <2>2 DEF lapsed
  <2> QED
    BY <2>1, <2>2
<1>3. /\ msg[m] \in Message /\ msg'[m] = lapsed(msg[m])
      /\ msg' \in [Messages -> Message]
      /\ \A x \in Messages : x # m => msg'[x] = msg[x]
      /\ \A x \in Messages : msg'[x].place = msg[x].place /\ msg'[x].relayed = msg[x].relayed
  BY <1>1, <1>2 DEF TypeOK
<1>4. ASSUME NEW r \in Reqs
      PROVE  /\ work'[r] \in Works
             /\ work'[r].kind = work[r].kind /\ work'[r].folder = work[r].folder
             /\ work'[r].stayed = work[r].stayed /\ work'[r].status = work[r].status
             /\ DOMAIN work'[r].copy = DOMAIN work[r].copy
             /\ \A x \in DOMAIN work[r].copy :
                   work'[r].copy[x] = IF x = m THEN lapsed(work[r].copy[m]) ELSE work[r].copy[x]
             /\ \A x \in DOMAIN work[r].copy : work[r].copy[x] \in Message
  <2>1. work[r] \in Works /\ work[r].copy \in RowCopies
    BY DEF TypeOK, Works
  <2>2. /\ DOMAIN work[r].copy \in SUBSET Messages
        /\ work[r].copy \in [DOMAIN work[r].copy -> Message]
    BY <2>1, CopyRows
  <2>3. CASE m \in DOMAIN work[r].copy
    <3> DEFINE copy == [work[r].copy EXCEPT ![m] = lapsed(work[r].copy[m])]
    <3>1. copy \in [DOMAIN work[r].copy -> Message]
      BY <1>2, <2>2, <2>3
    <3>2. copy \in RowCopies
      BY <2>2, <3>1, CopyType
    <3>3. work'[r] = [work[r] EXCEPT !.copy = copy]
      BY <1>1, <2>3 DEF Todo
    <3>4. /\ work'[r].copy = copy /\ work'[r] \in Works
          /\ work'[r].kind = work[r].kind /\ work'[r].folder = work[r].folder
          /\ work'[r].stayed = work[r].stayed /\ work'[r].status = work[r].status
      BY <2>1, <3>2, <3>3 DEF Works
    <3> QED
      BY <2>2, <2>3, <3>4
  <2>4. CASE m \notin DOMAIN work[r].copy
    <3>1. work'[r] = work[r]
      BY <1>1, <2>4 DEF Todo
    <3> QED
      BY <2>1, <2>2, <2>4, <3>1
  <2> QED
    BY <2>3, <2>4
<1>5. TypeOK'
  <2>1. counts' \in [begun : 0..MaxBegun, sends : 0..MaxSends, stops : 0..MaxStops]
    BY MailAssumption DEF Lapse, TypeOK
  <2>2. work' \in [Reqs -> Works]
    BY <1>1, <1>4
  <2> QED
    BY <1>1, <1>3, <2>1, <2>2 DEF TypeOK
<1>6. Copied'
  <2> SUFFICES ASSUME NEW r \in Reqs, NEW x \in Messages, x \in DOMAIN work'[r].copy
               PROVE  /\ work'[r].copy[x].place # "gone"
                      /\ x \notin stale[r] => work'[r].copy[x] = msg'[x]
    BY <1>1 DEF Copied, Todo
  <2>1. /\ work[r].copy[x].place # "gone"
        /\ x \notin stale[r] => work[r].copy[x] = msg[x]
    BY <1>4 DEF Copied, Todo
  <2> QED
    BY <1>2, <1>3, <1>4, <2>1
<1>7. Tracked'
  <2> SUFFICES ASSUME NEW x \in Messages, x \notin late' PROVE Unsent(x)' \/ Sent(x)'
    BY DEF Tracked
  <2>1. x \notin late /\ (Unsent(x) \/ Sent(x))
    BY <1>1 DEF Tracked
  <2>2. CASE x # m
    BY <1>1, <1>3, <2>1, <2>2 DEF Unsent, Sent
  <2>3. CASE x = m
    BY <1>1, <1>3, <2>1, <2>3 DEF Unsent, Sent
  <2> QED
    BY <2>2, <2>3
<1>8. Guarded'
  <2> SUFFICES ASSUME ~JobRaces, NEW x \in Messages, x \notin late', job[x] = "claimed"
               PROVE  /\ msg'[x].place = "Outbox"
                      /\ \A r \in Reqs : work'[r].kind \in Removes /\ x \in DOMAIN work'[r].copy
                                            => work'[r].copy[x].lease = "live"
    BY <1>1 DEF Guarded, Todo
  <2>1. x # m /\ x \notin late
    BY <1>1
  <2> QED
    BY <1>3, <1>4, <2>1 DEF Guarded, Todo
<1>9. Staying'
  <2> SUFFICES ASSUME NEW r \in Reqs, work'[r].kind = "empty"
               PROVE  /\ work'[r].status = "" =>
                            work'[r].stayed \subseteq {x \in Messages : msg'[x].place = work'[r].folder}
                      /\ work'[r].status = "ok" => work'[r].stayed = {}
    BY DEF Staying, In
  <2>1. /\ work'[r].kind = work[r].kind /\ work'[r].folder = work[r].folder
        /\ work'[r].stayed = work[r].stayed /\ work'[r].status = work[r].status
    BY <1>4
  <2>2. \A x \in Messages : msg'[x].place = msg[x].place
    BY <1>3
  <2> QED
    BY <2>1, <2>2 DEF Staying, In
<1> QED
  BY <1>5, <1>6, <1>7, <1>8, <1>9
-----------------------------------------------------------------------------
(* The commands' steps.                                                    *)

\* A command may write `row` for m, wherever the message is on its way.
Fits(m, row) ==
    m \notin late =>
       /\ row.relayed = msg[m].relayed
       /\ \/ row.place = "gone"
          \/ row.place = msg[m].place /\ row.lease = msg[m].lease
          \/ job[m] = "idle" /\ row.place \notin {"Drafts", "Outbox"}
          \/ job[m] = "idle" /\ row.place # "Outbox" /\ relays[m] = 0
       /\ ~JobRaces /\ job[m] = "claimed" => row.place = "Outbox"

\* No message loses a flag.
FlagsGrow == \A x \in Messages : msg[x].flags \subseteq msg'[x].flags

LEMMA GrownBy ==
  ASSUME msg \in [Messages -> Message], NEW m \in Messages, NEW row,
         msg[m].flags \subseteq row.flags, msg' = [msg EXCEPT ![m] = row]
  PROVE  FlagsGrow
BY DEF FlagsGrow

LEMMA CommandWrites ==
  ASSUME IInv, NEW r \in Reqs, NEW m \in Messages, m \in Todo(work[r]), NEW row \in Message,
         Writes(r, m, row, Handled(r, m, TRUE)), Fits(m, row),
         UNCHANGED <<relays, late, job, counts>>, text' \in [Messages -> 0..MaxEdits]
  PROVE  IInv' /\ msg' = [msg EXCEPT ![m] = row]
<1> USE DEF IInv
<1>1. WrittenAs(m, row)
  BY WritesKeep
<1>2. msg'[m] = row
  BY <1>1 DEF WrittenAs, TypeOK
<1>3. ASSUME m \notin late PROVE Unsent(m)' \/ Sent(m)'
  <2>1. CASE Unsent(m)
    BY <1>2, <1>3, <2>1 DEF Fits, Unsent
  <2>2. CASE Sent(m)
    BY <1>2, <1>3, <2>2 DEF Fits, Sent
  <2> QED
    BY <1>3, <2>1, <2>2 DEF Tracked
<1>4. ~JobRaces /\ job'[m] = "claimed" /\ m \notin late => row.place = "Outbox"
  BY DEF Fits
<1>5. Tracked' /\ Guarded'
  BY <1>1, <1>3, <1>4, WrittenKeeps
<1>6. TypeOK'
  BY <1>1 DEF TypeOK, WrittenAs
<1> QED
  BY <1>1, <1>5, <1>6 DEF WrittenAs

\* What a request is about to deal with was not gone, and is the row if it is fresh.
LEMMA CopyIsRow ==
  ASSUME IInv, NEW r \in Reqs, NEW m \in Messages, m \in Todo(work[r])
  PROVE  /\ msg[m] \in Message
         /\ Fresh(r, m) => work[r].copy[m] = msg[m] /\ msg[m].place # "gone"
BY DEF IInv, TypeOK, Copied, Fresh

LEMMA RelocateKeeps ==
  ASSUME IInv, NEW r \in Reqs, NEW m \in Messages, Relocate(r, m)
  PROVE  IInv' /\ FlagsGrow
<1> DEFINE to  == work[r].folder
           row == moved(msg[m], work[r].copy[m], to)
<1>1. /\ m \in Todo(work[r]) /\ work[r].copy[m] = msg[m] /\ msg[m].place # "gone"
      /\ msg[m] \in Message
  BY CopyIsRow DEF Relocate, IsAt
<1>2. to \in Folders
  BY DEF IInv, TypeOK, Works
<1>3. planMessageMove(msg[m], to) /\ UNCHANGED <<text, relays, late, job, counts>>
  BY <1>1 DEF Relocate
<1>4. /\ row \in Message /\ row.place = to /\ row.relayed = msg[m].relayed
      /\ row.flags = msg[m].flags
  <2>1. CASE msg[m].place = "Outbox"
    BY <1>1, <1>2, <2>1 DEF moved, Message
  <2>2. CASE msg[m].place # "Outbox"
    BY <1>1, <1>2, <2>2 DEF moved, Message
  <2> QED
    BY <2>1, <2>2
<1>5. Fits(m, row)
  <2> SUFFICES ASSUME m \notin late
               PROVE  /\ job[m] = "idle" /\ row.place # "Outbox"
                      /\ row.place # "Drafts" \/ relays[m] = 0
    BY <1>4 DEF Fits
  <2>1. row.place # "Outbox" /\ msg[m].lease # "live"
    BY <1>3, <1>4 DEF planMessageMove, hasLiveSendLease
  <2>2. CASE Unsent(m)
    BY <1>1, <2>1, <2>2 DEF Unsent, IInv, TypeOK
  <2>3. CASE Sent(m)
    <3>1. job[m] = "idle"
      BY <1>1, <2>1, <2>3 DEF Sent, IInv, TypeOK
    <3>2. row.place # "Drafts"
      BY <1>3, <1>4, <2>1, <2>3 DEF Sent, planMessageMove, CancelsSend
    <3> QED
      BY <2>1, <3>1, <3>2
  <2> QED
    BY <2>2, <2>3 DEF IInv, Tracked
<1>6. Writes(r, m, row, Handled(r, m, TRUE))
  BY DEF Relocate
<1>7. text' \in [Messages -> 0..MaxEdits]
  BY <1>3 DEF IInv, TypeOK
<1>8. IInv' /\ msg' = [msg EXCEPT ![m] = row]
  BY <1>1, <1>3, <1>4, <1>5, <1>6, <1>7, CommandWrites
<1> QED
  BY <1>4, <1>8, GrownBy DEF IInv, TypeOK

LEMMA RemoveKeeps ==
  ASSUME IInv, NEW r \in Reqs, NEW m \in Messages, Remove(r, m)
  PROVE  IInv' /\ FlagsGrow
<1> DEFINE row == [msg[m] EXCEPT !.place = "gone"]
<1>1. m \in Todo(work[r]) /\ msg[m] \in Message /\ work[r].kind \in Removes
  BY CopyIsRow DEF Remove, IsAt
<1>2. work[r].copy[m].lease # "live" /\ UNCHANGED <<text, relays, late, job, counts>>
  BY DEF Remove, hasLiveSendLease
<1>3. /\ row \in Message /\ row.place = "gone" /\ row.relayed = msg[m].relayed
      /\ row.flags = msg[m].flags
  BY <1>1 DEF Message
<1>4. Fits(m, row)
  <2>1. ~JobRaces /\ m \notin late => job[m] # "claimed"
    BY <1>1, <1>2 DEF IInv, Guarded
  <2> QED
    BY <1>3, <2>1 DEF Fits
<1>5. Writes(r, m, row, Handled(r, m, TRUE))
  BY DEF Remove
<1>6. text' \in [Messages -> 0..MaxEdits]
  BY <1>2 DEF IInv, TypeOK
<1> HIDE DEF row
<1>7. IInv' /\ msg' = [msg EXCEPT ![m] = row]
  BY <1>1, <1>2, <1>3, <1>4, <1>5, <1>6, CommandWrites
<1> QED
  BY <1>3, <1>7, GrownBy DEF IInv, TypeOK

LEMMA FlagKeeps ==
  ASSUME IInv, NEW r \in Reqs, NEW m \in Messages, Flag(r, m)
  PROVE  IInv' /\ FlagsGrow
<1> DEFINE flags == work[r].copy[m].flags \cup
                       {IF work[r].kind = "read" THEN "read" ELSE "answered"}
           row == [msg[m] EXCEPT !.flags = flags]
<1>1. /\ m \in Todo(work[r]) /\ work[r].copy[m] = msg[m] /\ msg[m] \in Message
      /\ UNCHANGED <<text, relays, late, job, counts>>
  BY CopyIsRow DEF Flag, IsAt
<1>2. msg[m].flags \subseteq flags /\ flags \subseteq {"read", "answered"}
  BY <1>1 DEF Message
<1>3. /\ row \in Message /\ row.place = msg[m].place /\ row.relayed = msg[m].relayed
      /\ row.lease = msg[m].lease /\ row.flags = flags
  BY <1>1, <1>2 DEF Message
<1>4. Fits(m, row)
  BY <1>1, <1>3 DEF Fits, IInv, Guarded
<1>5. Writes(r, m, row, Handled(r, m, TRUE))
  BY DEF Flag
<1>6. text' \in [Messages -> 0..MaxEdits]
  BY <1>1 DEF IInv, TypeOK
<1> HIDE DEF row
<1>7. IInv' /\ msg' = [msg EXCEPT ![m] = row]
  BY <1>1, <1>3, <1>4, <1>5, <1>6, CommandWrites
<1> QED
  BY <1>2, <1>3, <1>7, GrownBy DEF IInv, TypeOK

LEMMA RewriteKeeps ==
  ASSUME IInv, NEW r \in Reqs, NEW m \in Messages, Rewrite(r, m)
  PROVE  IInv' /\ msg' = msg
<1>1. /\ m \in Todo(work[r]) /\ msg[m] \in Message
      /\ UNCHANGED <<relays, late, job, counts>>
  BY CopyIsRow DEF Rewrite, IsAt
<1>2. text' \in [Messages -> 0..MaxEdits]
  BY MailAssumption DEF Rewrite, IInv, TypeOK
<1>3. Fits(m, msg[m])
  BY DEF Fits, IInv, Guarded
<1>4. Writes(r, m, msg[m], Handled(r, m, TRUE))
  BY DEF Rewrite
<1>5. IInv' /\ msg' = [msg EXCEPT ![m] = msg[m]]
  BY <1>1, <1>2, <1>3, <1>4, CommandWrites
<1> QED
  BY <1>5 DEF IInv, TypeOK

\* A request goes on without a write of a row.
LEMMA CommandGoes ==
  ASSUME IInv, NEW r \in Reqs, NEW w \in Works, work' = [work EXCEPT ![r] = w],
         stale' \in [Reqs -> SUBSET Messages], UNCHANGED <<msg, text, relays, late, job>>,
         counts' \in [begun : 0..MaxBegun, sends : 0..MaxSends, stops : 0..MaxStops],
         Takes(w, r)
  PROVE  IInv'
<1>1. work' \in [Reqs -> Works] /\ Copied' /\ Tracked' /\ Guarded' /\ Staying'
  BY GoesKeeps DEF IInv
<1>2. TypeOK'
  BY <1>1 DEF IInv, TypeOK
<1> QED
  BY <1>1, <1>2 DEF IInv

LEMMA RefuseKeeps ==
  ASSUME IInv, NEW r \in Reqs, NEW m \in Messages, Refuse(r, m)
  PROVE  IInv' /\ msg' = msg
<1> DEFINE w == Handled(r, m, FALSE)
<1>1. /\ m \in Todo(work[r]) /\ work' = [work EXCEPT ![r] = w]
      /\ UNCHANGED <<msg, text, stale, relays, late, job, counts>>
  BY DEF Refuse, IsAt, Goes
<1>2. w \in Works /\ Narrows(w, r, m)
  BY <1>1, HandledNarrows DEF IInv
<1>3. Takes(w, r)
  <2>1. w.kind = "empty" => /\ w.status = "" => w.stayed \subseteq In(w.folder)
                            /\ w.status = "ok" => w.stayed = {}
    BY <1>2 DEF Narrows, IInv, Staying
  <2>2. \A x \in Todo(w) : /\ x \in Todo(work[r]) /\ w.copy[x] = work[r].copy[x]
                           /\ w.kind = work[r].kind /\ stale'[r] = stale[r]
    BY <1>1, <1>2 DEF Narrows
  <2> QED
    BY <1>1, <2>1, <2>2 DEF Takes
<1> QED
  BY <1>1, <1>2, <1>3, CommandGoes DEF IInv, TypeOK
LEMMA BeginKeeps ==
  ASSUME IInv, NEW r \in Reqs, NEW kind \in Kinds, NEW folder \in Folders,
         NEW ms \in SUBSET Messages, Begin(r, kind, folder, ms)
  PROVE  IInv' /\ msg' = msg
<1> DEFINE pc == IF kind = "empty" THEN "read" ELSE "work"
           stayed == IF kind = "empty" THEN In(folder) ELSE {}
           w == [NoWork EXCEPT !.kind = kind, !.folder = folder, !.copy = Copies(ms),
                               !.pc = pc, !.stayed = stayed]
<1>1. /\ work' = [work EXCEPT ![r] = w] /\ stale' = [stale EXCEPT ![r] = {}]
      /\ UNCHANGED <<msg, text, relays, late, job>> /\ ms \cap In("gone") = {}
  BY DEF Begin
<1>2. Copies(ms) \in RowCopies /\ DOMAIN Copies(ms) = ms
      /\ \A x \in ms : Copies(ms)[x] = msg[x]
  <2>1. Copies(ms) \in [ms -> Message]
    BY DEF Copies, IInv, TypeOK
  <2> QED
    BY <2>1, CopyType DEF Copies
<1>3. /\ w \in Works /\ w.copy = Copies(ms) /\ w.kind = kind /\ w.folder = folder
      /\ w.stayed = stayed
  <2>1. pc \in {"done", "read", "work"} /\ stayed \in SUBSET Messages
    BY DEF In
  <2> QED
    BY <1>2, <2>1, NoWorkType DEF Works
<1>4. w.status = ""
  BY DEF NoWork
<1>5. Takes(w, r)
  <2>1. \A q \in Reqs : q # r => stale'[q] = stale[q]
    BY <1>1 DEF IInv, TypeOK
  <2>2. \A x \in Todo(w) : w.copy[x] = msg[x] /\ msg[x].place # "gone"
    BY <1>1, <1>2, <1>3 DEF Todo, In
  <2>3. w.kind = "empty" => /\ w.status = "" => w.stayed \subseteq In(w.folder)
                            /\ w.status = "ok" => w.stayed = {}
    BY <1>3, <1>4
  <2> QED
    BY <2>1, <2>2, <2>3 DEF Takes
<1>6. stale' \in [Reqs -> SUBSET Messages]
  BY <1>1 DEF IInv, TypeOK
<1>7. counts' \in [begun : 0..MaxBegun, sends : 0..MaxSends, stops : 0..MaxStops]
  BY MailAssumption DEF Begin, IInv, TypeOK
<1>8. IInv'
  BY <1>1, <1>3, <1>5, <1>6, <1>7, CommandGoes
<1> QED
  BY <1>1, <1>8

\* An answer of EmptyFolderContents: "ok" only after an empty batch, which was all there
\* was in the folder.
LEMMA Answered ==
  ASSUME IInv, NEW r \in Reqs, NEW ms \in SUBSET Messages, work[r].stayed \in SUBSET Messages,
         ms = {} /\ work[r].kind = "empty" => work[r].stayed = {},
         \A q \in Reqs : q # r => stale'[q] = stale[q]
  PROVE  Answer(work[r], ms) \in Works /\ Takes(Answer(work[r], ms), r)
<1> DEFINE w == Answer(work[r], ms)
<1>1. work[r].kind \in Kinds \cup {"none"}
  BY DEF IInv, TypeOK, Works
<1>2. CASE EmptyStatus(work[r], ms) = "ok"
  <2>1. w = [NoWork EXCEPT !.kind = work[r].kind, !.status = "ok", !.stayed = work[r].stayed]
    BY <1>2 DEF Answer
  <2>2. /\ w \in Works /\ Todo(w) = {} /\ w.kind = work[r].kind
        /\ w.stayed = work[r].stayed /\ w.status = "ok"
    BY <1>1, <2>1, NoWorkType DEF Works, Todo
  <2>3. ms = {}
    BY <1>2 DEF EmptyStatus
  <2> QED
    BY <2>2, <2>3 DEF Takes
<1>3. CASE EmptyStatus(work[r], ms) # "ok"
  <2>1. w = NoWork
    BY <1>3 DEF Answer
  <2> QED
    BY <2>1, NoWorkType DEF Takes
<1> QED
  BY <1>2, <1>3

LEMMA ReadBatchKeeps ==
  ASSUME IInv, NEW r \in Reqs, NEW ms \in SUBSET Messages, ReadBatch(r, ms)
  PROVE  IInv' /\ msg' = msg
<1> DEFINE todo == ms \ work[r].failed
           w == [work[r] EXCEPT !.pc = "work", !.copy = Copies(todo), !.batches = @ + 1]
<1>1. /\ work[r].pc = "read" /\ ms \subseteq In(work[r].folder) /\ Cardinality(ms) <= BatchSize
      /\ Cardinality(ms) = BatchSize \/ ms = In(work[r].folder)
      /\ work[r].batches < MaxBatches /\ stale' = [stale EXCEPT ![r] = {}]
      /\ UNCHANGED <<msg, text, relays, late, job, counts>>
  BY DEF ReadBatch
<1>2. work[r] \in Works /\ work[r].stayed \in SUBSET Messages
  BY DEF IInv, TypeOK, Works
<1>3. stale' \in [Reqs -> SUBSET Messages] /\ \A q \in Reqs : q # r => stale'[q] = stale[q]
  BY <1>1 DEF IInv, TypeOK
<1>4. counts' \in [begun : 0..MaxBegun, sends : 0..MaxSends, stops : 0..MaxStops]
  BY <1>1 DEF IInv, TypeOK
<1>5. CASE todo = {}
  <2>1. work' = [work EXCEPT ![r] = Answer(work[r], ms)]
    BY <1>5 DEF ReadBatch
  <2>2. ms = {} => In(work[r].folder) = {}
    <3>1. ms = {} => Cardinality(ms) = 0
      BY FS_EmptySet
    <3> QED
      BY <1>1, <3>1, MailAssumption
  <2>3. ms = {} /\ work[r].kind = "empty" => work[r].stayed = {}
    <3>1. work[r].status \in {"", "ok"}
      BY <1>2 DEF Works
    <3> QED
      BY <2>2, <3>1 DEF IInv, Staying
  <2>4. Answer(work[r], ms) \in Works /\ Takes(Answer(work[r], ms), r)
    BY <1>2, <1>3, <2>3, Answered
  <2> QED
    BY <1>1, <1>3, <1>4, <2>1, <2>4, CommandGoes
<1>6. CASE todo # {}
  <2>1. work' = [work EXCEPT ![r] = w]
    BY <1>6 DEF ReadBatch, IInv, TypeOK
  <2>2. Copies(todo) \in RowCopies /\ DOMAIN Copies(todo) = todo
        /\ \A x \in todo : Copies(todo)[x] = msg[x]
    <3>1. Copies(todo) \in [todo -> Message]
      BY DEF Copies, IInv, TypeOK
    <3> QED
      BY <3>1, CopyType DEF Copies
  <2>3. /\ w \in Works /\ w.copy = Copies(todo) /\ w.kind = work[r].kind
        /\ w.folder = work[r].folder /\ w.stayed = work[r].stayed /\ w.status = work[r].status
    <3>1. work[r].batches + 1 \in 0..MaxBatches
      <4>1. work[r].batches \in 0..MaxBatches
        BY <1>2 DEF Works
      <4>2. work[r].batches < MaxBatches
        BY <1>1
      <4> QED
        BY <4>1, <4>2, MailAssumption
    <3> QED
      BY <1>2, <2>2, <3>1 DEF Works
  <2>4. work[r].folder # "gone"
    BY <1>2 DEF Works, Folders
  <2>5. \A x \in Todo(w) : w.copy[x] = msg[x] /\ msg[x].place # "gone"
    BY <1>1, <2>2, <2>3, <2>4 DEF Todo, In
  <2>6. w.kind = "empty" => /\ w.status = "" => w.stayed \subseteq In(w.folder)
                            /\ w.status = "ok" => w.stayed = {}
    BY <2>3 DEF IInv, Staying
  <2>7. Takes(w, r)
    BY <1>3, <2>5, <2>6 DEF Takes
  <2> QED
    BY <1>1, <1>3, <1>4, <2>1, <2>3, <2>7, CommandGoes
<1> QED
  BY <1>5, <1>6

LEMMA BatchLimitKeeps ==
  ASSUME IInv, NEW r \in Reqs, BatchLimit(r)
  PROVE  IInv' /\ msg' = msg
<1>1. /\ work' = [work EXCEPT ![r] = Answer(work[r], Messages)]
      /\ UNCHANGED <<msg, text, relays, late, job, counts, stale>>
  BY DEF BatchLimit, Goes
<1>2. work[r].stayed \in SUBSET Messages
  BY DEF IInv, TypeOK, Works
<1>3. Messages = {} => work[r].stayed = {}
  BY <1>2
<1>4. \A q \in Reqs : q # r => stale'[q] = stale[q]
  BY <1>1
<1>5. Answer(work[r], Messages) \in Works /\ Takes(Answer(work[r], Messages), r)
  BY <1>2, <1>3, <1>4, Answered
<1>6. /\ stale' \in [Reqs -> SUBSET Messages]
      /\ counts' \in [begun : 0..MaxBegun, sends : 0..MaxSends, stops : 0..MaxStops]
  BY <1>1 DEF IInv, TypeOK
<1> QED
  BY <1>1, <1>5, <1>6, CommandGoes

LEMMA NextBatchKeeps ==
  ASSUME IInv, NEW r \in Reqs, NextBatch(r)
  PROVE  IInv' /\ msg' = msg
<1> DEFINE w == [work[r] EXCEPT !.pc = "read"]
<1>1. /\ work' = [work EXCEPT ![r] = w]
      /\ UNCHANGED <<msg, text, relays, late, job, counts, stale>>
  BY DEF NextBatch, Goes
<1>2. /\ w \in Works /\ w.copy = work[r].copy /\ w.kind = work[r].kind
      /\ w.folder = work[r].folder /\ w.stayed = work[r].stayed /\ w.status = work[r].status
  <2>1. work[r] \in Works
    BY DEF IInv, TypeOK
  <2> QED
    BY <2>1 DEF Works
<1>3. Takes(w, r)
  <2>1. w.kind = "empty" => /\ w.status = "" => w.stayed \subseteq In(w.folder)
                            /\ w.status = "ok" => w.stayed = {}
    BY <1>2 DEF IInv, Staying
  <2> QED
    BY <1>1, <1>2, <2>1 DEF Takes, Todo
<1>4. /\ stale' \in [Reqs -> SUBSET Messages]
      /\ counts' \in [begun : 0..MaxBegun, sends : 0..MaxSends, stops : 0..MaxStops]
  BY <1>1 DEF IInv, TypeOK
<1> QED
  BY <1>1, <1>2, <1>3, <1>4, CommandGoes

-----------------------------------------------------------------------------
(* The specification.                                                      *)

LEMMA JobKeeps == ASSUME IInv, NEW m \in Messages, Job(m) PROVE IInv'
BY QueueKeeps, ClaimKeeps, RelayKeeps, MarkKeeps, FileKeeps, StopKeeps, LapseKeeps DEF Job

LEMMA CommandKeeps ==
  ASSUME IInv, NEW r \in Reqs, Command(r)
  PROVE  IInv' /\ FlagsGrow
<1>1. msg' = msg => FlagsGrow
  BY DEF FlagsGrow
<1>2. CASE \E kind \in Kinds, folder \in Folders, ms \in SUBSET Messages :
              Begin(r, kind, folder, ms)
  BY <1>1, <1>2, BeginKeeps
<1>3. CASE \E m \in Messages : Act(r, m)
  BY <1>1, <1>3, RefuseKeeps, RelocateKeeps, RemoveKeeps, FlagKeeps, RewriteKeeps DEF Act
<1>4. CASE \E ms \in SUBSET Messages : ReadBatch(r, ms)
  BY <1>1, <1>4, ReadBatchKeeps
<1>5. CASE BatchLimit(r)
  BY <1>1, <1>5, BatchLimitKeeps
<1>6. CASE NextBatch(r)
  BY <1>1, <1>6, NextBatchKeeps
<1> QED
  BY <1>2, <1>3, <1>4, <1>5, <1>6 DEF Command

LEMMA Inductive == IInv /\ [Next]_vars => IInv'
<1> SUFFICES ASSUME IInv, [Next]_vars PROVE IInv'
  OBVIOUS
<1>1. CASE \E m \in Messages : Job(m)
  BY <1>1, JobKeeps
<1>2. CASE \E r \in Reqs : Command(r)
  BY <1>2, CommandKeeps
<1>3. CASE UNCHANGED vars
  <2>1. UNCHANGED <<msg, text, relays, late, job, work, stale, counts>>
    BY <1>3 DEF vars
  <2>2. TypeOK'
    BY <2>1 DEF IInv, TypeOK
  <2>3. Copied' /\ Staying'
    BY <2>1 DEF IInv, Copied, Staying, Todo, In
  <2>4. Tracked' /\ Guarded'
    BY <2>1 DEF IInv, Tracked, Unsent, Sent, Guarded, Todo
  <2> QED
    BY <2>2, <2>3, <2>4 DEF IInv
<1> QED
  BY <1>1, <1>2, <1>3 DEF Next

\* Every state of the commands and of the scheduled-send job has the types that the
\* rows and the requests' records are declared with.
THEOREM TypeCorrect == Spec => []TypeOK
<1>1. IInv => TypeOK
  BY DEF IInv
<1> QED
  BY Initially, Inductive, <1>1, PTL DEF Spec

\* The transport gets a message at most once, unless the job overran its lease on it,
\* whatever moves, deletes and changes devices make meanwhile (planMessageMove,
\* hasLiveSendLease, isGenuineDraft).
THEOREM SentAtMostOnce == Spec => []SentOnce
<1>1. IInv => SentOnce
  BY DEF IInv, TypeOK, Tracked, Unsent, Sent, SentOnce
<1> QED
  BY Initially, Inductive, <1>1, PTL DEF Spec

\* EmptyFolderContents reports success only when everything that was in the folder at
\* its start has left it (emptyFolderContents).
THEOREM EmptyWasEmptied == Spec => []EmptyIsEmpty
<1>1. IInv => EmptyIsEmpty
  BY DEF IInv, Staying, EmptyIsEmpty
<1> QED
  BY Initially, Inductive, <1>1, PTL DEF Spec

\* The job leaves the texts alone, and counts what it relays.
LEMMA JobHistory ==
  ASSUME NEW m \in Messages, Job(m)
  PROVE  /\ text' = text /\ late \subseteq late'
         /\ relays' = relays \/ (job[m] = "claimed" /\ relays' = [relays EXCEPT ![m] = @ + 1])
<1>1. CASE Queue(m)
  BY <1>1 DEF Queue
<1>2. CASE Claim(m)
  BY <1>2 DEF Claim
<1>3. CASE Relay(m)
  BY <1>3 DEF Relay
<1>4. CASE Mark(m)
  BY <1>4 DEF Mark
<1>5. CASE File(m)
  BY <1>5 DEF File
<1>6. CASE Stop(m)
  BY <1>6 DEF Stop
<1>7. CASE Lapse(m)
  BY <1>7 DEF Lapse
<1> QED
  BY <1>1, <1>2, <1>3, <1>4, <1>5, <1>6, <1>7 DEF Job

\* A command relays nothing, and only Rewrite changes a text.
LEMMA CommandHistory ==
  ASSUME NEW r \in Reqs, Command(r)
  PROVE  /\ UNCHANGED <<relays, late>>
         /\ text' = text \/ \E m \in Messages : Rewrite(r, m)
<1>1. CASE \E kind \in Kinds, folder \in Folders, ms \in SUBSET Messages :
              Begin(r, kind, folder, ms)
  BY <1>1 DEF Begin
<1>2. CASE \E m \in Messages : Act(r, m)
  BY <1>2 DEF Act, Refuse, Relocate, Remove, Flag, Rewrite
<1>3. CASE \E ms \in SUBSET Messages : ReadBatch(r, ms)
  BY <1>3 DEF ReadBatch
<1>4. CASE BatchLimit(r) \/ NextBatch(r)
  BY <1>4 DEF BatchLimit, NextBatch
<1> QED
  BY <1>1, <1>2, <1>3, <1>4 DEF Command

\* What a step adds to the history of message x.
LEMMA StepHistory ==
  ASSUME IInv, Next, NEW x \in Messages
  PROVE  /\ relays'[x] # relays[x] => job[x] = "claimed"
         /\ relays[x] > 0 => relays'[x] > 0
         /\ x \in late => x \in late'
         /\ text'[x] # text[x] =>
               \E r \in Reqs : /\ Fresh(r, x) /\ x \in Todo(work[r])
                               /\ isGenuineDraft(work[r].copy[x])
<1>1. relays \in [Messages -> Nat] /\ text \in [Messages -> 0..MaxEdits]
  BY DEF IInv, TypeOK
<1>2. CASE \E m \in Messages : Job(m)
  BY <1>1, <1>2, JobHistory
<1>3. CASE \E r \in Reqs : Command(r)
  <2>1. PICK r \in Reqs : Command(r)
    BY <1>3
  <2>2. ASSUME NEW m \in Messages, Rewrite(r, m), text'[x] # text[x]
        PROVE  Fresh(r, x) /\ x \in Todo(work[r]) /\ isGenuineDraft(work[r].copy[x])
    <3>1. text' = [text EXCEPT ![m] = @ + 1]
      BY <2>2 DEF Rewrite
    <3>2. x = m
      BY <1>1, <2>2, <3>1
    <3> QED
      BY <2>2, <3>2 DEF Rewrite, IsAt
  <2> QED
    BY <2>1, <2>2, CommandHistory
<1> QED
  BY <1>2, <1>3 DEF Next

\* Sending leaves the flags alone.
LEMMA JobFlags == ASSUME IInv, NEW m \in Messages, Job(m) PROVE FlagsGrow
<1>1. msg \in [Messages -> Message] /\ msg[m] \in Message
  BY DEF IInv, TypeOK
<1>2. CASE UNCHANGED msg
  BY <1>2 DEF FlagsGrow
<1>3. ASSUME NEW row, msg' = [msg EXCEPT ![m] = row], row.flags = msg[m].flags PROVE FlagsGrow
  BY <1>1, <1>3, GrownBy
<1>4. CASE Queue(m)
  <2>1. [msg[m] EXCEPT !.place = "Outbox", !.queued = TRUE].flags = msg[m].flags
    BY <1>1 DEF Message
  <2> QED
    BY <1>3, <1>4, <2>1 DEF Queue, JobWrites, Puts
<1>5. CASE Claim(m)
  <2>1. [msg[m] EXCEPT !.lease = "live"].flags = msg[m].flags
    BY <1>1 DEF Message
  <2> QED
    BY <1>3, <1>5, <2>1 DEF Claim, JobWrites, Puts
<1>6. CASE Mark(m)
  <2>1. [msg[m] EXCEPT !.relayed = TRUE].flags = msg[m].flags
    BY <1>1 DEF Message
  <2> QED
    BY <1>2, <1>3, <1>6, <2>1 DEF Mark, JobWrites, Puts
<1>7. CASE File(m)
  <2>1. [msg[m] EXCEPT !.place = "Other", !.queued = FALSE,
                       !.lease = "none", !.relayed = FALSE].flags = msg[m].flags
    BY <1>1 DEF Message
  <2> QED
    BY <1>3, <1>7, <2>1 DEF File, JobWrites, Puts
<1>8. CASE Lapse(m)
  <2>1. lapsed(msg[m]).flags = msg[m].flags
    BY <1>1 DEF lapsed, Message
  <2> QED
    BY <1>3, <1>8, <2>1 DEF Lapse
<1>9. CASE Relay(m) \/ Stop(m)
  BY <1>2, <1>9 DEF Relay, Stop
<1> QED
  BY <1>4, <1>5, <1>6, <1>7, <1>8, <1>9 DEF Job

\* If the job does not claim a message between a delete's check of its lease and the
\* delete, nothing is relayed that has left Outbox, and what was relayed does not come
\* back to Drafts (hasLiveSendLease, planMessageMove).
THEOREM CancelKept == ~JobRaces => (Spec => CancelHolds)
<1> SUFFICES ASSUME ~JobRaces PROVE Spec => CancelHolds
  OBVIOUS
<1>1. IInv /\ IInv' /\ [Next]_vars =>
        [\A m \in Messages : m \notin late' =>
            /\ relays'[m] # relays[m] => msg[m].place = "Outbox"
            /\ relays[m] > 0 => msg'[m].place # "Drafts"]_vars
  <2> SUFFICES ASSUME IInv, IInv', Next, NEW m \in Messages, m \notin late'
               PROVE  /\ relays'[m] # relays[m] => msg[m].place = "Outbox"
                      /\ relays[m] > 0 => msg'[m].place # "Drafts"
    OBVIOUS
  <2>1. m \notin late
    BY StepHistory
  <2>2. relays'[m] # relays[m] => msg[m].place = "Outbox"
    BY <2>1, StepHistory DEF IInv, Guarded
  <2>3. relays[m] > 0 => msg'[m].place # "Drafts"
    <3>1. relays[m] > 0 => relays'[m] > 0
      BY StepHistory
    <3>2. Unsent(m)' \/ Sent(m)'
      BY DEF IInv, Tracked
    <3> QED
      BY <3>1, <3>2 DEF Unsent, Sent
  <2> QED
    BY <2>2, <2>3
<1> QED
  BY Initially, Inductive, <1>1, PTL DEF Spec, CancelHolds

\* What was delivered, or was sent, keeps its text (isGenuineDraft, planMessageMove).
THEOREM ContentStays == Spec => ContentKept
<1>1. IInv /\ [Next]_vars =>
        [\A m \in Messages : text'[m] # text[m]
            => ~msg[m].delivered /\ (relays[m] = 0 \/ m \in late)]_vars
  <2> SUFFICES ASSUME IInv, Next, NEW m \in Messages, text'[m] # text[m]
               PROVE  ~msg[m].delivered /\ (relays[m] = 0 \/ m \in late)
    OBVIOUS
  <2>1. PICK r \in Reqs : /\ Fresh(r, m) /\ m \in Todo(work[r])
                          /\ isGenuineDraft(work[r].copy[m])
    BY StepHistory
  <2>2. isGenuineDraft(msg[m])
    BY <2>1, CopyIsRow
  <2> QED
    BY <2>2 DEF isGenuineDraft, IInv, Tracked, Unsent, Sent
<1> QED
  BY Initially, Inductive, <1>1, PTL DEF Spec, ContentKept

\* The mark of a reply is not lost to a Change of Read that was read before it
\* (fromApplicationData, markOriginal).
THEOREM FlagsStay == Spec => FlagsKept
<1>1. IInv /\ [Next]_vars =>
        [\A m \in Messages : "answered" \in msg[m].flags => "answered" \in msg'[m].flags]_vars
  <2> SUFFICES ASSUME IInv, Next PROVE FlagsGrow
    BY DEF FlagsGrow
  <2>1. CASE \E m \in Messages : Job(m)
    BY <2>1, JobFlags
  <2>2. CASE \E r \in Reqs : Command(r)
    BY <2>2, CommandKeeps
  <2> QED
    BY <2>1, <2>2 DEF Next
<1> QED
  BY Initially, Inductive, <1>1, PTL DEF Spec, FlagsKept
=============================================================================
