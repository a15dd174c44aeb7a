---------------------------- MODULE MailCommands ----------------------------
(***************************************************************************)
(* The commands that act on the messages of a mailbox: MoveItems           *)
(* (src/src/commands/MoveItemsCommand.ts), ItemOperations' Move and        *)
(* EmptyFolderContents (ItemOperationsCommand.ts), the Email Changes and   *)
(* Deletes of Sync (SyncCommand.ts, adapters/EmailSyncAdapter.ts), and     *)
(* SmartReply (ComposeMailCommand.ts, SmartReplyCommand.ts), beside the    *)
(* mail server's own send and scheduled-send job, which are external.      *)
(*                                                                         *)
(* A command reads its messages, decides on what it has read, and writes   *)
(* them one by one.  A message it has read is the row, unless somebody has *)
(* written the row since (`stale`): then an update fails on its version,   *)
(* and a delete, which has none, goes ahead.                               *)
(***************************************************************************)
EXTENDS MessageMoveRules, Integers

CONSTANTS
    Messages,   \* uids
    Reqs,       \* requests that are served at the same time
    BatchSize,  \* mail:eas:itemoperations_batch_size
    MaxBatches, \* MAX_EMPTY_FOLDER_BATCHES
    MaxEdits,   \* bound: writes of a draft's text
    MaxBegun,   \* bound: commands
    MaxSends,   \* bound: sends of a draft
    MaxStops,   \* bound: the job's process stops, or outlasts its lease
    JobRaces    \* the job claims a message between a delete's check and its delete

ASSUME MailAssumption ==
    /\ {MaxEdits, MaxBegun, MaxSends, MaxStops} \subseteq Nat
    /\ {BatchSize, MaxBatches} \subseteq Nat \ {0}
    /\ JobRaces \in BOOLEAN

\* A Sync Delete is a move to Deleted Items or, with DeletesAsMoves 0, a "purge".
Kinds   == {"move", "purge", "empty", "read", "edit", "reply"}
Removes == {"purge", "empty"}  \* deletes by uid

VARIABLES
    msg,    \* the message rows
    text,   \* how often the content of each has been rewritten
    relays, \* history: how often the transport has accepted it
    late,   \* history: messages whose lease has lapsed while a send was under way
    job,    \* the scheduled-send job's work on each message
    work,   \* what each request is doing
    stale,  \* messages written by another since the request read them
    counts  \* commands, sends and stops so far

vars == <<msg, text, relays, late, job, work, stale, counts>>

\* `copy`: the rows that have been read and not dealt with yet; `stayed`: history,
\* messages that have been in the emptied folder all the time.
RowCopies == UNION {[ms -> Message] : ms \in SUBSET Messages}
NoCopies  == [m \in {} |-> m]
Works == [kind : Kinds \cup {"none"}, pc : {"done", "read", "work"},
          folder : Folders, copy : RowCopies,
          failed : SUBSET Messages, some : BOOLEAN, batches : 0..MaxBatches,
          stayed : SUBSET Messages, status : {"", "ok"}]
NoWork == [kind |-> "none", pc |-> "done", folder |-> "Other", copy |-> NoCopies,
           failed |-> {}, some |-> FALSE, batches |-> 0, stayed |-> {}, status |-> ""]

Draft    == [place |-> "Drafts", queued |-> FALSE, lease |-> "none", relayed |-> FALSE,
             delivered |-> FALSE, flags |-> {}]
Received == [place : Folders, queued : {FALSE}, lease : {"none"}, relayed : {FALSE},
             delivered : {TRUE}, flags : {{}}]

\* Drafts, and received mail, which filters may have filed anywhere.
Init ==
    /\ msg \in [Messages -> {Draft} \cup Received]
    /\ \E m \in Messages : msg[m] = Draft
    /\ text = [m \in Messages |-> 0]
    /\ relays = [m \in Messages |-> 0]
    /\ late = {}
    /\ job = [m \in Messages |-> "idle"]
    /\ work = [r \in Reqs |-> NoWork]
    /\ stale = [r \in Reqs |-> {}]
    /\ counts = [begun |-> 0, sends |-> 0, stops |-> 0]

In(folder) == {m \in Messages : msg[m].place = folder}

Todo(w) == DOMAIN w.copy

\* `row` becomes row m, and each of the requests `others` has an old copy of it now;
\* `works` is what the requests go on with.
Puts(m, row, works, others) ==
    /\ msg' = [msg EXCEPT ![m] = row]
    /\ work' = [q \in Reqs |-> IF works[q].kind = "empty" /\ row.place # works[q].folder
                               THEN [works[q] EXCEPT !.stayed = @ \ {m}] ELSE works[q]]
    /\ stale' = [q \in Reqs |-> IF q \in others /\ m \in Todo(work[q])
                                THEN stale[q] \cup {m} ELSE stale[q]]

JobWrites(m, row) == Puts(m, row, work, Reqs)

Writes(r, m, row, w) == Puts(m, row, [work EXCEPT ![r] = w], Reqs \ {r})

Goes(r, w) == work' = [work EXCEPT ![r] = w] /\ UNCHANGED <<msg, stale>>

-----------------------------------------------------------------------------
(* The mail server: sending, and the job that relays what was sent.        *)

\* send(): a draft is queued.
Queue(m) ==
    /\ counts.sends < MaxSends
    /\ isGenuineDraft(msg[m])
    /\ counts' = [counts EXCEPT !.sends = @ + 1]
    /\ JobWrites(m, [msg[m] EXCEPT !.place = "Outbox", !.queued = TRUE])
    /\ UNCHANGED <<text, relays, late, job>>

Claim(m) ==
    /\ job[m] = "idle"
    /\ msg[m].place = "Outbox" /\ msg[m].queued /\ ~msg[m].relayed
    /\ msg[m].lease # "live"
    /\ JobRaces \/ \A r \in Reqs : work[r].kind \in Removes => m \notin Todo(work[r])
    /\ job' = [job EXCEPT ![m] = "claimed"]
    /\ JobWrites(m, [msg[m] EXCEPT !.lease = "live"])
    /\ UNCHANGED <<text, relays, late, counts>>

Relay(m) ==
    /\ job[m] = "claimed"
    /\ job' = [job EXCEPT ![m] = "sent"]
    /\ relays' = [relays EXCEPT ![m] = @ + 1]
    /\ UNCHANGED <<msg, text, late, work, stale, counts>>

\* The marker is written to the row, if it is still the one that was claimed.
Mark(m) ==
    /\ job[m] = "sent"
    /\ job' = [job EXCEPT ![m] = "idle"]
    /\ IF msg[m].place = "Outbox" /\ msg[m].lease # "none"
       THEN JobWrites(m, [msg[m] EXCEPT !.relayed = TRUE])
       ELSE UNCHANGED <<msg, work, stale>>
    /\ UNCHANGED <<text, relays, late, counts>>

\* What is marked is filed, by this run of the job or by a later one.
File(m) ==
    /\ job[m] = "idle"
    /\ msg[m].place = "Outbox" /\ msg[m].relayed
    /\ JobWrites(m, [msg[m] EXCEPT !.place = "Other", !.queued = FALSE,
                                   !.lease = "none", !.relayed = FALSE])
    /\ UNCHANGED <<text, relays, late, job, counts>>

Stop(m) ==
    /\ job[m] # "idle"
    /\ counts.stops < MaxStops
    /\ counts' = [counts EXCEPT !.stops = @ + 1]
    /\ job' = [job EXCEPT ![m] = "idle"]
    /\ UNCHANGED <<msg, text, relays, late, work, stale>>

lapsed(row) == IF hasLiveSendLease(row) THEN [row EXCEPT !.lease = "lapsed"] ELSE row

\* The lease expires, in the row and in every copy of it.
Lapse(m) ==
    /\ msg[m].lease = "live"
    /\ counts.stops < MaxStops
    /\ counts' = [counts EXCEPT !.stops = @ + 1]
    /\ msg' = [msg EXCEPT ![m] = lapsed(@)]
    /\ late' = IF job[m] # "idle" \/ (relays[m] > 0 /\ ~msg[m].relayed)
               THEN late \cup {m} ELSE late
    /\ work' = [r \in Reqs |-> IF m \in Todo(work[r])
                               THEN [work[r] EXCEPT !.copy[m] = lapsed(work[r].copy[m])]
                               ELSE work[r]]
    /\ UNCHANGED <<text, relays, job, stale>>

-----------------------------------------------------------------------------
(* A command: what it reads, what it does with each message, its answer.   *)

Copies(ms) == [m \in ms |-> msg[m]]

\* The messages that a command of each kind reads at first: one, or those of a
\* conversation; those of a folder are read later.
Scope(kind, folder, ms) ==
    /\ kind \in {"move", "empty"} \/ folder = NoWork.folder
    /\ CASE kind = "move"  -> Cardinality(ms) \in 1..BatchSize
         [] kind = "empty" -> ms = {}
         [] OTHER          -> Cardinality(ms) = 1

Begin(r, kind, folder, ms) ==
    /\ work[r].pc = "done"
    /\ counts.begun < MaxBegun
    /\ counts' = [counts EXCEPT !.begun = @ + 1]
    /\ ms \cap In("gone") = {}
    /\ Scope(kind, folder, ms)
    /\ work' = [work EXCEPT ![r] =
          [NoWork EXCEPT !.kind = kind, !.folder = folder, !.copy = Copies(ms),
                         !.pc = IF kind = "empty" THEN "read" ELSE "work",
                         !.stayed = IF kind = "empty" THEN In(folder) ELSE {}]]
    /\ stale' = [stale EXCEPT ![r] = {}]
    /\ UNCHANGED <<msg, text, relays, late, job>>

\* Message m is dealt with, with or without success; with the last one a command
\* is over, except EmptyFolderContents.
Handled(r, m, ok) ==
    LET w == work[r]
    IN  IF w.kind # "empty" /\ Todo(w) = {m} THEN NoWork
        ELSE [w EXCEPT !.copy = [q \in Todo(w) \ {m} |-> w.copy[q]], !.some = @ \/ ok,
                       !.failed = IF ok THEN @ ELSE @ \cup {m}]

IsAt(r, m, kinds) ==
    work[r].pc = "work" /\ m \in Todo(work[r]) /\ work[r].kind \in kinds

\* A refusal, or an update or a delete that fails for whatever reason.
Refuse(r, m) ==
    /\ IsAt(r, m, Kinds)
    /\ Goes(r, Handled(r, m, FALSE))
    /\ UNCHANGED <<text, relays, late, job, counts>>

\* Mutant of Fresh: an update goes ahead whatever the version.
FreshAnyway(r, m) == msg[m].place # "gone"

\* The version that was read is the row's.
Fresh(r, m) == m \notin stale[r]

\* moveOne, moveConversation, and a Sync Delete that moves to Deleted Items.
Relocate(r, m) ==
    LET w == work[r]
    IN  /\ IsAt(r, m, {"move"})
        /\ Fresh(r, m)
        /\ planMessageMove(w.copy[m], w.folder)
        /\ Writes(r, m, moved(msg[m], w.copy[m], w.folder), Handled(r, m, TRUE))
        /\ UNCHANGED <<text, relays, late, job, counts>>

\* EmptyFolderContents, and a Sync Delete that does not move: no version is sent,
\* and only a row that is gone already makes the delete fail.
Remove(r, m) ==
    /\ IsAt(r, m, Removes)
    /\ ~hasLiveSendLease(work[r].copy[m])
    /\ msg[m].place # "gone"
    /\ Writes(r, m, [msg[m] EXCEPT !.place = "gone"], Handled(r, m, TRUE))
    /\ UNCHANGED <<text, relays, late, job, counts>>

\* Read of an Email Change, or, once the reply has been relayed and filed, Answered of
\* a SmartReply: all flags are written, as they were read but for one.
Flag(r, m) ==
    LET was == work[r].copy[m].flags
    IN  /\ IsAt(r, m, {"read", "reply"})
        /\ Fresh(r, m)
        /\ Writes(r, m, [msg[m] EXCEPT !.flags = was \cup
                              {IF work[r].kind = "read" THEN "read" ELSE "answered"}],
                  Handled(r, m, TRUE))
        /\ UNCHANGED <<text, relays, late, job, counts>>

\* The body of an Email Change: only a draft's.
Rewrite(r, m) ==
    /\ IsAt(r, m, {"edit"})
    /\ Fresh(r, m)
    /\ isGenuineDraft(work[r].copy[m])
    /\ text[m] < MaxEdits
    /\ text' = [text EXCEPT ![m] = @ + 1]
    /\ Writes(r, m, msg[m], Handled(r, m, TRUE))
    /\ UNCHANGED <<relays, late, job, counts>>

\* Mutant of EmptyStatus: nothing new to delete is taken for an empty folder.
EmptyStatusNothingNew(w, ms) ==
    IF ms \subseteq w.failed THEN "ok" ELSE IF w.some THEN "partial" ELSE "error"

\* EmptyFolderContents succeeds if the last batch, `ms`, was empty.
EmptyStatus(w, ms) ==
    IF ms = {} /\ w.failed = {} THEN "ok" ELSE IF w.some THEN "partial" ELSE "error"

\* Only what is reported as a success matters afterwards.
Answer(w, ms) ==
    IF EmptyStatus(w, ms) = "ok"
    THEN [NoWork EXCEPT !.kind = w.kind, !.status = "ok", !.stayed = w.stayed]
    ELSE NoWork

\* The next batch of the folder, without what has failed already; a batch with
\* nothing new in it ends the loop, and so does the limit (where no batch is read).
ReadBatch(r, ms) ==
    LET w    == work[r]
        todo == ms \ w.failed
    IN  /\ w.pc = "read"
        /\ ms \subseteq In(w.folder)
        /\ Cardinality(ms) <= BatchSize
        /\ Cardinality(ms) = BatchSize \/ ms = In(w.folder)
        /\ IF todo = {}
           THEN work' = [work EXCEPT ![r] = Answer(w, ms)]
           ELSE work' = [work EXCEPT ![r].pc = "work", ![r].copy = Copies(todo),
                                     ![r].batches = @ + 1]
        /\ w.batches < MaxBatches
        /\ stale' = [stale EXCEPT ![r] = {}]
        /\ UNCHANGED <<msg, text, relays, late, job, counts>>

BatchLimit(r) ==
    /\ work[r].pc = "read"
    /\ work[r].batches = MaxBatches
    /\ Goes(r, Answer(work[r], Messages))
    /\ UNCHANGED <<text, relays, late, job, counts>>

NextBatch(r) ==
    /\ work[r].pc = "work"
    /\ Todo(work[r]) = {}
    /\ Goes(r, [work[r] EXCEPT !.pc = "read"])
    /\ UNCHANGED <<text, relays, late, job, counts>>

-----------------------------------------------------------------------------

Job(m) == Queue(m) \/ Claim(m) \/ Relay(m) \/ Mark(m) \/ File(m) \/ Stop(m) \/ Lapse(m)

Act(r, m) == Refuse(r, m) \/ Relocate(r, m) \/ Remove(r, m) \/ Flag(r, m) \/ Rewrite(r, m)

Command(r) ==
    \/ \E kind \in Kinds, folder \in Folders, ms \in SUBSET Messages : Begin(r, kind, folder, ms)
    \/ \E m \in Messages : Act(r, m)
    \/ \E ms \in SUBSET Messages : ReadBatch(r, ms)
    \/ BatchLimit(r) \/ NextBatch(r)

Next == (\E m \in Messages : Job(m)) \/ (\E r \in Reqs : Command(r))

Spec == Init /\ [][Next]_vars

-----------------------------------------------------------------------------

TypeOK ==
    /\ msg \in [Messages -> Message]
    /\ text \in [Messages -> 0..MaxEdits]
    /\ relays \in [Messages -> Nat]
    /\ late \subseteq Messages
    /\ job \in [Messages -> {"idle", "claimed", "sent"}]
    /\ work \in [Reqs -> Works]
    /\ stale \in [Reqs -> SUBSET Messages]
    /\ counts \in [begun : 0..MaxBegun, sends : 0..MaxSends, stops : 0..MaxStops]

\* Whatever devices do to a message while it is being sent, or after that, the
\* transport gets it at most once (planMessageMove, hasLiveSendLease), unless the
\* job itself overran its lease.
SentOnce == \A m \in Messages : relays[m] <= 1 \/ m \in late

\* What a device has taken back out of Outbox, or deleted, is not sent any more, and
\* what was sent is not taken back (hasLiveSendLease, and planMessageMove's "sent").
CancelHolds ==
    [][\A m \in Messages : m \notin late' =>
          /\ relays'[m] # relays[m] => msg[m].place = "Outbox"
          /\ relays[m] > 0 => msg'[m].place # "Drafts"]_vars

\* The text of a message that was delivered, or that has been sent, is not
\* rewritten, wherever devices and filters have put it (isGenuineDraft, and
\* planMessageMove for what bears no mark of a delivery).
ContentKept ==
    [][\A m \in Messages : text'[m] # text[m]
          => ~msg[m].delivered /\ (relays[m] = 0 \/ m \in late)]_vars

\* A reply's mark on its original is not lost to a Change of Read that was read
\* before it (fromApplicationData, markOriginal).
FlagsKept ==
    [][\A m \in Messages : "answered" \in msg[m].flags => "answered" \in msg'[m].flags]_vars

\* A folder is reported empty only if everything has left it that was in it when the
\* request came (emptyFolderContents).
EmptyIsEmpty ==
    \A r \in Reqs : work[r].kind = "empty" /\ work[r].status = "ok" => work[r].stayed = {}
=============================================================================
