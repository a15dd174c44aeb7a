---------------------------- MODULE ItemCommands ----------------------------
(***************************************************************************)
(* One item of a collection between a device, which shows and edits it     *)
(* through Sync (src/src/commands/SyncCommand.ts, BaseEasRoute.ts), its    *)
(* user's answers to the meeting (MeetingResponseCommand.ts), and those    *)
(* who act on the item elsewhere: webmail, incoming invitations and        *)
(* answers, and the job that mails invitations and cancellations, all of   *)
(* them external.                                                          *)
(*                                                                         *)
(* A command reads the item and decides what to write (`patch`); an update *)
(* fails if the item has been written since (`stale`), a delete does not.  *)
(***************************************************************************)
EXTENDS ItemAdapters

CONSTANTS
    Stored,   \* items that exist at the start
    NewItem,  \* what an Add leaves at its default, for each class that is added
    Edits,    \* the elements that an edit on the device changes, for each class
    MaxWrites \* bound: writes of the item

ASSUME ItemAssumption ==
    /\ MaxWrites \in Nat
    /\ \A class \in DOMAIN NewItem : NewItem[class].class = class
    /\ \A item \in Stored \cup Range(NewItem) : item.class \in DOMAIN Edits

VARIABLES
    item,    \* the row
    life,    \* "none" before it is added, "live", "deleted"
    own,     \* the last write was by someone who acts for the mailbox
    shown,   \* the elements the device has, until it edits them
    wire,    \* the document on its way: what was meant, and its bytes
    work,    \* what the Sync and the MeetingResponse command are about to write
    told,    \* history: what the attendees have been told last, if anything
    mailed,  \* history: invitations and cancellations, and in whose name
    writes   \* how often the item has been written

vars == <<item, life, own, shown, wire, work, told, mailed, writes>>

Reqs    == {"Sync", "MeetingResponse"}
Nothing == element(AirSync, "", <<>>)
NoWork  == [kind |-> "none", patch |-> <<>>, el |-> Nothing, stale |-> FALSE]
NoWire  == [el |-> Nothing, bytes |-> <<>>]
Sent(el) == [el |-> el, bytes |-> encode(el)]

\* What an invitation says; an attendee's own answer is no news to the others.
Announced(event) ==
    [startDate |-> event.startDate, location |-> event.location, rule |-> event.rule,
     attendees |-> MapSeq(event.attendees, LAMBDA a : <<a.address, a.role>>)]

InSync(event) == event.class = "Calendar" /\ event.sequence = event.sent

Init ==
    /\ \/ item \in Stored /\ life = "live"
       \/ item \in Range(NewItem) /\ life = "none"
    /\ own = FALSE
    /\ shown = {}
    /\ wire = NoWire
    /\ work = [r \in Reqs |-> NoWork]
    /\ told = IF InSync(item) THEN {Announced(item)} ELSE {}
    /\ mailed = {}
    /\ writes = 0

-----------------------------------------------------------------------------
(* The device.                                                               *)

\* Elements that are one thing to a device: it sends all of them or none.
Groups == {Range(EMAIL_TAGS), Range(PHONE_TAG), Range(CITY_TAG), {"ReminderSet", "ReminderTime"}}
With(tag) == {tag} \cup UNION {group \in Groups : tag \in group}

Replaced(kids, edit) ==
    LET gone == UNION {With(edit[i].tag) : i \in DOMAIN edit}
    IN SelectSeq(kids, LAMBDA kid : kid.tag \notin gone) \o edit

\* A reader of a document sees its texts without the U+0000.
RECURSIVE Plain(_)
Plain(el) == [el EXCEPT !.kids = MapSeq(@, Plain),
                        !.text = {SelectSeq(t, LAMBDA c : c # NUL) : t \in @}]

-----------------------------------------------------------------------------
(* Writes of the row.                                                        *)

\* The row is written, by request `me` or by nobody of Reqs; others do not know.
Writes(new, me) ==
    /\ item' = new
    /\ work' = [r \in Reqs |-> IF r = me \/ work[r].kind = "none" THEN NoWork
                               ELSE [work[r] EXCEPT !.stale = TRUE]]

Counted == writes < MaxWrites /\ writes' = writes + 1

Drops(r) == work' = [work EXCEPT ![r] = NoWork] /\ UNCHANGED <<item, own, life, writes>>

-----------------------------------------------------------------------------
(* Sync.                                                                     *)

\* The device shows the item as it is now: by an Add or a Change of the server, or
\* because it is what the device has sent.
Show ==
    LET el == toApplicationData(item) IN
    /\ life = "live"
    /\ shown # {Plain(el)}
    /\ wire' = Sent(el)
    /\ shown' = {Plain(el)}
    /\ UNCHANGED <<item, life, own, work, told, mailed, writes>>

\* The device has edited the item, and sends what is new or all of it.  A document
\* that cannot be decoded is answered by 400, an item that the adapter refuses by
\* Status 6.
Change ==
    \E edit \in Edits[item.class], before \in shown, all \in BOOLEAN :
        LET el  == element(AirSync, "ApplicationData", IF all THEN Replaced(before.kids, edit) ELSE edit)
            got == {e \in decode(encode(el)) : ~Refused(item.class, e, {item})}
        IN  /\ life = "live"
            /\ work["Sync"] = NoWork
            /\ writes < MaxWrites
            /\ wire' = Sent(el)
            /\ shown' = {}
            /\ work' = [work EXCEPT !["Sync"] =
                   IF got = {} THEN NoWork
                   ELSE [kind |-> "save", el |-> Or(got, Nothing), stale |-> FALSE,
                         patch |-> fromApplicationData(item.class, Or(got, Nothing), {item})]]
            /\ UNCHANGED <<item, life, own, told, mailed, writes>>

\* An item that the device has created.
Add ==
    \E edit \in Edits[item.class] :
        LET el  == element(AirSync, "ApplicationData", edit)
            got == {e \in decode(encode(el)) : ~Refused(item.class, e, {})}
        IN  /\ life = "none"
            /\ Counted
            /\ wire' = Sent(el)
            /\ shown' = {}
            /\ got # {}
            /\ item' = fromApplicationData(item.class, Or(got, Nothing), {}) @@ item
            /\ life' = "live"
            /\ own' = TRUE
            /\ UNCHANGED <<work, told, mailed>>

Delete ==
    /\ life = "live"
    /\ work["Sync"] = NoWork
    /\ work' = [work EXCEPT !["Sync"] = [NoWork EXCEPT !.kind = "delete",
           !.patch = IF item.class = "Calendar" THEN beforeDelete(item) ELSE <<>>]]
    /\ wire' = NoWire
    /\ UNCHANGED <<item, life, own, shown, told, mailed, writes>>

\* The update of a Change or of an answer.
Save(r) ==
    /\ work[r].kind = "save"
    /\ IF work[r].stale \/ life # "live" THEN Drops(r)
       ELSE /\ Writes(work[r].patch @@ item, r)
            /\ Counted
            /\ own' = TRUE
            /\ UNCHANGED life
    /\ wire' = NoWire
    /\ UNCHANGED <<shown, told, mailed>>

\* The update before a delete.
Stamp(r) ==
    /\ work[r].kind = "delete"
    /\ work[r].patch # <<>>
    /\ IF work[r].stale \/ life # "live" THEN Drops(r)
       ELSE /\ item' = work[r].patch @@ item
            /\ work' = [q \in Reqs |-> IF q = r THEN [NoWork EXCEPT !.kind = "delete"]
                                       ELSE [work[q] EXCEPT !.stale = work[q].kind # "none"]]
            /\ own' = TRUE
            /\ UNCHANGED <<life, writes>>
    /\ wire' = NoWire
    /\ UNCHANGED <<shown, told, mailed>>

\* The delete itself has no version to check.
Erase(r) ==
    /\ work[r].kind = "delete"
    /\ work[r].patch = <<>>
    /\ life' = "deleted"
    /\ work' = [work EXCEPT ![r] = NoWork]
    /\ wire' = NoWire
    /\ UNCHANGED <<item, own, shown, told, mailed, writes>>

-----------------------------------------------------------------------------
(* MeetingResponse.                                                          *)

DelegateAddress == <<100>>

\* Mutant of Answered: the copy that is answered is not kept level.
AnsweredOnly(event, caller, status) ==
    LET mine == CHOOSE i \in DOMAIN event.attendees : event.attendees[i].address = caller
    IN [attendees |-> [event.attendees EXCEPT ![mine].status = status]]

\* What an answer that keeps the event writes.
Answered(event, caller, status) ==
    LET mine == CHOOSE i \in DOMAIN event.attendees : event.attendees[i].address = caller
    IN [attendees |-> [event.attendees EXCEPT ![mine].status = status]]
       @@ (IF isOrganizedBy(event) THEN <<>> ELSE Given({event.sequence} \ {event.sent}, "sent", Same))

\* The owner of the calendar, or somebody who may write to it, answers.  A decline
\* deletes the event if the caller may; nobody else answers for the organizer.
Respond ==
    \E caller \in {OwnAddress, DelegateAddress}, status \in {3, 4}, mayDelete \in BOOLEAN :
        /\ life = "live"
        /\ item.class = "Calendar"
        /\ work["MeetingResponse"] = NoWork
        /\ \E a \in Range(item.attendees) : a.address = caller
        /\ isOrganizedBy(item) => caller = OwnAddress
        /\ work' = [work EXCEPT !["MeetingResponse"] =
               IF status = 4 /\ mayDelete
               THEN [NoWork EXCEPT !.kind = "delete", !.patch = beforeDelete(item)]
               ELSE [NoWork EXCEPT !.kind = "save", !.patch = Answered(item, caller, status)]]
        /\ wire' = NoWire
        /\ UNCHANGED <<item, life, own, shown, told, mailed, writes>>

-----------------------------------------------------------------------------
(* Everyone else.                                                            *)

Elsewhere(new) ==
    /\ life = "live"
    /\ new # item
    /\ Writes(new, "")
    /\ Counted
    /\ wire' = NoWire
    /\ UNCHANGED <<life, shown, told, mailed>>

\* In webmail: the organizer moves the meeting; another item gets new contents.
Webmail ==
    /\ CASE item.class = "Calendar" ->
              /\ isOrganizedBy(item)
              /\ Elsewhere([item EXCEPT !.location = <<119>>, !.sequence = @ + 1])
         [] item.class = "Email" -> Elsewhere([item EXCEPT !.read = ~@])
         [] OTHER -> \E other \in Stored : other.class = item.class /\ Elsewhere(other)
    /\ own' = TRUE

\* Mail comes in: the organizer has changed the meeting, or an attendee answers.
Incoming ==
    /\ item.class = "Calendar"
    /\ IF isOrganizedBy(item)
       THEN \E i \in DOMAIN item.attendees : Elsewhere([item EXCEPT !.attendees[i].status = 3])
       ELSE Elsewhere([item EXCEPT !.startDate = @ + 4, !.sequence = @ + 1])
    /\ own' = (own /\ isOrganizedBy(item))

\* The scheduling job takes a row that the mailbox has written for the organizer's,
\* and leaves one alone whose cancellation is out.
Invite ==
    /\ life = "live" /\ item.class = "Calendar" /\ own
    /\ ~item.cancelNotice
    /\ item.attendees # <<>>
    /\ item.sent # item.sequence
    /\ Writes([item EXCEPT !.sent = item.sequence], "")
    /\ told' = {Announced(item)}
    /\ mailed' = mailed \cup {[method |-> "REQUEST", from |-> item.organizer]}
    /\ wire' = NoWire
    /\ UNCHANGED <<life, own, shown, writes>>

Cancel ==
    /\ life = "deleted" /\ item.class = "Calendar"
    /\ ~item.cancelNotice
    /\ item.attendees # <<>>
    /\ Writes([item EXCEPT !.cancelNotice = TRUE], "")
    /\ mailed' = mailed \cup {[method |-> "CANCEL", from |-> item.organizer]}
    /\ wire' = NoWire
    /\ UNCHANGED <<life, own, shown, told, writes>>

-----------------------------------------------------------------------------

Next ==
    \/ Show \/ Change \/ Add \/ Delete \/ Respond
    \/ \E r \in Reqs : Save(r) \/ Stamp(r) \/ Erase(r)
    \/ Webmail \/ Incoming \/ Invite \/ Cancel

Spec == Init /\ [][Next]_vars

-----------------------------------------------------------------------------

RECURSIVE Size(_), Fits(_, _)
Size(el) == 1 + FoldLeft(LAMBDA sum, kid : sum + Size(kid), 0, el.kids)
Fits(el, depth) == /\ depth <= MaxDepth
                   /\ Len(el.kids) <= MaxChildren
                   /\ \A i \in DOMAIN el.kids : Fits(el.kids[i], depth + 1)

\* A document is read as it was meant, or refused because it is over a limit, and it
\* is never read in part: all that is cut off is refused (WbxmlEncoder, WbxmlDecoder).
\* Cuts are tried on the documents before the first write, to keep the run short.
WireExact ==
    wire # NoWire =>
        /\ decode(wire.bytes) = IF Size(wire.el) <= MaxElements /\ Fits(wire.el, 1)
                                THEN {Plain(wire.el)} ELSE {}
        /\ writes = 0 =>
               \A n \in 0..(Len(wire.bytes) - 1) : decode(SubSeq(wire.bytes, 1, n)) = {}

\* An event that looks the same when the device has sent back what it shows.
Usual(event) ==
    event.class = "Calendar" =>
        /\ event.startDate % 2 = 0
        /\ \A rule \in event.rule : rule = recurrenceRuleFromElement(
                                              recurrenceElement(rule, event.startDate), {rule})

\* An attendee as the device has sent it, the rest as it was shown before.
AttendeeMerged(el, before) ==
    LET address == {t \in childText(el, "Email") : TRUE}
        held(tag) == UNION {UNION {childText(a, tag) : a \in Range(findChildren(list, "Attendee"))
                                       \cap {b \in Range(list.kids) : childText(b, "Email") = address}} :
                            list \in findChild(before, "Attendees")}
        value(tag, codes, default) ==
            Or(childText(el, tag) \cap {Num(c) : c \in codes}, Or(held(tag), Num(default)))
    IN attendeeElement([address |-> Or(address, <<>>),
                        role   |-> ToNum(value("AttendeeType", Roles, 1)),
                        status |-> ToNum(value("AttendeeStatus", Statuses, 0))])

Merged(el, before) ==
    CASE el.tag = "Attendees" -> {[el EXCEPT !.kids = MapSeq(@, LAMBDA a : AttendeeMerged(a, before))]}
      [] el.tag \in {"OrganizerEmail", "ConversationId"} -> findChild(before, el.tag)
      [] OTHER -> {el}

\* Elements that show nothing when they are empty.
Optional == {"Location", "Attendees", "To", "Cc", "Bcc", "Categories"}
            \cup Range(EMAIL_TAGS) \cup Range(PHONE_TAG) \cup Range(CITY_TAG)

Expected(before, el) ==
    {kid \in UNION {Merged(k, before) : k \in Range(Replaced(before.kids, el.kids))} :
        kid.tag \in Optional => kid.kids # <<>> \/ kid.text \ {<<>>} # {}}

\* After a Change the item looks as the device has it: what was sent as it was sent,
\* the rest as before, and an organizer's meeting is announced anew if and only if
\* what an invitation carries has changed (fromApplicationData of each class).
ChangeShows ==
    [][LET before == toApplicationData(item)
           after  == toApplicationData(item')
           news(el) == {kid \in Range(el.kids) :
                            kid.tag \in {"StartTime", "Location", "Attendees", "Recurrence"}}
           saved == work["Sync"].kind = "save" /\ ~work["Sync"].stale /\ work'["Sync"] = NoWork
       IN saved /\ life = "live" /\ Usual(item) =>
            /\ Range(after.kids) = Expected(before, work["Sync"].el)
            /\ item.class = "Calendar" =>
                   (item'.sequence # item.sequence <=>
                        isOrganizedBy(item) /\ news(before) # news(after))]_vars

\* Nobody gets an invitation to, or a cancellation of, somebody else's meeting from
\* this mailbox, whatever is done to its copy (beforeDelete, Scheduling, Answered, and
\* the organizer of an Add).
NoFalseNotice == \A notice \in mailed : notice.from = OwnAddress

\* When nothing is left to announce, the attendees know the meeting as it is, and
\* that it is off if its event is gone (isSchedulingRelevantChange, beforeDelete).
AttendeesLearn ==
    item.class = "Calendar" /\ isOrganizedBy(item) /\ item.attendees # <<>> =>
        /\ life = "live" /\ InSync(item) => told = {Announced(item)}
        /\ life = "deleted" /\ item.cancelNotice => \E n \in mailed : n.method = "CANCEL"
=============================================================================
