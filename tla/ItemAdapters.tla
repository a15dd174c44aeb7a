---------------------------- MODULE ItemAdapters ----------------------------
(***************************************************************************)
(* How events, contacts, tasks and messages go to a device and come back:  *)
(* src/src/adapters/CalendarSyncAdapter.ts, ContactsSyncAdapter.ts,        *)
(* TasksSyncAdapter.ts, EmailSyncAdapter.ts and src/src/CompactDateTime.ts.*)
(*                                                                         *)
(* Of the fields that are all treated alike (copied out if set, copied in  *)
(* if sent) an item has one or two; it has every field that is not.  A     *)
(* number and an address are one character of a text, and a date counts    *)
(* half seconds.  Fields that are only shown (DtStamp, MeetingStatus,      *)
(* Sensitivity, From, Categories of a message, ...) are left out.          *)
(***************************************************************************)
EXTENDS WbxmlCodec

CONSTANT MaxAttendees \* MAX_CALENDAR_ATTENDEES

Num(n) == <<32 + n>>
ToNum(text) == Head(text) - 32

\* Whole seconds only.
toCompactDateTime(date) == Num(date \div 2)
fromCompactDateTime(text) == 2 * ToNum(text)

When(condition, el) == IF condition THEN <<el>> ELSE <<>>

\* The part of an update that sets `field`, if there is a value for it.
Given(option, field, conv(_)) == [f \in {field : x \in option} |-> conv(Or(option, <<>>))]
Same(x) == x

MapSeq(seq, op(_)) == [i \in DOMAIN seq |-> op(seq[i])]

-----------------------------------------------------------------------------
(* Calendar.  Frequencies, roles and statuses are their codes on the wire.   *)

DAILY == 0
WEEKLY == 1
MONTHLY == 2
DAY_OF_WEEK_BITS == <<1, 2, 4>>  \* SU, MO, TU
Roles    == {1, 2, 3}            \* required, optional, resource
Statuses == {0, 2, 3, 4}         \* needs action, tentative, accepted, declined

\* The mailbox has one address of its own; an event without an organizer is its own.
OwnAddress == <<109>>
isOrganizedBy(event) == event.organizer \in {<<>>, OwnAddress}

\* A day has four half seconds.
localDay(date) == 1 + (date \div 4)

attendeeElement(a) ==
    element(Calendar, "Attendee",
            <<textElement(Calendar, "Email", a.address),
              textElement(Calendar, "AttendeeType", Num(a.role)),
              textElement(Calendar, "AttendeeStatus", Num(a.status))>>)

recurrenceElement(rule, startDate) ==
    LET bits == FoldLeft(LAMBDA sum, day : sum + day, 0, rule.byDay)
        day  == IF rule.byMonthDay = <<>> THEN localDay(startDate) ELSE Head(rule.byMonthDay)
    IN element(Calendar, "Recurrence",
           <<textElement(Calendar, "Type", Num(rule.freq)),
             textElement(Calendar, "Interval", Num(rule.interval))>>
           \o When(rule.freq = WEEKLY /\ bits > 0, textElement(Calendar, "DayOfWeek", Num(bits)))
           \o When(rule.freq = MONTHLY, textElement(Calendar, "DayOfMonth", Num(day))))

EventElements(event) ==
    <<textElement(Calendar, "Subject", event.title)>>
    \o When(event.location # <<>>, textElement(Calendar, "Location", event.location))
    \o <<textElement(Calendar, "StartTime", toCompactDateTime(event.startDate)),
         textElement(Calendar, "OrganizerEmail", event.organizer)>>
    \o When(event.attendees # <<>>,
            element(Calendar, "Attendees", MapSeq(event.attendees, attendeeElement)))
    \o When(event.rule # {},
            recurrenceElement(CHOOSE rule \in event.rule : TRUE, event.startDate))

\* Mutant of attendeeFromElement: what the device does not send is lost.
attendeeFromElementAnew(el, known) ==
    LET code(tag) == {ToNum(t) : t \in childText(el, tag)}
    IN [address |-> Or(childText(el, "Email"), <<>>),
        role    |-> Or(code("AttendeeType") \cap Roles, 1),
        status  |-> Or(code("AttendeeStatus") \cap Statuses, 0)]

\* An attendee the event has keeps what the device does not send, or sends a code
\* for that has no meaning here.
attendeeFromElement(el, known) ==
    LET address == Or(childText(el, "Email"), <<>>)
        before  == SelectSeq(known, LAMBDA a : a.address = address)
        code(tag) == {ToNum(t) : t \in childText(el, tag)}
        held(default, value(_)) == IF before = <<>> THEN default ELSE value(Head(before))
    IN [address |-> address,
        role    |-> Or(code("AttendeeType") \cap Roles, held(1, LAMBDA a : a.role)),
        status  |-> Or(code("AttendeeStatus") \cap Statuses, held(0, LAMBDA a : a.status))]

AttendeesOf(el, known) ==
    MapSeq(findChildren(el, "Attendee"), LAMBDA kid : attendeeFromElement(kid, known))

\* Cancelled occurrences have no form on the wire and stay as they are.
recurrenceRuleFromElement(el, before) ==
    LET code(tag, default) == Or({ToNum(t) : t \in childText(el, tag)}, default)
        bits == code("DayOfWeek", 0)
    IN [freq |-> code("Type", DAILY), interval |-> code("Interval", 1),
        byDay |-> SelectSeq(DAY_OF_WEEK_BITS, LAMBDA bit : (bits \div bit) % 2 = 1),
        byMonthDay |-> IF childText(el, "DayOfMonth") = {} THEN <<>>
                       ELSE <<code("DayOfMonth", 0)>>,
        exceptions |-> IF before = {} THEN 0 ELSE (CHOOSE r \in before : TRUE).exceptions]

\* Mutant of isSchedulingRelevantChange: a change of the place is none.
isSchedulingRelevantChangeElsewhen(event, partial) ==
    \/ "startDate" \in DOMAIN partial /\ partial.startDate # event.startDate
    \/ "attendees" \in DOMAIN partial /\ partial.attendees # event.attendees
    \/ "rule" \in DOMAIN partial /\ partial.rule # event.rule

\* Whether an update changes what invitations carry.
isSchedulingRelevantChange(event, partial) ==
    \/ "startDate" \in DOMAIN partial /\ partial.startDate # event.startDate
    \/ "location" \in DOMAIN partial /\ partial.location # event.location
    \/ "attendees" \in DOMAIN partial /\ partial.attendees # event.attendees
    \/ "rule" \in DOMAIN partial /\ partial.rule # event.rule

\* The adapter throws: an attendee without an address, a new list of attendees that
\* is too long, a recurrence of a type that is not supported.
EventRefused(el, existing) ==
    \/ \E list \in findChild(el, "Attendees") :
         LET sent == findChildren(list, "Attendee")
             addresses == MapSeq(sent, LAMBDA kid : Or(childText(kid, "Email"), <<>>))
         IN \/ <<>> \in Range(addresses)
            \/ /\ Len(sent) > MaxAttendees
               /\ \A event \in existing :
                      addresses # MapSeq(event.attendees, LAMBDA a : a.address)
    \/ \E rule \in findChild(el, "Recurrence") :
         {ToNum(t) : t \in childText(rule, "Type")} \notin {{DAILY}, {WEEKLY}, {MONTHLY}}

\* Mutant of Scheduling: an attendee's copy is treated like the organizer's.
SchedulingAlike(event, partial) ==
    Given(IF isSchedulingRelevantChange(event, partial) THEN {event.sequence + 1} ELSE {},
          "sequence", Same)

\* What an update says of the meeting: an attendee's copy stays as announced, the
\* organizer's copy is announced again if it has to be.
Scheduling(event, partial) ==
    IF isOrganizedBy(event)
    THEN Given(IF isSchedulingRelevantChange(event, partial) THEN {event.sequence + 1} ELSE {},
               "sequence", Same)
    ELSE Given({event.sequence} \ {event.sent}, "sent", Same)

EventUpdate(el, existing) ==
    LET known == UNION {{event.attendees} : event \in existing}
        rules == UNION {event.rule : event \in existing}
        partial ==
            Given(childText(el, "Subject"), "title", Same)
            @@ Given(childText(el, "Location"), "location", Same)
            @@ Given(childText(el, "StartTime"), "startDate", fromCompactDateTime)
            @@ Given(findChild(el, "Attendees"), "attendees",
                     LAMBDA list : AttendeesOf(list, Or(known, <<>>)))
            @@ Given(findChild(el, "Recurrence"), "rule",
                     LAMBDA rule : {recurrenceRuleFromElement(rule, rules)})
    IN IF existing = {} THEN partial @@ [organizer |-> OwnAddress]
       ELSE partial @@ Scheduling(CHOOSE event \in existing : TRUE, partial)

\* Mutant of beforeDelete: an attendee's copy is deleted like the organizer's.
beforeDeleteNone(event) == <<>>

\* The stamp on an attendee's copy, so that its deletion is no cancellation.
beforeDelete(event) ==
    IF isOrganizedBy(event) \/ event.cancelNotice THEN <<>> ELSE [cancelNotice |-> TRUE]

-----------------------------------------------------------------------------
(* Contacts.  Of the postal addresses, the city.                             *)

EMAIL_TAGS == <<"Email1Address", "Email2Address", "Email3Address">>
PHONE_TAG  == [home |-> "HomePhoneNumber", work |-> "BusinessPhoneNumber"]
CITY_TAG   == [home |-> "HomeCity", work |-> "BusinessCity"]

ContactElements(contact) ==
    LET emails == SubSeq(contact.emails, 1, IF Len(contact.emails) < 3 THEN Len(contact.emails) ELSE 3)
        phones == SelectSeq(contact.phones, LAMBDA phone : phone.kind \in DOMAIN PHONE_TAG)
    IN <<textElement(Contacts, "FileAs", contact.displayName)>>
       \o [i \in DOMAIN emails |-> textElement(Contacts, EMAIL_TAGS[i], emails[i].address)]
       \o MapSeq(phones, LAMBDA phone : textElement(Contacts, PHONE_TAG[phone.kind], phone.text))
       \o MapSeq(contact.cities, LAMBDA city : textElement(Contacts, CITY_TAG[city.kind], city.text))
       \o When(contact.categories # <<>>,
               element(Contacts, "Categories",
                       MapSeq(contact.categories, LAMBDA c : textElement(Contacts, "Category", c))))

\* The texts sent with `tags`, in their order; empty ones are not kept.
Entries(el, tags) ==
    LET sent == SelectSeq(tags, LAMBDA tag : Or(childText(el, tag), <<>>) # <<>>)
    IN MapSeq(sent, LAMBDA tag : Or(childText(el, tag), <<>>))

Kinds(el, tagOf) ==
    MapSeq(SelectSeq(<<"home", "work">>, LAMBDA kind : Or(childText(el, tagOf[kind]), <<>>) # <<>>),
           LAMBDA kind : [kind |-> kind, text |-> Or(childText(el, tagOf[kind]), <<>>)])

Touched(el, tags) == \E tag \in tags : findChild(el, tag) # {}

\* Mutant of ContactUpdate: a group that is not sent is rebuilt, too.
ContactUpdateWhole(el) ==
    Given(childText(el, "FileAs"), "displayName", Same)
    @@ [emails |-> MapSeq(Entries(el, EMAIL_TAGS), LAMBDA text : [address |-> text, kind |-> "other"]),
        phones |-> Kinds(el, PHONE_TAG), cities |-> Kinds(el, CITY_TAG)]

\* Emails, phones, addresses and categories are each left alone or rebuilt as a whole.
ContactUpdate(el) ==
    LET group(tags, field, value) ==
            [f \in {field : x \in {tag \in tags : Touched(el, {tag})}} |-> value]
    IN Given(childText(el, "FileAs"), "displayName", Same)
       @@ group(Range(EMAIL_TAGS), "emails",
                MapSeq(Entries(el, EMAIL_TAGS), LAMBDA text : [address |-> text, kind |-> "other"]))
       @@ group(Range(PHONE_TAG), "phones", Kinds(el, PHONE_TAG))
       @@ group(Range(CITY_TAG), "cities", Kinds(el, CITY_TAG))
       @@ Given(findChild(el, "Categories"), "categories", LAMBDA list :
                SelectSeq(MapSeq(findChildren(list, "Category"), LAMBDA c : Or(c.text, <<>>)),
                          LAMBDA text : text # <<>>))

-----------------------------------------------------------------------------
(* Tasks.                                                                    *)

TaskElements(task) ==
    <<textElement(Tasks, "Subject", task.title),
      textElement(Tasks, "Complete", Num(IF task.completed THEN 1 ELSE 0))>>
    \o When(task.dueDate # {}, textElement(Tasks, "UtcDueDate", toCompactDateTime(Or(task.dueDate, 0))))
    \o <<textElement(Tasks, "ReminderSet", Num(IF task.reminderDate = {} THEN 0 ELSE 1))>>
    \o When(task.reminderDate # {},
            textElement(Tasks, "ReminderTime", toCompactDateTime(Or(task.reminderDate, 0))))

\* A due date cannot be taken back; a reminder can.
TaskUpdate(el) ==
    LET date(text) == {fromCompactDateTime(text)}
    IN Given(childText(el, "Subject"), "title", Same)
       @@ Given(childText(el, "Complete"), "completed", LAMBDA text : text = Num(1))
       @@ Given(childText(el, "UtcDueDate"), "dueDate", date)
       @@ Given(childText(el, "ReminderTime"), "reminderDate", date)
       @@ Given(childText(el, "ReminderSet") \cap {Num(0)}, "reminderDate", LAMBDA text : {})

-----------------------------------------------------------------------------
(* Messages.                                                                 *)

SEMICOLON == 59

\* The recipients of a type, as the text of an element, and back.
RecipientText(message, type) ==
    FoldLeft(LAMBDA text, r : text \o (IF text = <<>> THEN <<>> ELSE <<SEMICOLON>>) \o r.address,
             <<>>, SelectSeq(message.recipients, LAMBDA r : r.type = type))
parseAddressList(text, type) ==
    MapSeq(SelectSeq(text, LAMBDA c : c # SEMICOLON), LAMBDA c : [address |-> <<c>>, type |-> type])

MessageElements(message) ==
    LET list(page, tag, type) ==
            When(RecipientText(message, type) # <<>>,
                 textElement(page, tag, RecipientText(message, type)))
    IN <<textElement(Email, "Subject", message.subject)>>
       \o list(Email, "To", "to") \o list(Email, "Cc", "cc") \o list(Email2, "Bcc", "bcc")
       \o <<textElement(Email, "Read", Num(IF message.read THEN 1 ELSE 0)),
            element(Email, "Flag", When(message.flagged, textElement(Email, "FlagStatus", Num(2)))),
            element(AirSyncBase, "Body", <<textElement(AirSyncBase, "Data", message.body)>>)>>
       \o MapSeq(SetToSeq(message.conversationId), LAMBDA data : opaqueElement(Email2, "ConversationId", data))

\* Mutant of Recipients: the types that are not sent are not carried over.
RecipientsAnew(el, before) ==
    LET sent(tag, type) == parseAddressList(Or(childText(el, tag), <<>>), type)
    IN sent("To", "to") \o sent("Cc", "cc") \o sent("Bcc", "bcc")

\* Each type of recipient is left alone or rebuilt.
Recipients(el, before) ==
    LET tag == [to |-> "To", cc |-> "Cc", bcc |-> "Bcc"]
        sent(type) == parseAddressList(Or(childText(el, tag[type]), <<>>), type)
    IN SelectSeq(before, LAMBDA r : childText(el, tag[r.type]) = {})
       \o sent("to") \o sent("cc") \o sent("bcc")

\* The body of a message that is no draft is its original.
MessageRefused(el, existing) ==
    findChild(el, "Body") # {} /\ \E message \in existing : ~message.draft

MessageUpdate(el, existing) ==
    LET before == UNION {{message.recipients} : message \in existing}
        bodies == {Or(childText(body, "Data"), <<>>) : body \in findChild(el, "Body")}
    IN Given(childText(el, "Subject"), "subject", Same)
       @@ Given(UNION {childText(el, tag) : tag \in {"To", "Cc", "Bcc"}}, "recipients",
                LAMBDA text : Recipients(el, Or(before, <<>>)))
       @@ Given(childText(el, "Read"), "read", LAMBDA text : text = Num(1))
       @@ Given(findChild(el, "Flag"), "flagged", LAMBDA flag : childText(flag, "FlagStatus") = {Num(2)})
       @@ Given(bodies, "body", Same)

-----------------------------------------------------------------------------
(* The adapter of a class.                                                   *)

toApplicationData(item) ==
    element(AirSync, "ApplicationData",
            CASE item.class = "Calendar" -> EventElements(item)
              [] item.class = "Contacts" -> ContactElements(item)
              [] item.class = "Tasks"    -> TaskElements(item)
              [] item.class = "Email"    -> MessageElements(item))

\* `existing`: the item to change, if there is one.
Refused(class, el, existing) ==
    \/ class = "Calendar" /\ EventRefused(el, existing)
    \/ class = "Email" /\ MessageRefused(el, existing)

fromApplicationData(class, el, existing) ==
    CASE class = "Calendar" -> EventUpdate(el, existing)
      [] class = "Contacts" -> ContactUpdate(el)
      [] class = "Tasks"    -> TaskUpdate(el)
      [] class = "Email"    -> MessageUpdate(el, existing)
=============================================================================
