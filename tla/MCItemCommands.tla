--------------------------- MODULE MCItemCommands ---------------------------
(* ItemCommands with two or three items of each class.                       *)
EXTENDS ItemCommands

Guest(address, status) == [address |-> address, role |-> 1, status |-> status]
Rule(freq, byDay, byMonthDay) ==
    [freq |-> freq, interval |-> 1, byDay |-> byDay, byMonthDay |-> byMonthDay, exceptions |-> 1]

NewEvent ==
    [class |-> "Calendar", title |-> <<>>, location |-> <<>>, startDate |-> 0,
     organizer |-> <<>>, attendees |-> <<>>, rule |-> {}, sequence |-> 0, sent |-> -1,
     cancelNotice |-> FALSE]
NewContact ==
    [class |-> "Contacts", displayName |-> <<>>, emails |-> <<>>, phones |-> <<>>,
     cities |-> <<>>, categories |-> <<>>]
NewTask ==
    [class |-> "Tasks", title |-> <<>>, completed |-> FALSE, dueDate |-> {}, reminderDate |-> {}]
NewMessage ==
    [class |-> "Email", subject |-> <<>>, recipients |-> <<>>, read |-> TRUE, flagged |-> FALSE,
     body |-> <<>>, conversationId |-> {}, draft |-> TRUE]

NewItems == [Calendar |-> NewEvent, Contacts |-> NewContact, Tasks |-> NewTask, Email |-> NewMessage]

\* Meetings of one's own and of somebody else's; a monthly one without a day of its
\* own; texts with U+0000, and with bytes that are tokens of the codec.
Items ==
    {[NewEvent EXCEPT !.title = <<65, 0, 1, 66>>, !.location = <<76>>, !.startDate = 4,
        !.organizer = OwnAddress, !.attendees = <<Guest(<<97>>, 3), Guest(<<98>>, 0)>>,
        !.rule = {Rule(WEEKLY, <<1, 2>>, <<>>)}, !.sent = 0],
     [NewEvent EXCEPT !.startDate = 5, !.organizer = OwnAddress, !.attendees = <<Guest(<<97>>, 0)>>,
        !.rule = {Rule(MONTHLY, <<>>, <<>>)}, !.sent = 0],
     [NewEvent EXCEPT !.startDate = 4, !.organizer = <<111>>,
        !.attendees = <<Guest(OwnAddress, 0), Guest(DelegateAddress, 0), Guest(<<97>>, 0)>>],
     [NewContact EXCEPT !.displayName = <<67>>,
        !.emails = [i \in 1..4 |-> [address |-> <<96 + i>>, kind |-> "work"]],
        !.phones = <<[kind |-> "home", text |-> <<49>>], [kind |-> "other", text |-> <<50>>]>>,
        !.cities = <<[kind |-> "work", text |-> <<51>>]>>, !.categories = <<<<1>>, <<3, 0>>>>],
     [NewContact EXCEPT !.displayName = <<68>>, !.emails = <<[address |-> <<97>>, kind |-> "home"]>>],
     [NewTask EXCEPT !.title = <<84>>, !.dueDate = {5}, !.reminderDate = {8}],
     [NewTask EXCEPT !.title = <<85>>, !.completed = TRUE],
     [NewMessage EXCEPT !.subject = <<68>>, !.flagged = TRUE, !.body = <<1, 66>>,
        !.recipients = <<[address |-> <<97>>, type |-> "to"], [address |-> <<99>>, type |-> "cc"],
                         [address |-> <<98>>, type |-> "to"], [address |-> <<100>>, type |-> "bcc"]>>],
     [NewMessage EXCEPT !.subject = <<82>>, !.read = FALSE, !.draft = FALSE,
        !.conversationId = {[i \in 1..130 |-> i % 4]}]}

Cal(tag, text) == textElement(Calendar, tag, text)
Con(tag, text) == textElement(Contacts, tag, text)
Task(tag, text) == textElement(Tasks, tag, text)
Mail(tag, text) == textElement(Email, tag, text)
Guests(addresses) ==
    element(Calendar, "Attendees",
            MapSeq(addresses, LAMBDA a : element(Calendar, "Attendee", <<Cal("Email", a)>>)))
Repeats(type) ==
    element(Calendar, "Recurrence", <<Cal("Type", Num(type)), Cal("Interval", Num(1)),
                                      Cal("DayOfMonth", Num(2))>>)
Filed(n) == element(Contacts, "Categories", [i \in 1..n |-> Con("Category", <<64 + i>>)])

EditsOf ==
    [Calendar |-> {<<>>, <<Cal("Location", <<>>)>>, <<Cal("Subject", <<1, 0, 65>>)>>,
                   <<Cal("StartTime", Num(4)), Cal("OrganizerEmail", <<111>>)>>,
                   <<Guests(<<<<97>>, <<99>>>>)>>, <<Guests(<<<<97>>, <<98>>, <<99>>>>)>>,
                   <<Guests(<<OwnAddress, DelegateAddress, <<97>>>>), Repeats(MONTHLY)>>, <<Repeats(3)>>},
     Contacts |-> {<<>>, <<Con("FileAs", <<0, 68>>)>>, <<Con("Email1Address", <<98>>)>>,
                   <<Con("HomePhoneNumber", <<>>)>>, <<Con("HomeCity", <<52>>), Filed(0)>>, <<Filed(9)>>},
     Tasks    |-> {<<>>, <<Task("Complete", Num(1)), Task("UtcDueDate", Num(3))>>,
                   <<Task("ReminderSet", Num(0))>>,
                   <<Task("ReminderSet", Num(1)), Task("ReminderTime", Num(6))>>},
     Email    |-> {<<>>, <<Mail("To", <<97, 59, 100>>)>>, <<Mail("Cc", <<>>), textElement(Email2, "Bcc", <<99>>)>>,
                   <<Mail("Read", Num(1)), element(Email, "Flag", <<>>)>>,
                   <<element(AirSyncBase, "Body", <<textElement(AirSyncBase, "Data", <<1, 0, 3>>)>>)>>}]
=============================================================================
