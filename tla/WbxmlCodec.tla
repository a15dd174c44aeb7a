----------------------------- MODULE WbxmlCodec -----------------------------
(***************************************************************************)
(* The binary XML of ActiveSync: src/src/codec/WbxmlElement.ts,            *)
(* WbxmlCodePages.ts, WbxmlEncoder.ts and WbxmlDecoder.ts.                 *)
(*                                                                         *)
(* A document is a sequence of bytes.  An optional value is a set of at    *)
(* most one element, and so is the result of a reader: it is empty when    *)
(* the decoder refuses the document.                                       *)
(***************************************************************************)
EXTENDS Integers, Sequences, SequencesExt

CONSTANTS
    MaxElements, \* WBXML_DEFAULT_MAX_ELEMENTS
    MaxChildren, \* WBXML_DEFAULT_MAX_CHILDREN_PER_ELEMENT
    MaxDepth     \* WBXML_DEFAULT_MAX_DEPTH

ASSUME CodecAssumption == {MaxElements, MaxChildren, MaxDepth} \subseteq Nat \ {0}

SWITCH_PAGE  == 0
END          == 1
STR_I        == 3
OPAQUE       == 195
CONTENT_FLAG == 64
ATTR_FLAG    == 128
NUL          == 0
Header       == <<3, 1, 106, 0>>  \* version, public id, charset, empty string table

Or(option, default) == IF option = {} THEN default ELSE CHOOSE x \in option : TRUE

-----------------------------------------------------------------------------
(* Elements.  A text is a sequence of characters, each of one byte.          *)

element(page, tag, kids) ==
    [page |-> page, tag |-> tag, kids |-> kids, text |-> {}, opaque |-> {}]
textElement(page, tag, text) == [element(page, tag, <<>>) EXCEPT !.text = {text}]
opaqueElement(page, tag, data) == [element(page, tag, <<>>) EXCEPT !.opaque = {data}]

findChildren(parent, tag) == SelectSeq(parent.kids, LAMBDA kid : kid.tag = tag)
findChild(parent, tag) ==
    LET found == findChildren(parent, tag) IN IF found = <<>> THEN {} ELSE {Head(found)}
childText(parent, tag) == UNION {kid.text : kid \in findChild(parent, tag)}

-----------------------------------------------------------------------------
(* Code pages: the tags of the elements that ItemAdapters builds.            *)

AirSync     == 0
Contacts    == 1
Email       == 2
Calendar    == 4
Tasks       == 9
AirSyncBase == 17
Email2      == 22

AirSyncTags  == [ApplicationData |-> 29]
ContactsTags == [BusinessCity |-> 13, BusinessPhoneNumber |-> 19, Categories |-> 21,
                 Category |-> 22, Email1Address |-> 27, Email2Address |-> 28,
                 Email3Address |-> 29, FileAs |-> 30, HomeCity |-> 33,
                 HomePhoneNumber |-> 39]
EmailTags    == [Subject |-> 20, Read |-> 21, To |-> 22, Cc |-> 23, Categories |-> 27,
                 Category |-> 28, Flag |-> 58, FlagStatus |-> 59]
CalendarTags == [Attendees |-> 7, Attendee |-> 8, Email |-> 9, Location |-> 23,
                 OrganizerEmail |-> 25, Recurrence |-> 27, Type |-> 28, Interval |-> 31,
                 DayOfWeek |-> 32, DayOfMonth |-> 33, Subject |-> 38, StartTime |-> 39,
                 AttendeeStatus |-> 41, AttendeeType |-> 42]
TasksTags    == [Complete |-> 10, UtcDueDate |-> 13, ReminderSet |-> 27,
                 ReminderTime |-> 28, Subject |-> 32]
BaseTags     == [Body |-> 10, Data |-> 11]
Email2Tags   == [ConversationId |-> 9, Bcc |-> 22]

CODES_BY_PAGE == (AirSync :> AirSyncTags) @@ (Contacts :> ContactsTags) @@
    (Email :> EmailTags) @@ (Calendar :> CalendarTags) @@ (Tasks :> TasksTags) @@
    (AirSyncBase :> BaseTags) @@ (Email2 :> Email2Tags)

codeForTagName(page, tag) == CODES_BY_PAGE[page][tag]

\* A code without a name is not an error.
tagNameForCode(page, code) ==
    LET tags == IF page \in DOMAIN CODES_BY_PAGE THEN CODES_BY_PAGE[page] ELSE <<>>
    IN Or({tag \in DOMAIN tags : tags[tag] = code}, "Unknown")

-----------------------------------------------------------------------------
(* Encoder.                                                                  *)

\* Mutant of writeStrI: a U+0000 of the text is written like any character.
writeStrIRaw(text) == <<STR_I>> \o text \o <<NUL>>

writeStrI(text) == <<STR_I>> \o SelectSeq(text, LAMBDA c : c # NUL) \o <<NUL>>

\* Seven bits a byte, the most significant first; all but the last are flagged.
writeMbUint(value) ==
    LET high[n \in Nat] == IF n = 0 THEN <<>> ELSE Append(high[n \div 128], 128 + (n % 128))
    IN Append(high[value \div 128], value % 128)

writeOpaque(data) == <<OPAQUE>> \o writeMbUint(Len(data)) \o data

\* `out`: the bytes so far and the page in force, which outlives the element.
RECURSIVE writeElement(_, _)
writeElement(out, el) ==
    LET page == IF el.page = out.page THEN <<>> ELSE <<SWITCH_PAGE, el.page>>
        code == codeForTagName(el.page, el.tag)
        tag(flag) == [bytes |-> out.bytes \o page \o <<code + flag>>, page |-> el.page]
        open == tag(CONTENT_FLAG)
        full == CASE el.text # {} -> [open EXCEPT !.bytes = @ \o writeStrI(Or(el.text, <<>>))]
                  [] el.text = {} /\ el.opaque # {} ->
                        [open EXCEPT !.bytes = @ \o writeOpaque(Or(el.opaque, <<>>))]
                  [] OTHER -> FoldLeft(writeElement, open, el.kids)
    IN IF el.kids = <<>> /\ el.text = {} /\ el.opaque = {} THEN tag(0)
       ELSE [full EXCEPT !.bytes = Append(@, END)]

\* The server sets no limit on what it writes.
encode(root) == writeElement([bytes |-> Header, page |-> AirSync], root).bytes

-----------------------------------------------------------------------------
(* Decoder.  `d`: the position, the page in force, and the elements so far.  *)

First(buf, pos, limit) ==
    {i \in pos..Len(buf) : buf[i] < limit /\ \A j \in pos..(i - 1) : buf[j] >= limit}

readMbUint(buf, pos) ==
    {[value |-> FoldLeft(LAMBDA v, b : v * 128 + (b % 128), 0, SubSeq(buf, pos, end)),
      next |-> end + 1] : end \in First(buf, pos, 128)}

readCString(buf, pos) ==
    {[value |-> SubSeq(buf, pos, end - 1), next |-> end + 1] : end \in First(buf, pos, 1)}

\* The data of an OPAQUE, all of which must be there.
readOpaque(buf, pos) ==
    {[value |-> SubSeq(buf, n.next, n.next + n.value - 1), next |-> n.next + n.value] :
        n \in {m \in readMbUint(buf, pos) : m.value <= Len(buf) - m.next + 1}}

\* Mutant of SwitchPage: a switch holds for the tag that follows it only.
SwitchPageNever(buf, d) == IF d.pos < Len(buf) THEN {[d EXCEPT !.pos = @ + 2]} ELSE {}

SwitchPage(buf, d) ==
    IF d.pos < Len(buf) THEN {[d EXCEPT !.pos = @ + 2, !.page = buf[d.pos + 1]]} ELSE {}

RECURSIVE readTagElement(_, _, _), readContentUntilEnd(_, _, _, _)

readTagElement(buf, d, depth) ==
    IF \/ d.n >= MaxElements \/ depth > MaxDepth
       \/ d.pos > Len(buf)
       \/ buf[d.pos] >= ATTR_FLAG
    THEN {}
    ELSE LET el   == element(d.page, tagNameForCode(d.page, buf[d.pos] % CONTENT_FLAG), <<>>)
             into == [d EXCEPT !.pos = @ + 1, !.n = @ + 1]
         IN IF buf[d.pos] < CONTENT_FLAG THEN {[el |-> el, at |-> into]}
            ELSE readContentUntilEnd(buf, into, el, depth)

\* `el`: the element, with the content that has been read.
readContentUntilEnd(buf, d, el, depth) ==
    LET go(next, more) == readContentUntilEnd(buf, [d EXCEPT !.pos = next], more, depth)
    IN IF d.pos > Len(buf) THEN {}
       ELSE CASE buf[d.pos] = END -> {[el |-> el, at |-> [d EXCEPT !.pos = @ + 1]]}
              [] buf[d.pos] = SWITCH_PAGE ->
                    UNION {readContentUntilEnd(buf, e, el, depth) : e \in SwitchPage(buf, d)}
              [] buf[d.pos] = STR_I ->
                    UNION {go(s.next, [el EXCEPT !.text = {Or(@, <<>>) \o s.value}]) :
                               s \in readCString(buf, d.pos + 1)}
              [] buf[d.pos] = OPAQUE ->
                    UNION {go(o.next, [el EXCEPT !.opaque = {o.value}]) :
                               o \in readOpaque(buf, d.pos + 1)}
              [] Len(el.kids) < MaxChildren /\ buf[d.pos] \notin {END, SWITCH_PAGE, STR_I, OPAQUE} ->
                    UNION {readContentUntilEnd(buf, kid.at, [el EXCEPT !.kids = Append(@, kid.el)],
                                               depth) : kid \in readTagElement(buf, d, depth + 1)}
              [] OTHER -> {}

\* Page switches before the root belong to no element.
RECURSIVE readRoot(_, _)
readRoot(buf, d) ==
    IF d.pos <= Len(buf) /\ buf[d.pos] = SWITCH_PAGE
    THEN UNION {readRoot(buf, e) : e \in SwitchPage(buf, d)}
    ELSE {root.el : root \in readTagElement(buf, d, 1)}

\* The version byte and three numbers, the last of which is the length of a string
\* table to skip.
decode(buf) ==
    UNION {UNION {UNION {readRoot(buf, [pos |-> t.next + t.value, page |-> AirSync, n |-> 0]) :
        t \in {m \in readMbUint(buf, c.next) : m.value <= Len(buf) - m.next + 1}} :
        c \in readMbUint(buf, id.next)} : id \in readMbUint(buf, 2)}
=============================================================================
