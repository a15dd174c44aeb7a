SPECIFICATION Spec
CONSTANTS
    MaxElements = 20
    MaxChildren = 8
    MaxDepth = 4
    MaxAttendees = 2
    MaxWrites = 2
    Stored <- Items
    NewItem <- NewItems
    Edits <- EditsOf
INVARIANTS WireExact NoFalseNotice AttendeesLearn
PROPERTIES ChangeShows
CHECK_DEADLOCK FALSE
