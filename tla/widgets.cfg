\* Two members, a giveaway or an event or reminders, two minutes, one crash or failure.
SPECIFICATION StorySpec
CONSTANTS
    a = a
    b = b
    g1 = g1
    e1 = e1
    Member <- MCMember
    Giveaway <- MCGiveaway
    Event <- MCEvent
    Nobody = Nobody
    MaxTime = 2
    MaxMoves = 1
    MaxFaults = 1
CHECK_DEADLOCK FALSE
INVARIANT WidgetsTypeOK WinnerStands ToldOnceAndInOrder
PROPERTY DueIsSettled
