\* Two clients and one fault, or no client and two faults of the links and ends.
\* When every connection was made and lost there is nothing left to do.
SPECIFICATION StorySpec
CONSTANTS
    a = a b = b c1 = c1 c2 = c2
    MaxLink = 3
    Client = {c1, c2}
    Member = {a, b}
    Holder <- MCHolder
    NoSink = NoSink
    MaxHandle = 2
    MaxFaults = 2
CHECK_DEADLOCK FALSE
INVARIANT RelayTypeOK RoutesAreTrue
PROPERTY ServerComesBack
