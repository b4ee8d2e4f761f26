\* Nothing is lost and no category deleted: only a Subscribe and a revocation race.
SPECIFICATION SessionsSpec
CONSTANTS
    owner = owner
    member = member
    ch = ch
    c1 = c1
    c2 = c2
    c3 = c3
    Member <- MCMember
    Owner = owner
    Channel = {ch}
    Conn <- MCConn
    NoConn = NoConn
    Upgraded <- MCUpgraded
    Mishaps = {}
SYMMETRY Alike
CHECK_DEADLOCK FALSE
INVARIANT SubscribersCanSee
