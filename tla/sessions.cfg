\* Three connections, each of the owner or of the member.
SPECIFICATION SessionsSpec
CONSTANTS
    owner = owner
    member = member
    ch = ch
    c1 = c1
    c2 = c2
    c3 = c3
    Member <- MCMember
    Owner = owner
    Channel = {ch}
    Conn <- MCConn
    NoConn = NoConn
    Upgraded <- MCUpgraded
    Mishaps <- Everything
SYMMETRY Alike
CHECK_DEADLOCK FALSE
INVARIANT SessionsTypeOK LatestConnectionKept StaleSubscriptionsExplained
