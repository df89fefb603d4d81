CONSTANTS
    q1 = q1  q2 = q2
    home = home  other = other  plain = plain  broken = broken
    None = None
    Requests <- TwoRequests
    Versions <- AllVersions
    Tagless <- Plain
    Malformed <- Broken
    MaxEdits = 2
    MaxPurges = 2
SPECIFICATION FairSpec
INVARIANTS TypeOK OneParse QuietPurgeWorks
PROPERTIES EventuallyCached Answered
