SPECIFICATION FairSpec
CONSTANTS
    Ids = {c1, c2, c3}
    Handlers = {h1, h2}
    MaxFaults = 1
    MaxDeaths = 1
    MaxKills = 1
    MaxMoves = 1
INVARIANT TypeOK
INVARIANT StopHolds
PROPERTY Undisturbed
PROPERTY ComesUp
