SPECIFICATION FairSpec
CONSTANTS
    Gets = {g1}
    Posts = {p1, p2}
    Free = Free
    FaultKinds = {"watch", "pull", "runonce", "install"}
INVARIANT TypeOK
INVARIANT Unhealthy
PROPERTY Recovers
PROPERTY Answered
