SPECIFICATION FairSpec
CONSTANTS
    p1 = p1
    p2 = p2
    r1 = r1
    r2 = r2
    PR <- TwoPulls
    Repo <- TwoRepos
    RepoOf <- AllInLaterRepo
    OrgRepos <- ListOfTwo
    Updater = {u1}
    Malformed = {p1}
    MaxRev = 3
    ReposPerPage = 2
    PullsPerPage = 1
    CommitsPerPage = 1
    ReviewsPerPage = 1
INVARIANTS
    TypeOK
    StoredIsSnapshot
    ChildrenMatchHead
    WholeReposStored
PROPERTIES
    ImplementsMirror
    StepsComeToAnEnd
    UpdateReturns
    LeavesNoneUnknown
