SPECIFICATION FairSpec
CONSTANTS
    p1 = p1
    p2 = p2
    r1 = r1
    r2 = r2
    PR <- OnePull
    Repo <- OneRepo
    RepoOf <- OnlyPullInRepo
    OrgRepos <- ListOfOne
    Updater = {u1}
    Malformed = {}
    MaxRev = 2
    ReposPerPage = 2
    PullsPerPage = 1
    CommitsPerPage = 1
    ReviewsPerPage = 1
PROPERTIES
    EventuallyFresh
