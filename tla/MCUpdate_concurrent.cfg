SPECIFICATION Spec
CONSTANTS
    p1 = p1
    p2 = p2
    r1 = r1
    r2 = r2
    PR <- OnePull
    Repo <- OneRepo
    RepoOf <- OnlyPullInRepo
    OrgRepos <- ListOfOne
    Updater = {u1, u2}
    Malformed = {}
    MaxRev = 3
    ReposPerPage = 2
    PullsPerPage = 1
    CommitsPerPage = 1
    ReviewsPerPage = 1
SYMMETRY UpdaterSymmetry
INVARIANTS
    StoredIsSnapshot
    ChildrenMatchHead
    WholeReposStored
