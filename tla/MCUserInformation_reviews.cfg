SPECIFICATION Spec
CONSTANTS
    p1 = p1
    p2 = p2
    p3 = p3
    alice = alice
    bob = bob
    decrediton = decrediton
    dcrd = dcrd
    PR <- Pulls
    Review <- Reviews
    User = alice
    Repo <- Repos
    NamedDecred <- WithDecred
    PullAuthor <- Authors
    PullRepo <- RepoNames
    PullNumber <- Numbers
    ReviewAuthor <- Reviewers
    SubmittedAt <- ReviewTimes
    Versions <- Rows
    Requests <- DecemberJanuary
    MaxFaults = 0
INVARIANTS
    AllReviewsReturned
