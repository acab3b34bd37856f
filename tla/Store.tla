-------------------------------- MODULE Store --------------------------------
(***************************************************************************)
(* The relational database of src/database/cockroachdb: the pull request,  *)
(* commit and review tables and the gorm calls the server makes on them.   *)
(*                                                                         *)
(* A table is a function whose domain is the set of primary keys that have *)
(* a row.  Create and Save run in one transaction with the rows of the     *)
(* has-many associations (the pull request's commits and reviews), which   *)
(* gorm saves one after the other: each is written over the row that has   *)
(* its primary key, or inserted if there is none.                          *)
(***************************************************************************)
EXTENDS Naturals, Sequences

VARIABLES
    pulls,      \* pull requests, by url
    commits,    \* commits, by the primary key models.go gives them
    reviews     \* reviews, by id

dbVars == <<pulls, commits, reviews>>

StoreInit ==
    /\ pulls = << >>
    /\ commits = << >>
    /\ reviews = << >>

(***************************************************************************)
(* The primary keys.  A commit's is its pull request's url and nothing     *)
(* else; a review's is the id GitHub gave it, unique over all pull         *)
(* requests.                                                               *)
(***************************************************************************)
CommitKey(commit) == commit.url
ReviewKey(review) == <<review.url, review.id>>

(***************************************************************************)
(* EncodePullRequest: the row of the pull request, and its commits and     *)
(* reviews with the foreign key gorm sets in each.                         *)
(***************************************************************************)
PullRow(row) ==
    [updatedAt |-> row.updatedAt, additions |-> row.additions,
     mergedAt |-> row.mergedAt]
CommitRows(url, row) ==
    [i \in DOMAIN row.commits |-> [url |-> url, sha |-> row.commits[i]]]
(* Mutant: the review's columns are swapped.                                *)
ReviewRowsSwapped(url, row) ==
    [i \in DOMAIN row.reviews |-> [url |-> row.reviews[i], id |-> url]]

ReviewRows(url, row) ==
    [i \in DOMAIN row.reviews |-> [url |-> url, id |-> row.reviews[i]]]

(***************************************************************************)
(* The table after the rows of the sequence were saved one after the       *)
(* other: of the rows with the same key, the last one is there.            *)
(***************************************************************************)
SaveAll(table, rows, Key(_)) ==
    LET keys == {Key(rows[i]) : i \in DOMAIN rows}
        last(k) == CHOOSE i \in DOMAIN rows :
                      /\ Key(rows[i]) = k
                      /\ \A j \in DOMAIN rows : Key(rows[j]) = k => j <= i
    IN [k \in DOMAIN table \cup keys |->
            IF k \in keys THEN rows[last(k)] ELSE table[k]]

Write(url, row) ==
    /\ pulls' = [k \in DOMAIN pulls \cup {url} |->
                    IF k = url THEN PullRow(row) ELSE pulls[k]]
    /\ commits' = SaveAll(commits, CommitRows(url, row), CommitKey)
    /\ reviews' = SaveAll(reviews, ReviewRows(url, row), ReviewKey)

-----------------------------------------------------------------------------
(***************************************************************************)
(* NewPullRequest is gorm's Create: a row with the same url makes it fail, *)
(* and the transaction is rolled back.  UpdatePullRequest is gorm's Save:  *)
(* it overwrites the row, or creates it when none was there.               *)
(***************************************************************************)
(* Mutant: the associations of a row that could not be created stay.        *)
NewPullRequestNoRollback(url, row) ==
    IF url \in DOMAIN pulls
    THEN /\ commits' = SaveAll(commits, CommitRows(url, row), CommitKey)
         /\ UNCHANGED <<pulls, reviews>>
    ELSE Write(url, row)

NewPullRequest(url, row) ==
    IF url \in DOMAIN pulls THEN UNCHANGED dbVars ELSE Write(url, row)

UpdatePullRequest(url, row) == Write(url, row)

(* PullRequestByURL finds no row: ErrNoPullRequestFound.                    *)
PullRequestNotFound(url) == url \notin DOMAIN pulls
=============================================================================
