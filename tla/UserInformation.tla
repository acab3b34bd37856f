--------------------------- MODULE UserInformation ---------------------------
(***************************************************************************)
(* Server.UserInformation of src/server/userinfo.go: the report of one     *)
(* user's merged pull requests and submitted reviews in a month.  It takes *)
(* one query for the pull requests, one for the reviews and one for the    *)
(* pull request of each review, without a transaction, while Updates go on *)
(* writing to the same tables (those of Store).                            *)
(*                                                                         *)
(* The columns of a row that never change (its author, repository, number) *)
(* are functions of its primary key here.  Times are in hours since 1970:  *)
(* in seconds the year 1, which an unreadable submitted_at becomes, does   *)
(* not fit TLC's integers.                                                 *)
(***************************************************************************)
EXTENDS Store, Integers, FiniteSets, SequencesExt

CONSTANTS
    PR,             \* the pull requests Updates may store
    Review,         \* the keys of their reviews: pairs of a pull request and an id
    User,           \* the user the reports are about
    Repo,           \* the names of repositories, without their organizations
    NamedDecred,    \* those that contain "decred"
    PullAuthor, PullRepo, PullNumber,   \* columns of a pull request
    ReviewAuthor, SubmittedAt,          \* columns of a review
    Versions,       \* Versions[p]: the rows Update may convert p to
    Requests,       \* the year and month of each report the client asks for
    MaxFaults       \* bound: queries that fail

ASSUME UserInformationAssumption ==
    /\ IsFiniteSet(PR)
    /\ Review \subseteq PR \X Nat
    /\ NamedDecred \subseteq Repo
    /\ PullRepo \in [PR -> Repo]
    /\ PullNumber \in [PR -> Nat]
    /\ PR \subseteq DOMAIN PullAuthor /\ PR \subseteq DOMAIN Versions
    /\ Review \subseteq DOMAIN ReviewAuthor
    /\ \A p \in PR : \A row \in Versions[p] :
          /\ row.reviews \in Seq(Nat) /\ row.commits \in Seq(Nat)
          /\ \A i \in DOMAIN row.reviews : <<p, row.reviews[i]>> \in Review
          /\ {row.updatedAt, row.additions, row.mergedAt} \subseteq Nat
    /\ SubmittedAt \in [Review -> Int]
    /\ Requests \in Seq([year : Nat \ {0}, month : 1 .. 12]) \ {<< >>}
    /\ MaxFaults \in Nat

VARIABLES
    pc,         \* where the request is
    asked,      \* the index in Requests of the report it is for
    prs,        \* dbUserPRs
    todo,       \* the review rows whose pull request is still to be looked up
    revs,       \* dbReviews
    stats,      \* RepoDetails of the last answer
    faults,     \* how many queries have failed
    \* History variables, which no action reads:
    found,      \* the review rows the query returned
    failed,     \* those whose lookup failed with a database error
    due,        \* what the round of reports must show
    shown       \* the pull requests the round's reports have shown

reportVars == <<pc, asked, prs, todo, revs, stats, faults>>
ghostVars == <<found, failed, due, shown>>
vars == <<dbVars, reportVars, ghostVars>>

-----------------------------------------------------------------------------
(***************************************************************************)
(* time.Date(y, m, d, 0, 0, 0, 0, time.UTC): m and d may be out of their   *)
(* ranges and carry over.  Unset is the zero time.Time, January 1 of 1.    *)
(***************************************************************************)
IsLeap(y) == y % 4 = 0 /\ (y % 100 # 0 \/ y % 400 = 0)
DaysToYear(y) ==
    365 * (y - 1970) + (y - 1) \div 4 - (y - 1) \div 100 + (y - 1) \div 400 - 477
DaysToMonth == <<0, 31, 59, 90, 120, 151, 181, 212, 243, 273, 304, 334>>

Date(y, m, d) ==
    LET year == y + (m - 1) \div 12
        month == ((m - 1) % 12) + 1
        leapDay == IF IsLeap(year) /\ month > 2 THEN 1 ELSE 0
    IN 24 * (DaysToYear(year) + DaysToMonth[month] + leapDay + d - 1)

Unset == Date(1, 1, 1)

(* Mutant: the month after December is January of the same year.            *)
PeriodSameYear(r) ==
    [start |-> Date(r.year, r.month, 0), end |-> Date(r.year, (r.month % 12) + 1, 0)]

(* startDate and endDate: from the last midnight of the month before to the *)
(* last midnight of the month itself.                                       *)
Period(r) ==
    [start |-> Date(r.year, r.month, 0), end |-> Date(r.year, r.month + 1, 0)]

Between(t, period) == period.start <= t /\ t <= period.end

-----------------------------------------------------------------------------
(* The rows that the queries by user and dates select.                      *)
PullsBetween(period) ==
    {p \in DOMAIN pulls :
        PullAuthor[p] = User /\ Between(pulls[p].mergedAt, period)}
ReviewsBetween(period) ==
    {k \in DOMAIN reviews :
        ReviewAuthor[k] = User /\ Between(SubmittedAt[k], period)}

(* Mutant: every repository is looked for under its full name.              *)
LookupRepoPrefixed(repo) == <<"decred/", repo>>

(* "TEMP CHECK TO MAKE SURE THAT IT REPO NAME MATCHES"                      *)
LookupRepo(repo) == IF repo \in NamedDecred THEN repo ELSE <<"decred/", repo>>

(* The rows that the lookup for a review may return: organizations may have *)
(* repositories of the same name, and of several rows one is returned.      *)
Matching(repo, number) ==
    {p \in DOMAIN pulls : PullRepo[p] = LookupRepo(repo) /\ PullNumber[p] = number}

-----------------------------------------------------------------------------
(***************************************************************************)
(* convertPRsandReviewsToUserInformation: the statistics of a repository   *)
(* are added to as the two lists are gone through.                         *)
(***************************************************************************)
NoStats(repo) == [repository |-> repo, prs |-> << >>, merge |-> 0, review |-> 0]

WithStats(s, repo, Add(_)) ==
    IF \E i \in DOMAIN s : s[i].repository = repo
    THEN [i \in DOMAIN s |-> IF s[i].repository = repo THEN Add(s[i]) ELSE s[i]]
    ELSE Append(s, Add(NoStats(repo)))

AddPull(s, pr) ==
    WithStats(s, pr.repo,
              LAMBDA e : [e EXCEPT !.prs = Append(@, pr.url), !.merge = @ + pr.additions])

(* Mutant: the loop over reviews does not look for the repository's entry.  *)
AddReviewAlone(s, rev) ==
    Append(s, [NoStats(rev.repo) EXCEPT !.review = rev.additions])

AddReview(s, rev) ==
    WithStats(s, rev.repo, LAMBDA e : [e EXCEPT !.review = @ + rev.additions])

RepoStats(ps, rs) == FoldLeft(AddReview, FoldLeft(AddPull, << >>, ps), rs)

-----------------------------------------------------------------------------
Init ==
    /\ StoreInit
    /\ pc = "idle"
    /\ asked = 1
    /\ prs = << >>
    /\ todo = {}
    /\ revs = << >>
    /\ stats = << >>
    /\ faults = 0
    /\ found = {}
    /\ failed = {}
    /\ due = {}
    /\ shown = {}

PeriodAsked == Period(Requests[asked])

(* From the first midnight of the round of reports to the last.             *)
Round == [start |-> Period(Requests[1]).start,
          end |-> Period(Requests[Len(Requests)]).end]

(***************************************************************************)
(* A client asks for a report, and PullRequestsByUserDates returns the     *)
(* rows in any order.                                                      *)
(***************************************************************************)
PullRequestsByUserDates ==
    /\ pc = "idle"
    /\ pc' = "reviews"
    /\ \E order \in SetToSeqs(PullsBetween(PeriodAsked)) :
          prs' = [i \in DOMAIN order |->
                    [url |-> order[i], repo |-> PullRepo[order[i]],
                     additions |-> pulls[order[i]].additions]]
    /\ due' = IF asked = 1 THEN PullsBetween(Round) ELSE due
    /\ shown' = IF asked = 1 THEN {} ELSE shown
    /\ UNCHANGED <<dbVars, asked, todo, revs, stats, faults, found, failed>>

(* ReviewsByUserDates: the query, then one lookup for each row.             *)
ReviewsByUserDates ==
    /\ pc = "reviews"
    /\ pc' = "lookup"
    /\ todo' = ReviewsBetween(PeriodAsked)
    /\ found' = todo'
    /\ UNCHANGED <<dbVars, asked, prs, revs, stats, faults, failed, due, shown>>

(* A review whose pull request is not found is left out.                    *)
LookUpPullRequest(k) ==
    /\ pc = "lookup"
    /\ k \in todo
    /\ todo' = todo \ {k}
    /\ LET url == reviews[k].url
           matching == Matching(PullRepo[url], PullNumber[url])
       IN IF matching = {}
          THEN UNCHANGED revs
          ELSE \E p \in matching :
                  revs' = Append(revs, [key |-> k, repo |-> PullRepo[url],
                                        additions |-> pulls[p].additions])
    /\ UNCHANGED <<dbVars, pc, asked, prs, stats, faults, ghostVars>>

Answer ==
    /\ pc = "lookup"
    /\ todo = {}
    /\ pc' = "answered"
    /\ stats' = RepoStats(prs, revs)
    /\ shown' = shown \cup {prs[i].url : i \in DOMAIN prs}
    /\ UNCHANGED <<dbVars, asked, prs, todo, revs, faults, found, failed, due>>

(* The local variables of the request are gone.                             *)
Forget ==
    /\ pc' = "idle"
    /\ prs' = << >>
    /\ revs' = << >>
    /\ found' = {}
    /\ failed' = {}

(* The client goes on with its next report, or begins a new round.          *)
NextReport ==
    /\ pc = "answered"
    /\ Forget
    /\ stats' = << >>
    /\ asked' = IF asked = Len(Requests) THEN 1 ELSE asked + 1
    /\ UNCHANGED <<dbVars, todo, faults, due, shown>>

-----------------------------------------------------------------------------
(***************************************************************************)
(* Database errors.  That of one of the two queries is the answer, and the *)
(* client asks again; that of a lookup is logged, and costs the review.    *)
(***************************************************************************)
Fault == faults < MaxFaults /\ faults' = faults + 1

QueryFails ==
    /\ Fault
    /\ pc \in {"idle", "reviews"}
    /\ Forget
    /\ UNCHANGED <<dbVars, asked, todo, stats, due, shown>>

LookupFails(k) ==
    /\ Fault
    /\ pc = "lookup"
    /\ k \in todo
    /\ todo' = todo \ {k}
    /\ failed' = failed \cup {k}
    /\ UNCHANGED <<dbVars, pc, asked, prs, revs, stats, found, due, shown>>

(***************************************************************************)
(* An Update writes a pull request with its reviews.  A report owes no     *)
(* longer a pull request whose row says something else about its merge.    *)
(***************************************************************************)
UpdateStores(p) ==
    /\ \E row \in Versions[p] :
          /\ IF PullRequestNotFound(p)
             THEN NewPullRequest(p, row) ELSE UpdatePullRequest(p, row)
          /\ due' = {q \in due : pulls'[q].mergedAt = pulls[q].mergedAt}
    /\ UNCHANGED <<reportVars, found, failed, shown>>

Next ==
    \/ PullRequestsByUserDates
    \/ ReviewsByUserDates
    \/ \E k \in Review : LookUpPullRequest(k) \/ LookupFails(k)
    \/ Answer
    \/ NextReport
    \/ QueryFails
    \/ \E p \in PR : UpdateStores(p)

Spec == Init /\ [][Next]_vars

-----------------------------------------------------------------------------
(***************************************************************************)
(* Properties.                                                             *)
(***************************************************************************)
PullInfo == [url : PR, repo : Repo, additions : Nat]
ReviewInfo == [key : Review, repo : Repo, additions : Nat]

(* Every variable is of its type, and no review row is without the row of   *)
(* its pull request, which the same transaction wrote.                      *)
TypeOK ==
    /\ DOMAIN pulls \subseteq PR
    /\ \A p \in DOMAIN pulls : pulls[p].additions \in Nat
    /\ DOMAIN reviews \subseteq Review
    /\ \A k \in DOMAIN reviews :
          /\ reviews[k] = [url |-> k[1], id |-> k[2]]
          /\ k[1] \in DOMAIN pulls
    /\ pc \in {"idle", "reviews", "lookup", "answered"}
    /\ asked \in DOMAIN Requests
    /\ prs \in Seq(PullInfo)
    /\ revs \in Seq(ReviewInfo)
    /\ todo \subseteq found
    /\ failed \subseteq found
    /\ found \subseteq DOMAIN reviews
    /\ due \subseteq DOMAIN pulls
    /\ shown \subseteq PR
    /\ faults \in 0 .. MaxFaults

(* A review found by the query is in the report when its repository's name  *)
(* contains "decred" and no lookup failed for it, whatever Updates wrote    *)
(* between the queries: there is a pull request for it to be looked up.  It *)
(* is there once.                                                           *)
FoundReviewsReported ==
    pc = "answered" =>
        \A k \in found \ failed : PullRepo[k[1]] \in NamedDecred =>
            \E i \in DOMAIN revs :
                /\ revs[i].key = k
                /\ \A j \in DOMAIN revs : revs[j].key = k => j = i

(* What a list has of a repository: the pull requests, in their order, and  *)
(* the sum of the additions.                                                *)
UrlsOf(repo, s) ==
    FoldLeft(LAMBDA urls, x : IF x.repo = repo THEN Append(urls, x.url) ELSE urls,
             << >>, s)

AdditionsOf(repo, s) ==
    SumFunctionOnSet([i \in DOMAIN s |-> s[i].additions],
                     {i \in DOMAIN s : s[i].repo = repo})

EntryOf(repo) ==
    [repository |-> repo, prs |-> UrlsOf(repo, prs),
     merge |-> AdditionsOf(repo, prs), review |-> AdditionsOf(repo, revs)]

(* Every repository with a pull request or a review has one entry, with all *)
(* of its pull requests and the sums of what they and the reviews added.    *)
StatsAddUp ==
    pc = "answered" =>
        LET repos == {s.repo : s \in ToSet(prs) \cup ToSet(revs)}
        IN /\ ToSet(stats) = {EntryOf(repo) : repo \in repos}
           /\ Len(stats) = Cardinality(repos)

(* A client that asks for one month after the other, over the end of a year *)
(* too, is shown every pull request that was stored as merged when it       *)
(* began and stayed so: between two months there is no gap.                 *)
MonthsLeaveNoGap ==
    pc = "answered" /\ asked = Len(Requests) => due \subseteq shown

-----------------------------------------------------------------------------
(* cockroachdb.go:108, "Get all Reviews from a user between the given       *)
(* dates": unless a query failed, all that are found are returned.          *)
AllReviewsReturned ==
    pc = "answered" /\ failed = {} =>
        \A k \in found : \E i \in DOMAIN revs : revs[i].key = k
=============================================================================
