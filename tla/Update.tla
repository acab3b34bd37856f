------------------------------- MODULE Update -------------------------------
(***************************************************************************)
(* Server.Update of src/server/update.go: the procedure that copies the    *)
(* pull requests of an organization from GitHub into the database.  Every  *)
(* "update" RPC runs it in the goroutine of its HTTP handler, so several   *)
(* may be running at once; each request to GitHub and each database        *)
(* transaction is a step of its own, and GitHub changes between any two of *)
(* them.  RateLimit, which only delays requests, has its own module.       *)
(***************************************************************************)
EXTENDS GitHub, Store, FiniteSets

CONSTANTS
    Updater,        \* the handler goroutines (at most rpcmaxclients)
    OrgRepos,       \* the organization's repositories, as GitHub lists them
    Malformed,      \* pull requests with a time that does not parse
    ReposPerPage, PullsPerPage, CommitsPerPage, ReviewsPerPage

ASSUME UpdateAssumption ==
    /\ OrgRepos \in Seq(Repo)
    /\ Malformed \subseteq PR
    /\ {ReposPerPage, PullsPerPage, CommitsPerPage, ReviewsPerPage}
          \subseteq Nat \ {0}

VARIABLES
    job,        \* job[u]: the local variables of u's Update
    \* History variables, which no action reads:
    owed,       \* owed[u]: what u must have stored when it returns nil
    moved       \* moved[u]: what left the pages u had still to list

ghostVars == <<owed, moved>>
vars == <<ghVars, dbVars, job, ghostVars>>

-----------------------------------------------------------------------------
(***************************************************************************)
(* The requests of src/api.  A request without a page parameter gets the   *)
(* first page.                                                             *)
(***************************************************************************)
PageOf(s, size, n) ==
    SubSeq(s, (n - 1) * size + 1, IF n * size < Len(s) THEN n * size ELSE Len(s))

(* FetchOrgRepos: one request, one page.                                    *)
OrgReposFetched == PageOf(OrgRepos, ReposPerPage, 1)

(* Mutants: pages counted from 0; the commits of page 1 only.               *)
PullsPageFromZero(repo, n) ==
    LET page == PageOf(recent[repo], PullsPerPage, n + 1)
    IN [i \in DOMAIN page |-> [pr |-> page[i], updatedAt |-> gh[page[i]].updatedAt]]

CommitsPageOne(p, n) ==
    IF n > 1 THEN << >>
    ELSE PageOf([i \in 1 .. gh[p].commits |-> i], CommitsPerPage, n)

(* What page n of a repository's listing says, as FetchPullsRequest reads   *)
(* it: the pull requests with the updated_at they have at that moment.      *)
PullsPage(repo, n) ==
    LET page == PageOf(recent[repo], PullsPerPage, n)
    IN [i \in DOMAIN page |-> [pr |-> page[i], updatedAt |-> gh[page[i]].updatedAt]]

(* FetchPullRequestCommits reads page after page.                           *)
CommitsPage(p, n) ==
    PageOf([i \in 1 .. gh[p].commits |-> i], CommitsPerPage, n)

(* FetchPullRequestReviews: one request, for page 1.                        *)
ReviewsFetched(p) ==
    PageOf([i \in 1 .. gh[p].reviews |-> i], ReviewsPerPage, 1)

-----------------------------------------------------------------------------
NoRow == [updatedAt |-> 0, additions |-> 0, mergedAt |-> 0,
          commits |-> << >>, reviews |-> << >>]

(* Mutant: a merged pull request is returned before updated_at is parsed.   *)
ConvertedMergedEarly(g) ==
    [NoRow EXCEPT !.updatedAt = IF g.mergedAt > 0 THEN 0 ELSE g.updatedAt,
                  !.additions = g.commits,
                  !.mergedAt = g.mergedAt]

(***************************************************************************)
(* convertAPIPullRequestToDbPullRequest.  The additions of a pull request  *)
(* are those of its commits: one each.                                     *)
(***************************************************************************)
Converted(g) == [NoRow EXCEPT !.updatedAt = g.updatedAt,
                              !.additions = g.commits,
                              !.mergedAt = g.mergedAt]

(***************************************************************************)
(* todo: the repositories left, the current one first; prs: the listing's  *)
(* entries left, the current one first; page: the page asked for next;     *)
(* row: dbPullRequest; dbPR: the updated_at of the row found, 0 for nil.   *)
(***************************************************************************)
NoJob == [pc |-> "idle", todo |-> << >>, page |-> 1, prs |-> << >>,
          row |-> NoRow, dbPR |-> 0, cancelled |-> FALSE]

Current(u) == Head(job[u].prs)
Url(u) == Current(u).pr

(* The next turn of the inner loop.                                         *)
NextPull(j) ==
    [j EXCEPT !.pc = "pr", !.prs = Tail(@), !.row = NoRow, !.dbPR = 0]

Running(u) == job[u].pc # "idle"

Init ==
    /\ GitHubInit
    /\ StoreInit
    /\ job = [u \in Updater |-> NoJob]
    /\ owed = [u \in Updater |-> {}]
    /\ moved = [u \in Updater |-> {}]

(* Update returns: its local variables are gone.                            *)
Return(u) ==
    /\ job' = [job EXCEPT ![u] = NoJob]
    /\ owed' = [owed EXCEPT ![u] = {}]
    /\ moved' = [moved EXCEPT ![u] = {}]

-----------------------------------------------------------------------------
(* A client calls the update method.                                        *)
Call(u) ==
    /\ ~Running(u)
    /\ job' = [job EXCEPT ![u].pc = "repos"]
    /\ UNCHANGED <<ghVars, dbVars, ghostVars>>

FetchOrgRepos(u) ==
    /\ job[u].pc = "repos"
    /\ job' = [job EXCEPT ![u].pc = "next", ![u].todo = OrgReposFetched]
    /\ owed' = [owed EXCEPT ![u] =
                  {p \in PR \ Malformed :
                      /\ IsOpened(p)
                      /\ RepoOf[p] \in ToSet(OrgReposFetched)}]
    /\ UNCHANGED <<ghVars, dbVars, moved>>

(***************************************************************************)
(* The head of the outer loop.  Cancellation is looked at here only: "Let  *)
(* the current repo finish before exiting on cancel."                      *)
(***************************************************************************)
NextRepo(u) ==
    /\ job[u].pc = "next"
    /\ job[u].todo # << >>
    /\ ~job[u].cancelled
    /\ job' = [job EXCEPT ![u].pc = "pulls", ![u].page = 1]
    /\ UNCHANGED <<ghVars, dbVars, ghostVars>>

Finish(u) ==
    /\ job[u].pc = "next"
    /\ job[u].todo = << >> \/ job[u].cancelled
    /\ Return(u)
    /\ UNCHANGED <<ghVars, dbVars>>

(* Mutant: page++ is forgotten.                                             *)
FetchPullsRequestSamePage(u) ==
    /\ job[u].pc = "pulls"
    /\ LET page == PullsPage(Head(job[u].todo), job[u].page)
       IN IF page = << >>
          THEN job' = [job EXCEPT ![u].pc = "pr"]
          ELSE job' = [job EXCEPT ![u].prs = @ \o page]
    /\ UNCHANGED <<ghVars, dbVars, ghostVars>>

(***************************************************************************)
(* FetchPullsRequest appends page after page until one is empty.           *)
(***************************************************************************)
FetchPullsRequest(u) ==
    /\ job[u].pc = "pulls"
    /\ LET page == PullsPage(Head(job[u].todo), job[u].page)
       IN IF page = << >>
          THEN job' = [job EXCEPT ![u].pc = "pr"]
          ELSE job' = [job EXCEPT ![u].prs = @ \o page, ![u].page = @ + 1]
    /\ UNCHANGED <<ghVars, dbVars, ghostVars>>

(* Mutant: the error of a conversion is returned.                           *)
FetchPullRequestGivesUp(u) ==
    /\ job[u].pc = "pr"
    /\ job[u].prs # << >>
    /\ IF Url(u) \in Malformed
       THEN Return(u)
       ELSE /\ job' = [job EXCEPT ![u].pc = "find", ![u].row = Converted(gh[Url(u)])]
            /\ UNCHANGED ghostVars
    /\ UNCHANGED <<ghVars, dbVars>>

(* Mutant: updated_at is taken from the listing, the rest from the answer.  *)
FetchPullRequestListed(u) ==
    /\ job[u].pc = "pr"
    /\ job[u].prs # << >>
    /\ job' = [job EXCEPT ![u] =
                  IF Url(u) \in Malformed
                  THEN NextPull(@)
                  ELSE [@ EXCEPT !.pc = "find",
                                 !.row = [Converted(gh[Url(u)]) EXCEPT
                                             !.updatedAt = Current(u).updatedAt]]]
    /\ UNCHANGED <<ghVars, dbVars, ghostVars>>

(***************************************************************************)
(* The head of the inner loop: FetchPullRequest and the conversion of its  *)
(* answer.  A pull request that does not convert is logged and skipped.    *)
(***************************************************************************)
FetchPullRequest(u) ==
    /\ job[u].pc = "pr"
    /\ job[u].prs # << >>
    /\ job' = [job EXCEPT ![u] =
                  IF Url(u) \in Malformed
                  THEN NextPull(@)
                  ELSE [@ EXCEPT !.pc = "find", !.row = Converted(gh[Url(u)])]]
    /\ UNCHANGED <<ghVars, dbVars, ghostVars>>

(* Mutant: a cancelled Update leaves the repository in the middle.          *)
RepoDoneCancelled(u) ==
    /\ job[u].pc = "pr"
    /\ job[u].prs = << >> \/ job[u].cancelled
    /\ job' = [job EXCEPT ![u].pc = "next", ![u].todo = Tail(@), ![u].prs = << >>]
    /\ UNCHANGED <<ghVars, dbVars, ghostVars>>

RepoDone(u) ==
    /\ job[u].pc = "pr"
    /\ job[u].prs = << >>
    /\ job' = [job EXCEPT ![u].pc = "next", ![u].todo = Tail(@)]
    /\ UNCHANGED <<ghVars, dbVars, ghostVars>>

(***************************************************************************)
(* PullRequestByURL, and the test on what it found: an unknown pull        *)
(* request is fetched and created; a known one is fetched and saved if its *)
(* row is later than its entry in the listing (the After of update.go:79). *)
(***************************************************************************)
NeedsUpdate(stored, listed) == stored > listed

PullRequestByURL(u) ==
    /\ job[u].pc = "find"
    /\ job' = [job EXCEPT ![u] =
                  IF PullRequestNotFound(Url(u))
                  THEN [@ EXCEPT !.pc = "commits", !.page = 1]
                  ELSE IF NeedsUpdate(pulls[Url(u)].updatedAt, Current(u).updatedAt)
                  THEN [@ EXCEPT !.pc = "commits", !.page = 1,
                                 !.dbPR = pulls[Url(u)].updatedAt]
                  ELSE NextPull(@)]
    /\ UNCHANGED <<ghVars, dbVars, ghostVars>>

(* Mutant: no break at the empty page.                                      *)
FetchPullRequestCommitsForever(u) ==
    /\ job[u].pc = "commits"
    /\ LET page == CommitsPage(Url(u), job[u].page)
       IN job' = [job EXCEPT ![u].row.commits = @ \o page,
                             ![u].page = IF page = << >> THEN @ ELSE @ + 1]
    /\ UNCHANGED <<ghVars, dbVars, ghostVars>>

FetchPullRequestCommits(u) ==
    /\ job[u].pc = "commits"
    /\ LET page == CommitsPage(Url(u), job[u].page)
       IN IF page = << >>
          THEN job' = [job EXCEPT ![u].pc = "reviews"]
          ELSE job' = [job EXCEPT ![u].row.commits = @ \o page, ![u].page = @ + 1]
    /\ UNCHANGED <<ghVars, dbVars, ghostVars>>

FetchPullRequestReviews(u) ==
    /\ job[u].pc = "reviews"
    /\ job' = [job EXCEPT ![u].pc = "save",
                          ![u].row.reviews = ReviewsFetched(Url(u))]
    /\ UNCHANGED <<ghVars, dbVars, ghostVars>>

(***************************************************************************)
(* The write.  Create's error (another Update created the row since it was *)
(* looked for) is logged, and the loop goes on.                            *)
(***************************************************************************)
Save(u) ==
    /\ job[u].pc = "save"
    /\ IF job[u].dbPR = 0
       THEN NewPullRequest(Url(u), job[u].row)
       ELSE UpdatePullRequest(Url(u), job[u].row)
    /\ job' = [job EXCEPT ![u] = NextPull(@)]
    /\ UNCHANGED <<ghVars, ghostVars>>

-----------------------------------------------------------------------------
(***************************************************************************)
(* Faults, of which there may be any number.                               *)
(***************************************************************************)
(* A request to GitHub fails.  Update returns the error, or panics if the   *)
(* request was for reviews: either way it is over, and nothing is undone.   *)
ApiError(u) ==
    /\ \/ job[u].pc \in {"repos", "pulls", "commits", "reviews"}
       \/ job[u].pc = "pr" /\ job[u].prs # << >>
    /\ Return(u)
    /\ UNCHANGED <<ghVars, dbVars>>

(* A database call fails: it is rolled back and logged, and Update goes on  *)
(* to the next pull request.                                                *)
DbError(u) ==
    /\ job[u].pc \in {"find", "save"}
    /\ job' = [job EXCEPT ![u] = NextPull(@)]
    /\ owed' = [owed EXCEPT ![u] = @ \ {Url(u)}]
    /\ UNCHANGED <<ghVars, dbVars, moved>>

(* The client goes away: net/http cancels the context of its request.       *)
Cancel(u) ==
    /\ Running(u)
    /\ ~job[u].cancelled
    /\ job' = [job EXCEPT ![u].cancelled = TRUE]
    /\ UNCHANGED <<ghVars, dbVars, ghostVars>>

(* The process dies and is started again: only the database is left.        *)
Crash ==
    /\ \E u \in Updater : Running(u)
    /\ job' = [u \in Updater |-> NoJob]
    /\ owed' = [u \in Updater |-> {}]
    /\ moved' = [u \in Updater |-> {}]
    /\ UNCHANGED <<ghVars, dbVars>>

-----------------------------------------------------------------------------
(***************************************************************************)
(* GitHub changes.  A pull request that goes to the front of a listing of  *)
(* which u has already read the first page is on none of the pages u reads *)
(* after that: moved records it, unless u has seen it already.             *)
(***************************************************************************)
SlipsPast(u, p) ==
    /\ job[u].pc = "pulls"
    /\ Head(job[u].todo) = RepoOf[p]
    /\ job[u].page > 1
    /\ \A i \in DOMAIN job[u].prs : job[u].prs[i].pr # p

Environment(p) ==
    /\ OpenPullRequest(p) \/ UpdateOnGitHub(p)
    /\ moved' = [u \in Updater |->
                    IF SlipsPast(u, p) THEN moved[u] \cup {p} ELSE moved[u]]
    /\ UNCHANGED <<dbVars, job, owed>>

Step(u) ==
    \/ FetchOrgRepos(u)
    \/ NextRepo(u)
    \/ Finish(u)
    \/ FetchPullsRequest(u)
    \/ FetchPullRequest(u)
    \/ RepoDone(u)
    \/ PullRequestByURL(u)
    \/ FetchPullRequestCommits(u)
    \/ FetchPullRequestReviews(u)
    \/ Save(u)

UpdaterFault(u) == ApiError(u) \/ DbError(u) \/ Cancel(u)

Next ==
    \/ \E u \in Updater : Call(u) \/ Step(u) \/ UpdaterFault(u)
    \/ \E p \in PR : Environment(p)
    \/ Crash

Spec == Init /\ [][Next]_vars

(***************************************************************************)
(* A goroutine that can take a step eventually takes it (so a request to   *)
(* GitHub ends), and clients go on calling update (the README:             *)
(* "periodically (every month)").  What the liveness properties need       *)
(* besides is a hypothesis of theirs: see PagesStopGrowing, Undisturbed    *)
(* and OnlyCutOff.  MaxRev makes GitHub fall silent in every behaviour of  *)
(* an instance; of the faults an instance has any number.                  *)
(***************************************************************************)
RunFairness == \A u \in Updater : WF_vars(Step(u))
RunSpec == Spec /\ RunFairness
FairSpec == RunSpec /\ \A u \in Updater : WF_vars(Call(u))

-----------------------------------------------------------------------------
(***************************************************************************)
(* Properties.                                                             *)
(***************************************************************************)
Entry == [pr : PR, updatedAt : Nat]
Row == [updatedAt : Nat, additions : Nat, mergedAt : Nat,
        commits : Seq(Nat), reviews : Seq(Nat)]
Job == [pc : {"idle", "repos", "next", "pulls", "pr", "find", "commits",
              "reviews", "save"},
        todo : Seq(Repo), page : Nat \ {0}, prs : Seq(Entry), row : Row,
        dbPR : Nat, cancelled : BOOLEAN]

(* The rows of the tables, each under the primary key its fields give.      *)
StoreTypeOK ==
    /\ DOMAIN pulls \subseteq PR
    /\ \A p \in DOMAIN pulls :
          pulls[p] \in [updatedAt : Nat, additions : Nat, mergedAt : Nat]
    /\ \A k \in DOMAIN commits :
          /\ commits[k] \in [url : PR, sha : Nat]
          /\ CommitKey(commits[k]) = k
    /\ \A k \in DOMAIN reviews :
          /\ reviews[k] \in [url : PR, id : Nat]
          /\ ReviewKey(reviews[k]) = k

(* Every variable, the database's tables included, holds what its column or *)
(* Go type can hold.                                                        *)
TypeOK ==
    /\ GitHubTypeOK
    /\ StoreTypeOK
    /\ job \in [Updater -> Job]
    /\ owed \in [Updater -> SUBSET PR]
    /\ moved \in [Updater -> SUBSET PR]

(* r may have been read from the pull request that is g now: the commits r  *)
(* shows fit in the time up to r.updatedAt, those it misses in the time     *)
(* since, and it shows the merge if that was not later.                     *)
IsSnapshotOf(r, g) ==
    /\ r.updatedAt \in 1 .. g.updatedAt
    /\ r.additions \in 1 .. g.commits
    /\ r.additions <= r.updatedAt
    /\ g.commits - r.additions <= g.updatedAt - r.updatedAt
    /\ r.mergedAt = IF g.mergedAt <= r.updatedAt THEN g.mergedAt ELSE 0

(* However Updates and their failures interleave, every row is the pull     *)
(* request as it once was on GitHub, all columns from the same moment: no   *)
(* row mixes the listing's answer with a later one, or two Updates'.        *)
StoredIsSnapshot ==
    \A p \in DOMAIN pulls : IsSnapshotOf(pulls[p], gh[p])

(* A pull request and its children are written together, and the children   *)
(* were fetched after it: its commit row is there and no older than the     *)
(* additions it shows, and no commit or review row is without its pull      *)
(* request, whichever of two Updates won and whichever write failed.  When  *)
(* the row shows the pull request as it is now, so do its reviews (of the   *)
(* one page fetched).                                                       *)
ChildrenMatchHead ==
    /\ \A p \in DOMAIN pulls :
          \E k \in DOMAIN commits :
             commits[k].url = p /\ commits[k].sha >= pulls[p].additions
    /\ \A p \in DOMAIN pulls : pulls[p].updatedAt = gh[p].updatedAt =>
          \A i \in 1 .. gh[p].reviews :
             i <= ReviewsPerPage => <<p, i>> \in DOMAIN reviews
    /\ \A k \in DOMAIN commits : commits[k].url \in DOMAIN pulls
    /\ \A k \in DOMAIN reviews : reviews[k].url \in DOMAIN pulls

(* "Let the current repo finish before exiting on cancel": between two      *)
(* repositories, where alone Update returns nil or the context's error,     *)
(* every pull request of the repositories done that was open when Update    *)
(* began is stored, but for those the database refused and those that       *)
(* slipped past the listing.                                                *)
WholeReposStored ==
    \A u \in Updater : job[u].pc = "next" =>
        \A p \in owed[u] \ moved[u] :
            RepoOf[p] \in ToSet(job[u].todo) \/ p \in DOMAIN pulls

(* update.go:78, "Only update if dbPR is found and Uqpdated is more recent  *)
(* than what is currently stored": no write takes a row back to an earlier  *)
(* updated_at, and no row goes.  It takes Updates that do not overlap: an   *)
(* answer fetched before another Update's write may be older than that.     *)
NeverRegresses ==
    [][\A p \in DOMAIN pulls :
          /\ p \in DOMAIN pulls'
          /\ pulls'[p].updatedAt >= pulls[p].updatedAt]_pulls

(***************************************************************************)
(* The work an Update has left, compared part by part, the first one       *)
(* first: the repositories; how far it is with the one it is at; the       *)
(* entries of its listing, to be read or to be gone through; how far it is *)
(* with the current one; the commits to be read.                           *)
(***************************************************************************)
Unread(n, size, page) == IF (page - 1) * size < n THEN n - (page - 1) * size ELSE 0

ListingUnread(u) ==
    Unread(Len(recent[Head(job[u].todo)]), PullsPerPage, job[u].page)
CommitsUnread(u) == Unread(gh[Url(u)].commits, CommitsPerPage, job[u].page)

Stage == [idle |-> 0, repos |-> 2, next |-> 1, pulls |-> 1, pr |-> 1,
          find |-> 1, commits |-> 1, reviews |-> 1, save |-> 1]
RepoStage == [idle |-> 0, repos |-> 0, next |-> 2, pulls |-> 1, pr |-> 0,
              find |-> 0, commits |-> 0, reviews |-> 0, save |-> 0]
PullStage == [idle |-> 0, repos |-> 0, next |-> 0, pulls |-> 0, pr |-> 4,
              find |-> 3, commits |-> 2, reviews |-> 1, save |-> 0]

WorkLeft(u) ==
    <<Stage[job[u].pc],
      Len(job[u].todo),
      RepoStage[job[u].pc],
      IF job[u].pc = "pulls" THEN ListingUnread(u) ELSE Len(job[u].prs),
      PullStage[job[u].pc],
      IF job[u].pc = "commits" THEN CommitsUnread(u) ELSE 0>>

Less(s, t) ==
    \E i \in DOMAIN s : s[i] < t[i] /\ \A k \in 1 .. i - 1 : s[k] = t[k]

PagesGrow == \E p \in PR : gh'[p].commits > gh[p].commits

(* Every step of an Update, a failed one too, leaves it less to do, and     *)
(* only pull requests opened and commits pushed on GitHub give it more:     *)
(* no page is asked for twice, and nothing but pages that grow as fast as   *)
(* they are read keeps an Update from returning.                            *)
StepsComeToAnEnd ==
    [][\A u \in Updater : Running(u) =>
          \/ Less(WorkLeft(u)', WorkLeft(u))
          \/ WorkLeft(u)' = WorkLeft(u) /\ ~Step(u)
          \/ PagesGrow]_vars

(* An Update that is running returns, whatever fails and whatever else      *)
(* changes on GitHub, if the pages it reads stop growing: FetchPullsRequest *)
(* and FetchPullRequestCommits end only at an empty page.                   *)
PagesStopGrowing == <>[][~PagesGrow]_gh

UpdateReturns ==
    PagesStopGrowing => \A u \in Updater : Running(u) ~> ~Running(u)

(* The database as a mirror of GitHub.                                      *)
RemoteVersion == [p \in PR |-> gh[p].updatedAt]
StoredVersion ==
    [p \in PR |-> IF p \in DOMAIN pulls THEN pulls[p].updatedAt ELSE 0]
Wanted == {p \in PR \ Malformed : RepoOf[p] \in ToSet(OrgReposFetched)}

M == INSTANCE Mirror WITH Item <- PR, remote <- RemoteVersion,
                          stored <- StoredVersion

(* As long as one Update runs at a time, each of its steps (and of GitHub,  *)
(* and each fault) is one step of Mirror or leaves both versions alone.     *)
ImplementsMirror == M!Safety

(* From some time on there are no faults and GitHub is quiet; or the only   *)
(* fault is that the client of an Update goes away, or is cut off, while    *)
(* the Update is at some repository.                                        *)
Undisturbed == <>[][\E u \in Updater : Call(u) \/ Step(u)]_vars
OnlyCutOff ==
    <>[][\E u \in Updater :
            \/ Call(u) \/ Step(u)
            \/ Cancel(u) /\ job[u].pc \notin {"repos", "next"}]_vars

(* With clients that keep calling update, the mirror leaves no wanted pull  *)
(* request unknown for ever: once Updates run undisturbed they make up for  *)
(* all requests and writes that failed, Updates that were cancelled,        *)
(* crashes, and pull requests that slipped past a listing.                  *)
LeavesNoneUnknown == Undisturbed => M!NoneUnknown

-----------------------------------------------------------------------------
(***************************************************************************)
(* What the repository says of Update and the code does not do.            *)
(***************************************************************************)

(* README: the tracker updates "all pull requests ... that have been        *)
(* completed or updated": once Updates run undisturbed, the rows become     *)
(* what GitHub shows.                                                       *)
EventuallyFresh ==
    Undisturbed =>
        \A p \in Wanted :
            [](IsOpened(p) => <>(StoredVersion[p] = RemoteVersion[p]))

(* README: "code stats be updated for all repos that Decred controls", by   *)
(* Updates that are cancelled before they are through as well: those of     *)
(* ghctl are after ten seconds (server.go:101), each after the repository   *)
(* it is at, and the next begins with the first one again.                  *)
CancelledUpdatesAddUp == OnlyCutOff => M!NoneUnknown

(* README: "all information concerning pullrequests, commits, and reviews". *)
(* Of a row that shows the pull request as it is, every commit is there.    *)
CommitsComplete ==
    \A p \in DOMAIN pulls : pulls[p].updatedAt = gh[p].updatedAt =>
        \A i \in 1 .. gh[p].commits :
            \E k \in DOMAIN commits : commits[k] = [url |-> p, sha |-> i]
=============================================================================
