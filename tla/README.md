# A formal model of github-tracker

github-tracker copies the pull requests, commits and reviews of a GitHub
organization into a relational database (CockroachDB) and answers questions
about them over JSON-RPC. This directory holds TLA+ models of the program, the
TLC configurations that check them on small instances, and proofs, checked by
TLAPS, of theorems that hold for every value of the constants.

    tlc -config MCUpdate_single.cfg MCUpdate      # one of the runs below
    tlapm UpdateProofs.tla                        # the proofs of one module

`PROJECT.json` lists the runs, the mutants that show each property can fail, the
source lines every definition stands for, the hazards and the findings.

## 1. The system

| part | source | its state | its operations | talks to |
|---|---|---|---|---|
| Update procedure | `server/update.go`, `convert.go`, `pr.go` | local variables of one goroutine per call: repositories left, listing, row in hand | `Update` | API client (calls), database (calls); called by the RPC method |
| GitHub API client | `api/*.go` | the HTTP client | `FetchOrgRepos`, `FetchPullsRequest`, `FetchPullRequest`, `FetchPullRequestCommits`, `FetchPullRequestReviews` | GitHub (HTTP), rate limiter |
| Rate limiter | `api/ratelimit.go` | the cached quota, a mutex; shared by all goroutines | `RateLimit` | GitHub |
| Database | `database/*` | tables `pullrequests`, `commits`, `reviews` | `NewPullRequest`, `UpdatePullRequest`, `PullRequestByURL`, `Setup`, `Close`, queries by user and dates | CockroachDB, through gorm |
| JSON-RPC server | `jsonrpc/server.go`, `methods.go` | throttle counter, WaitGroup, listeners | `NewServer`, the handler, `Stop` | clients; calls Update and UserInformation |
| Process life | `github-tracker.go`, `signal.go`, `config.go`, `log.go` | the context, the signal channels, the log rotator | `main`, `run`, `shutdownListener`, `loadConfig` | starts and stops all others |
| TLS key pair, listeners | `github-tracker.go` | two files | `openRPCKeyPair`, `generateRPCKeyPair`, `makeListeners` | file system |
| User information | `server/userinfo.go`, `convert.go`, queries | local variables of one goroutine per call | `UserInformation` | database; called by the RPC method |
| ghctl | `cmd/ghctl` | none | a command-line client | JSON-RPC server |

What is hard in it:

* **A moving source.** GitHub changes between any two requests. A repository's
  listing is sorted by update time and shifts while it is read page by page; what
  is decided on the listing is applied to an answer fetched later.
* **Concurrent updates.** Each `update` RPC runs `Update` in its own handler
  goroutine. Up to `rpcmaxclients` run at once on the same rows, without a lock
  and with a read-then-write that is not one transaction.
* **Failure in the middle.** A request may fail (the error is returned, or raised
  as a panic for reviews), a write may fail (it is logged and skipped), the
  client may go away, the process may die. Only the tables survive.
* **A shared quota** that is counted before it is spent, loaded by whoever finds it
  used up, with the mutex held through the sleep.
* **Reports without a transaction.** A report is one query for the pull requests, one
  for the reviews and one more for each review; Updates write to the same rows
  in between.
* **Two files that belong together.** The certificate and the key are written one
  after the other, each emptied first. What a crash leaves is what every later start
  finds.
* **The shutdown.** Signals at any moment of the start, a WaitGroup that handlers
  join late, methods that do not see the shutdown, and a database that must
  be closed last.

What makes each part correct is stated as properties of the modules below; the
list of hazards in `PROJECT.json` says which property guards which line.

## 2. The modules

| module | models | kind |
|---|---|---|
| `GitHub` | pull requests and listings of one organization | environment |
| `Store` | the tables and the gorm calls on them | component |
| `Update` | `Server.Update` over `GitHub` and `Store` | component and composition |
| `Mirror` | what the database promises of a pull request | abstract specification |
| `RateLimit` | `Client.RateLimit` and the requests sent after it | component |
| `RPCServer` | listeners, handlers, throttle, `Stop` | component (no specification of its own) |
| `KeyPair` | the files of the TLS key pair and `openRPCKeyPair` | component (no specification of its own) |
| `Tracker` | `main`, `run`, signals, crashes and restarts, over `RPCServer` and `KeyPair` | component and composition |
| `UserInformation` | reports over `Store`, with Updates writing | component and composition |
| `MCUpdate`, `MCTracker`, `MCUserInformation` | constants and symmetry for TLC | model checking |
| `StoreProofs`, `UpdateProofs`, `ChildrenProofs`, `ListingProofs`, `RateLimitProofs`, `KeyPairProofs`, `TrackerProofs`, `UserInformationProofs` | theorems | proofs |

### GitHub

A pull request is `[updatedAt, commits, reviews, mergedAt]`. Opening it, pushing
a commit, submitting a review and merging it are its events; each sets
`updatedAt` to the number of events so far (GitHub's clock, reduced to what
comparisons can tell), and brings it to the front of `recent[r]`, its repository's
listing. Commits and reviews are numbers in the order they were made. Nothing is
assumed about when GitHub changes.

### Store

A table is a function on the primary keys that have a row. The keys are those of
`models.go`: a pull request's url; a commit's pull request url alone (so all
commits of a pull request have the same key); a review's id. `SaveAll` is
gorm's save of a has-many association: one row after the other, each over the
row with its key. `NewPullRequest` is `Create`, which fails and is rolled back when
the row exists; `UpdatePullRequest` is `Save`. Columns nobody compares (texts,
authors, states, deletions, ...) are left out; `additions` is kept, one for each
commit, because it ties a row to the commits it was computed from.

### Update

`job[u]` holds the local variables of goroutine `u` and where it is:

    idle --Call--> repos --FetchOrgRepos--> next --NextRepo--> pulls (one step per page)
    pulls --> pr --FetchPullRequest--> find --PullRequestByURL--> commits (a step per page)
    commits --> reviews --> save --Save--> pr        pr --RepoDone--> next --Finish--> idle

One step is one request to GitHub or one database transaction, with the local
computation up to the next one; that is where other goroutines and GitHub
interleave. Each early return, `continue` and panic of update.go is a step:
`ApiError` (return or panic), `DbError` (log and `continue`), a row that does not
convert (`Malformed`, inside `FetchPullRequest`), `Cancel` (the request's context;
looked at by `NextRepo` and `Finish` only) and `Crash`. The faults are not counted:
in every instance any of them may happen any number of times.

The two branches of update.go (unknown pull request, known one) fetch the same
things in the same order; the model has them once, and `dbPR` remembers which of
`Create` and `Save` comes at the end.

`owed` and `moved` are history variables: what an Update must have stored when it
returns nil (what was open when it asked for the repositories), and what slipped
past the pages it had read. No action reads them.

The listing's clock may be compared with the answer's because both are GitHub's
`updated_at`. A url in the listing stands for the pull request it names.

### Mirror

The abstract specification: each item has a version (`remote`), and a copy with
the version it had at some earlier time (`stored`). `Change` makes a new
version; `Copy` stores any version that exists or existed and is not older than
the one there. `Spec` adds that no wanted item stays unknown for ever. It does
*not* say the copy follows the changes, because the program does not do that (see
the findings). `Update` implements it with `remote` the `updatedAt` on GitHub and
`stored` the `updatedAt` of the row.

### RateLimit

`Client.RateLimit` with its mutex (`holder`), the cache, the answer in hand and
GitHub's own quota. A caller counts (`TakeCached` or `LoadQuota`), lets go of
the mutex and sends later (`Send`), so the quota GitHub reports may be promised
already. `LoadFails` is each `return ApiRateLimitRule{}, err`; all callers ignore
it. `OtherReply` is an answer that decodes without the fields. `ResetWindow` is
GitHub's, and `Sleep`/`Wake` end by the local clock, whenever that is.
`FetchOrgRepos` calls `RateLimit` twice for its one request (`need`).

### RPCServer and Tracker

`conn[c]` is the handler of one request, from the accepted connection through the
throttle (`Request`, which is one `atomic.AddInt64`), the turn-away, `wg.Add`, the
method, and the deferred calls. The protocol is HTTP/2 over TLS, and each stream
runs in a handler of its own as each connection does; a stream is a connection of
the model. A request the throttle turned away (429) is answered before "Connection:
close" is set, so its connection may carry another one, whether the listeners are still
open or not (`Leave`). `HandlerAlone` has the steps of a handler that runs by itself,
`HandlerWaits` those for which it waits for the client or a method. `wg.Wait` is two steps, being released and waking up; waking up to a
counter above zero is the panic of `sync.WaitGroup`. The windows *within* a
WaitGroup operation are left out.

`Tracker` adds the process: `run` step by step with its failures and exit status,
its deferred calls in their order, `shutdownListener`, the goroutine that cancels
the context, and the log rotator, which is nil until `loadConfig` has come to
`initLogRotator` (the unsynchronized read of it by the signal goroutine returns
the value at that moment). Interrupts come at any moment, before `signal.Notify` as
well. `early` is a history variable: the handlers in the WaitGroup when
`Stop` began to wait.

The channel for a remote shutdown is never written (no method sets `stop`), so it
is not in the model. The goroutines of `Update` and the ones of `RPCServer` are
not composed in one state: `MethodEnds` stands for a method that ends somehow, if it
ends; no fairness is put on it.

`Crash` kills the process at any moment and `Restart` starts it again, after a crash
or an exit: everything in memory is as at the first start (`MemoryLost`), the files
are as they were left. What a restart does to the tables is in `Update` (`Crash`
there).

### KeyPair

Of each file only what `LoadX509KeyPair` can make of it is kept: absent, torn (emptied,
or written in part) or whole, with the number of the pair it holds. The pair generated
by the n-th start is n. `ioutil.WriteFile` is two steps, emptying the file and writing
it; each may fail, and the process may die between them. A new pair is generated only
if there is no key file, whatever there is of a certificate; a key that could not
be written leaves its torn file behind, and the certificate is removed, if it can be.
`MakeListeners` opens any non-empty set of the configured addresses (one that cannot be
listened on is skipped); `NoRPCServer` is every other end of `startJSONRPCServer`.

### UserInformation

A report is `PullRequestsByUserDates`, `ReviewsByUserDates` (the query; `todo` are its
rows), one `LookUpPullRequest` for each of them, in any order, as the query has none,
and `Answer`, which adds up `RepoDetails` (`AddPull`, `AddReview`: the two loops of
`convertPRsandReviewsToUserInformation` as folds). `QueryFails` is the early return for
an error of one of the two queries, `LookupFails` the `continue` of cockroachdb.go:140 for a
database error, and a lookup that finds nothing takes the same `continue`.
`UpdateStores` is what an Update does to the tables, any pull request becoming any of its
`Versions`, and may come between any two queries.

`Date` is `time.Date` with the months and days that overflow; times are in hours since
1970 (in seconds the year 1, which an unreadable `submitted_at` becomes, does not fit
TLC's integers), and BETWEEN includes both ends. The author, repository and number of a
row never change, so they are functions of its key. The organization is an
argument that the code only echoes: no query uses it, and the model has two
organizations with a repository of the same name. `found`, `failed`, `due` and `shown`
are history variables.

## 3. What is checked

All runs that pass, with what their bounds let happen:

| run | configuration | properties | bounds |
|---|---|---|---|
| `single` | one updater, two repositories, two pull requests in the second, one of them malformed | `TypeOK`, `StoredIsSnapshot`, `ChildrenMatchHead`, `WholeReposStored`, `ImplementsMirror`, `StepsComeToAnEnd`, `UpdateReturns`, `LeavesNoneUnknown` | `MaxRev` 3 and pages of one: the listing shifts by one while it is read, a pull request is listed twice or hidden, Updates meet the malformed one before the other, and both branches of Update are taken; any number of faults, a cancellation in the middle of a repository among them |
| `concurrent` | two updaters, one pull request | `StoredIsSnapshot`, `ChildrenMatchHead`, `WholeReposStored` | `MaxRev` 3, any number of faults: a race of two creates with failures, cancellations and crashes in it |
| `ratelimit` | three callers, quota 3, one failed load | `TypeOK`, `NoOvercommit`, `FewRejected`, `CallerProceeds` | several windows; two callers in flight while the third loads |
| `server` | three clients, one listener, threshold 2, two interrupts, two starts | `TypeOK`, `ThrottleHolds`, `SlotsAccounted`, `RunningMethodsHaveDB`, `CertificateLasts`, `OnlyKeyWriteLocksOut`, `InterruptEndsProcess` | one client more than the threshold; requests before, during and after each step of the shutdown; a second start over whatever the first one left of the key pair |
| `report` | one client, a December and the January after it, three pull requests, four reviews | `TypeOK`, `FoundReviewsReported`, `StatsAddUp`, `MonthsLeaveNoGap` | a review made at the midnight both months have, a merge in the last hours of December, a review without a time, two pull requests of the same repository name and number; two queries fail; every row is rewritten at any moment |

The properties, in words:

* `StoredIsSnapshot`: every row is the pull request as it once was, all columns from
  the same moment.
* `ChildrenMatchHead`: the tables agree with each other. Commit and review rows have
  their pull request; the commit row is no older than the additions shown; and the
  reviews of a row that is up to date are there.
* `WholeReposStored`: whenever `Update` is between two repositories (where alone it
  may be cancelled), everything that was open at the start in the repositories done
  is stored, but for what the database refused or what slipped past the listing.
* `ImplementsMirror`: safety of `Mirror`, whose `Copy` never goes back. That a row's
  `updated_at` never does (`NeverRegresses`) follows, and holds while Updates do not
  overlap; `overwrite` shows a row that goes back when they do.
* `StepsComeToAnEnd`: every step of an Update, a failed one too, leaves it less to do
  (`WorkLeft`, compared part by part); only pages that grow on GitHub give it more.
* `UpdateReturns`: an Update that runs returns, if from some time on the pages it reads
  do not grow (`PagesStopGrowing`). Pull requests opened, or commits pushed, as fast
  as they are read keep it in a page loop for ever.
* `LeavesNoneUnknown`: liveness of `Mirror`, if from some time on there are no faults and
  GitHub is quiet (`Undisturbed`). Whatever failed or slipped past before is made up
  for. That Updates do get their peace is the hypothesis, and nothing in the code
  sees to it; `cancelled` is what becomes of ones that never do.
* `NoOvercommit`, `FewRejected`: what was counted and not sent, what can still be
  counted and what was refused exceeds GitHub's quota by at most one for
  each other caller and each failed load.
* `CallerProceeds`: a caller waiting for the mutex gets to send.
* `ThrottleHolds`, `SlotsAccounted`: at most `Threshold` requests are let through, and
  both counters are exact, through failures and panics.
* `RunningMethodsHaveDB`: the database is open for every method that the shutdown
  waits for.
* `CertificateLasts`: every tracker that comes to serve has the pair of all those before
  it, and it is in the files: a client that copied the certificate needs no other.
* `OnlyKeyWriteLocksOut`: files that the next start can use become unusable only while
  the key is written (or the certificate taken back after that failed). The other half
  is not so: a crash within that write locks out every later start until somebody
  removes the key file.
* `InterruptEndsProcess`: once a signal is received the process ends, if each request
  being served does (`RequestsEnd`): its client sends the body and takes the answer,
  and its method returns.
* `FoundReviewsReported`: a review the query found is in the report once, if its repository
  is named decred and its lookup did not fail, whatever Updates wrote meanwhile.
* `StatsAddUp`: one entry for each repository, with the sums of what its pull requests
  and reviews added.
* `MonthsLeaveNoGap`: a client that asks for adjacent months is shown every pull request
  that was merged in them when it began and whose row kept its date.

The Tracker runs do not check for deadlock: the process really stops. In `Update`,
`RateLimit` and `UserInformation` there is always a next step, and deadlock is checked.

**Bounds.** `MaxRev` bounds the events of one pull request, `MaxLeaked` the loads of the
quota that fail between two answers, `MaxInterrupts` the signals, `MaxStarts` the starts,
`MaxFaults` the queries of a report that fail, `Requests` the months a client asks for
before it begins again. They are guards of environment actions and of faults only
(`LoadFails` has `leaked < MaxLeaked`); no other action of the program has one. Two
pull requests are the least with which the listing can shift, two updaters the least
that race, pages of one entry the least that need a second page. `MaxRev` also silences
GitHub in every behaviour of an instance, so there `PagesStopGrowing` always
holds, and that pages do grow without end is nothing `UpdateReturns` can meet. What an Update does
while they grow is said by `StepsComeToAnEnd`, a property of single steps, and for
any `MaxRev` by its proof. `concurrent` and `overwrite` take the
two updaters as interchangeable (`SYMMETRY`); neither checks liveness.

**Fairness.** `RunFairness`: a goroutine of Update that can take a step takes one. That is
the Go scheduler, and requests that end: the HTTP client of api.go:23 has no timeout, so
it is an assumption about GitHub and the network, not something the code sees to.
`FairSpec` of Update adds clients that go on calling `update`, as the README of the
repository says they do every month. All else the liveness properties of Update need is
a hypothesis in their statement (`PagesStopGrowing`, `Undisturbed`, `OnlyCutOff`):
GitHub that goes on changing and faults that go on happening are in `FairSpec`'s
behaviours as far as the bounds let them be, and the properties claim nothing of those.

`FairSpec` of RateLimit asks for weak fairness of each step of a caller, and strong
fairness of `Acquire` (`sync.Mutex` hands over in order of arrival after 1 ms of
waiting) and of `RequestQuota` (GitHub, asked again and again, answers again
and again); windows end.

`FairSpec` of Tracker has the goroutines that can run by themselves: `run`, the signal
goroutine, the listeners, and of a handler the steps of `Alone`. Those in which a handler waits for
its client or a method (`Waits`) have none, for `server.go:314` reads the body with no limit of
time over HTTP/2 (ReadTimeout ends with the headers there) and `server.go:368` writes the
answer with no WriteTimeout. `InterruptEndsProcess` has `RequestsEnd` for a
hypothesis: the client does its part, and Update returns, which is `UpdateReturns` with
what that assumes. A client that stalls, or pages that never stop growing, hold up the
shutdown for ever. The short 401 and 429 answers are taken to be written without waiting.

### Where the program does not do what it says

Seven runs check one property each and find it violated; each is a statement of
the repository's own README or comments.

| run | statement | what happens |
|---|---|---|
| `stale` (`EventuallyFresh`) | README 13-14, update.go:78 | the comparison in update.go:79 is inverted: a stored pull request is not refreshed |
| `overwrite` (`NeverRegresses`, two updaters) | update.go:78 | an older answer is written over a newer one |
| `commits` (`CommitsComplete`) | README 6-7 | the primary key of commits keeps one per pull request |
| `stop` (`StopBlocks`) | server.go:173 | a handler joins the WaitGroup after Wait was released |
| `cancelled` (`CancelledUpdatesAddUp`) | server.go:99-100, README 12-13 | ReadTimeout cancels every Update of ghctl after ten seconds; each stops after the repository it is at, and the next begins with the first one again |
| `reviews` (`AllReviewsReturned`) | cockroachdb.go:108 | reviews in repositories not named decred are found and left out |
| `logger` (`LoggersInitialized`) | log.go:37 | configuration errors and early signals are logged through a nil rotator |

More of the kind have no run:

* a pull request that moves to a page of the listing already read is missed, though
  Update returns nil (README 12-14 of the repository); `WholeReposStored` excepts it,
  and `LeavesNoneUnknown` says that a later Update finds it;
* `reviews.go` requests only the first page of a pull request's reviews and `org.go` only
  the first of the organization's repositories, though more may exist (GitHub returns at
  most 100 per page): those after it are never stored. The properties speak of the page
  requested (`ReviewsPerPage` in `ChildrenMatchHead`, `Wanted` in `LeavesNoneUnknown`);
* the last midnight of a month is in two reports, and a month's last day is in
  the next month's: nothing says what a month of the report is, and `MonthsLeaveNoGap`
  only says that there is no gap;
* a pull request that is not merged is stored with a `merged_at` of 0, and a report
  for January 1970 shows it;
* a start that fails for a value in its configuration, its key pair or its listeners
  exits with status 0.

`stale` and `cancelled` use fairness, so what they refute is not a stop of the system but
its going on for ever with an old row, or without one. `stale` supposes that Updates are
`Undisturbed`: no fault is to blame. `cancelled` lets the client of an Update be cut
off while the Update is at a repository, and nothing else (`OnlyCutOff`).

## 4. What is proved

`UpdateProofs` assumes `GitHubAssumption` and `UpdateAssumption` (types of the
constants, pages of at least one entry) and, for the last two, `OneAtATime`: that
Updates do not overlap (`overwrite` shows that it is needed).

* `TypeCorrect`: `Spec => []TypeOK`.
* `RowsAreSnapshots`: `Spec => []StoredIsSnapshot`, for any number of
  updaters, faults and pull requests.
* `RowsNeverRegress`: `OneAtATime => (Spec => NeverRegresses)`; without `OneAtATime` it is
  not so.
* `RefinesMirror`: `OneAtATime => (Spec => ImplementsMirror)`.

`StoredIsSnapshot` is not inductive: a write stores the row in hand, which must be a
snapshot too. The invariant is `TypeOK /\ GitHubInv /\ JobInv /\ StoredIsSnapshot`.
`GitHubInv` says that what is listed was opened and relates a pull request's
counters to its clock (each commit took an event); `JobInv`, that an Update with a row in
hand has a current entry, which that row is a snapshot of. A step of GitHub keeps
snapshots snapshots (`GitHubStep`); a step of an Update touches its own job
(`JobActions`) and writes at most its row in hand (`StoreActions`). For the last two
theorems `RowIsLatest` is added: the row in hand is never older than the one it
will replace. It needs `OneAtATime`: a second Update could store a later row in
between.

`ChildrenProofs` and `ListingProofs` start from that invariant, and need `GitHubAssumption`
and `UpdateAssumption` but not `OneAtATime`: Updates may overlap.

* `ChildrenStayWithTheirHead`: `Spec => []ChildrenMatchHead`, for any page sizes.
* `RepositoriesAreWhole`: `Spec => []WholeReposStored`, for any listings.
* `UpdatesComeToAnEnd`: `Spec => StepsComeToAnEnd`, for any page sizes and any faults.

`ChildrenMatchHead` speaks of rows stored; `ChildrenInHand` is what an Update has of a
pull request's children while it fetches them. It is not that its commits are the
first ones, all of them: a page that was the last and not full is not asked for again, and
what was pushed since is missed. True is that the last commit in hand is that of a full page, or as
late as the additions, which were fetched before (`CommitsFetched`); and the last
commit is the one a write leaves. Reviews come in one answer, so the row has those of
the page as long as GitHub has moved nothing since (`ReviewsInHand`).

`WholeReposStored` speaks of an Update between two repositories; `OwedInv` follows each
pull request it owes until then: it has slipped past the listing (`moved`), or is stored, or its
repository is still to do, or it is among the entries left, or it is listed after the
pages already read (`Ahead`). An event on GitHub moves the other pull requests of a
listing back, never forward (`FrontStep`), so none of them gets to a page already
read; the one it brings to the front is counted in `moved` when it does. When a page
comes short, nothing is listed after it.

`StepsComeToAnEnd` compares six numbers, the first one that differs deciding (`Less`):
whether the repositories are known, the repositories left, how far the current one is,
the entries to be listed or gone through, how far the current entry is, and its commits
to be read. `WorkLeft` is a function of a job's fields (`Work`, `WorkOfJob`), so each step
is compared by the first of them it changes (`LessByParts`, `WorkFalls`). A page that is not
empty leaves fewer to read (`UnreadFalls`, `ListingFalls`, `CommitsFall`): the next page begins
where it ended. Another Update leaves them alone, and so does GitHub unless it opens a
pull request or gets a commit (`EnvironmentWork`; a review or a merge only changes the order of a
listing). A tuple of naturals cannot fall for ever, so only growing pages keep an
Update running: what `UpdateReturns` says, but for the fairness.

`RateLimitProofs` assumes `RateLimitAssumption`.

* `TypeCorrect`: `Spec => []TypeOK`, mutual exclusion in `RateLimit` included.
* `QuotaAccounted` and `NeverOvercommits`: `Spec => []NoOvercommit` and
  `Spec => []FewRejected`, for any number of callers. `FewRejected` is not inductive; `NoOvercommit` is with `TypeOK`: it
  counts a request from when the cache is decremented for it until GitHub refuses
  it.
* `AloneIsNeverRefused`: one caller is refused nothing, unless a load failed.

`KeyPairProofs` assumes `RPCServerAssumption` and `TrackerAssumption`.

* `CertificateNeverChanges`: `Spec => []CertificateLasts`, for any number of starts.
* `StartsStayPossible`: `Spec => OnlyKeyWriteLocksOut`.

`CertificateLasts` speaks of trackers that have served; `KeyInv` adds what keeps it so
while another one starts. Once a pair has been served with, the key file is there, so
no later start generates one. While a pair is being written, none has been served with
(and the key file is absent until it is the key's turn), and an opened pair is the one
in both files.

`TrackerProofs` assumes `RPCServerAssumption` (finite sets, at least one listener)
and `TrackerAssumption`.

* `TypeCorrect`: `Spec => []TypeOK`, the server's state included.
* `ThrottleAlwaysHolds`: `Spec => []ThrottleHolds`, for any number of clients.
* `CountersExact`: `Spec => []SlotsAccounted`.
* `DatabaseStaysOpen`: `Spec => []RunningMethodsHaveDB`.

`ThrottleHolds` is not inductive, nor is it with an exact counter: the handlers let
through were compared with it one at a time, and it counts those turned away too. `Ranked`
says what the comparisons are worth together: of any set of handlers counted, one saw
a counter at least as high as the set is large. One that enters sees how many there are
with it (this is where `SlotsAccounted` is needed), so the set it joins has one; a set
loses nothing when a handler leaves. Those let through are such a set, and each of them
saw at most `Threshold`. For `RunningMethodsHaveDB`, `EarlyDone` says that no handler
Stop waits for can start again, and that all of them are
through once Wait is released. The listeners are closed, and the connection of a handler that was let
through is not kept: the one kept after a 429 is that of a handler above the threshold, and
those Stop waits for were within it, which `EarlyDone` says of the ones that are leaving. `StartInv`
says where in `run` the handle is open.

`UserInformationProofs` assumes `UserInformationAssumption` (types of the columns and of
the rows Updates write, finitely many pull requests); `StoreProofs` has the
lemmas about gorm's saving of rows that it shares with `UpdateProofs`.

* `TypeCorrect`: `Spec => []TypeOK`, that every review row has its pull request's included.
* `FoundAreReported`: `Spec => []FoundReviewsReported`, for any tables and Updates.
* `ReportsAddUp`: `Spec => []StatsAddUp`, for any lists.
* `NoMergeIsLost`: `MonthsInARow => (Spec => []MonthsLeaveNoGap)`.

`FoundReviewsReported` speaks of an answered request; `LookupInv` says of each review found
that it is still to be looked up, or its lookup failed, or it is in the report, and only
one of these. A lookup finds a row because the write of a review writes its pull
request too and nothing deletes rows (`WriteKeeps`). `NoMergeIsLost` assumes what the client
does: it asks for one month after the other. `PeriodsMeet` shows by the arithmetic of
`Date` that one month ends where the next begins; `MonthsInv`, that what is due up to the
end of the last month answered has been shown.

`StatsAddUp` compares folds: `RepoStats` groups two lists as it goes through them,
`EntryOf` takes one repository out of them. A fold says nothing before what
it is defined by is shown to exist, whatever it does at each step (`FoldExists`); then each
of them is the last of a sequence of steps (`PullsFolded`, `ReviewsFolded`, `UrlsFolded`,
`AdditionsFolded`; that a sum takes its elements in any order is `SumAnyOrder`). One step touches the
entry of one repository or begins it, and leaves all others alone
(`TouchedProperties`); so after any number of steps a repository's entry is what
was collected of it so far (`PullsSummed`, `ReviewsSummed`), and repositories and entries are
as many (`OneEntryEach`). The library's induction theorems take an operator, which the
provers cannot instantiate: these inductions are over the set of the numbers for which a
claim holds (`SetInduction`).

Every invariant and every action property that a passing run checks is proved. Only
model-checked are the liveness properties (`UpdateReturns`, `LeavesNoneUnknown`,
`CallerProceeds`, `InterruptEndsProcess`), which are out of the prover's reach under
fairness, as is `ENABLED`.

## 5. What is not modelled

* `NewCommit`, `UpdateCommit`, `NewPullRequestReview`, `UpdatePullRequestReview`,
  `FetchCommit`, `FetchEvents`, `FetchReleases`, `Timeline`, `prstats` and the
  WebSocket code have no callers, or do nothing.
* `ghctl` is one client of the server; `errors.go`, `jsonrpc/types` and the loggers
  are data.
* `AllUsersByDates` has no caller, and its WHERE clause is not SQL.
* The values in the configuration, and the parsing of listen addresses; two trackers
  started at once over the same files.
* The composition of a report or an Update with its RPC handler in one state: the
  handler adds only that the call may be cancelled, which `Update` has and a report
  does not look at.
* CockroachDB itself: a transaction is atomic, as its default isolation
  (serializable) says.

## 6. The plan

1. *(done)* `GitHub`, `Store`, `Update`, `Mirror`: the heart of the program.
2. *(done)* `RateLimit`.
3. *(done)* `RPCServer`, `Tracker`.
4. *(done)* proofs: types, snapshots, monotonicity, refinement; the quota; the throttle,
   its counters and the database handle.
5. *(done)* `KeyPair` and its composition with `Tracker`; crashes and restarts of the
   process; proofs about the files.
6. *(done)* `UserInformation`.
7. *(done)* proofs of `ChildrenMatchHead` and `WholeReposStored`, which follow a pull
   request's children, and what an Update owes, page by page; of `StatsAddUp`.
8. *(done)* the hypotheses of the liveness properties, stated; the proof of `StepsComeToAnEnd`;
   a run for Updates that are cut off.
