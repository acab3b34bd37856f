--------------------------- MODULE ChildrenProofs ---------------------------
(***************************************************************************)
(* A pull request and its children in the database, for any number of      *)
(* Updates, pages of any sizes and any faults (ChildrenMatchHead).         *)
(*                                                                         *)
(* A write takes the children from the row in hand, so the invariant says  *)
(* of that row what ChildrenMatchHead says of the tables.  It was filled   *)
(* page by page while GitHub went on changing.  Commits pushed between two *)
(* pages may be missed (a page that was the last and not full is not asked *)
(* for again), so it is not true that the row has the first commits, all   *)
(* of them.  True is that its last commit is that of a full page, or as    *)
(* late as the additions in hand: and when a page comes empty, there are   *)
(* no commits beyond the pages before it.                                  *)
(***************************************************************************)
EXTENDS UpdateProofs

(* The last commit of the row, which is the one that a write leaves, is n   *)
(* or later.                                                                *)
HasCommitFrom(row, n) ==
    row.commits # << >> /\ row.commits[Len(row.commits)] >= n

CommitsFetched(j) ==
    /\ j.pc = "commits" =>
          \/ j.page = 1
          \/ HasCommitFrom(j.row, Before(CommitsPerPage, j.page))
          \/ HasCommitFrom(j.row, j.row.additions)
    /\ j.pc \in {"reviews", "save"} => HasCommitFrom(j.row, j.row.additions)

(* The row has the reviews of g, those of the page fetched.                 *)
HasReviewsOf(row, g) ==
    \A i \in 1 .. g.reviews : i <= ReviewsPerPage =>
        \E m \in DOMAIN row.reviews : row.reviews[m] = i

ReviewsInHand(j) ==
    j.pc = "save" /\ j.row.updatedAt = gh[Head(j.prs).pr].updatedAt =>
        HasReviewsOf(j.row, gh[Head(j.prs).pr])

ChildrenInHand == \A u \in Updater : CommitsFetched(job[u]) /\ ReviewsInHand(job[u])

ChildrenInv == Inv /\ ChildrenInHand /\ ChildrenMatchHead

-----------------------------------------------------------------------------
(* The numbers from 1 to k, as the pages of commits and of reviews have     *)
(* them.                                                                    *)
Numbers(k) == [i \in 1 .. k |-> i]

LEMMA NumbersSeq ==
    ASSUME NEW k \in Nat
    PROVE  /\ Numbers(k) \in Seq(Nat)
           /\ Len(Numbers(k)) = k
           /\ \A i \in 1 .. k : Numbers(k)[i] = i
<1> DEFINE t == [i \in 1 .. k |-> i]
<1>1. t \in [1 .. k -> Nat]
  OBVIOUS
<1>2. t \in Seq(Nat)
  BY <1>1, SeqDef
<1>3. 1 .. Len(t) = 1 .. k /\ Len(t) \in Nat
  BY <1>2, LenProperties
<1> QED
  BY <1>2, <1>3 DEF Numbers

(* The n-th page of them is empty when the pages before it hold them all;   *)
(* else its last one ends a full page or is k.                              *)
LEMMA PageOfNumbers ==
    ASSUME NEW k \in Nat, NEW size \in Nat \ {0}, NEW n \in Nat \ {0},
           NEW page, page = PageOf(Numbers(k), size, n)
    PROVE  /\ page \in Seq(Nat)
           /\ page = << >> => k <= Before(size, n)
           /\ page # << >> => page[Len(page)] \in {Before(size, n) + size, k}
<1>1. PICK s \in Seq(Nat) : /\ s = Numbers(k) /\ Len(s) = k
                            /\ \A i \in 1 .. k : s[i] = i
  BY NumbersSeq
<1>2. PICK a \in Nat : a = Before(size, n) /\ Before(size, n + 1) = a + size
  BY BeforeProperties
<1>3. page = PageOf(s, size, n) /\ page \in Seq(Nat)
  BY <1>1, PageOfProperties
<1>4. ASSUME page = << >> PROVE k <= a
  <2>1. Len(s) <= Before(size, n)
    BY <1>3, <1>4, PageOfElements
  <2> QED
    BY <1>1, <1>2, <2>1
<1>5. ASSUME page # << >>
      PROVE  page[Len(page)] \in {Before(size, n) + size, k}
  <2>1. Before(size, n) + Len(page) \in {Before(size, n + 1), Len(s)}
    BY <1>3, <1>5, PageOfElements
  <2>2. \A i \in 1 .. Len(page) :
           Before(size, n) + i \in 1 .. Len(s) /\ page[i] = s[Before(size, n) + i]
    BY <1>3, PageOfElements
  <2>3. Len(page) \in Nat \ {0}
    BY <1>3, <1>5, EmptySeq
  <2>4. Len(page) \in 1 .. Len(page)
    BY <2>3
  <2>5. page[Len(page)] = a + Len(page)
    BY <1>1, <1>2, <2>2, <2>4
  <2> QED
    BY <1>1, <1>2, <2>1, <2>5
<1> QED
  BY <1>2, <1>3, <1>4, <1>5

(* The first page has the first of them, as many as fit.                    *)
LEMMA FirstOfNumbers ==
    ASSUME NEW k \in Nat, NEW size \in Nat \ {0}, NEW i \in 1 .. k, i <= size
    PROVE  \E m \in DOMAIN PageOf(Numbers(k), size, 1) :
              PageOf(Numbers(k), size, 1)[m] = i
<1>1. PICK s \in Seq(Nat) : /\ s = Numbers(k) /\ Len(s) = k
                            /\ \A m \in 1 .. k : s[m] = m
  BY NumbersSeq
<1>2. PICK n \in Nat \ {0} : n = 1
  OBVIOUS
<1>3. Before(size, n) = 0 /\ Before(size, n + 1) = size
  <2>1. Before(size, 1) = 0 /\ Before(size, n + 1) = Before(size, n) + size
    BY BeforeProperties
  <2> QED
    BY <1>2, <2>1
<1>4. PICK page \in Seq(Nat) : page = PageOf(s, size, n)
  BY PageOfProperties
<1>5. \A m \in 1 .. Len(page) : page[m] = s[Before(size, n) + m]
  BY <1>4, PageOfElements
<1>6. \A m \in 1 .. Len(s) :
         Before(size, n) < m /\ m <= Before(size, n + 1) =>
            m - Before(size, n) \in 1 .. Len(page)
  BY <1>4, PageOfElements
<1>7. i \in 1 .. Len(page)
  BY <1>1, <1>3, <1>6
<1>8. page[i] = i
  BY <1>1, <1>3, <1>5, <1>7
<1>9. i \in DOMAIN page
  BY <1>7, LenProperties
<1> QED
  BY <1>1, <1>2, <1>4, <1>8, <1>9

(* A page of commits is empty when there are none beyond the pages before   *)
(* it, and else its last one ends a full page or is the last there is.      *)
LEMMA CommitsPageEnd ==
    ASSUME UpdateAssumption, NEW p \in PR, gh[p].commits \in Nat,
           NEW n \in Nat \ {0}, NEW page, page = CommitsPage(p, n)
    PROVE  /\ page \in Seq(Nat)
           /\ page = << >> => gh[p].commits <= Before(CommitsPerPage, n)
           /\ page # << >> => page[Len(page)] \in
                                 {Before(CommitsPerPage, n + 1), gh[p].commits}
<1>1. PICK k \in Nat : k = gh[p].commits
  OBVIOUS
<1>2. PICK size \in Nat \ {0} : size = CommitsPerPage
  BY DEF UpdateAssumption
<1>3. page = PageOf(Numbers(k), size, n)
  BY <1>1, <1>2 DEF CommitsPage, Numbers
<1>4. Before(size, n + 1) = Before(size, n) + size
  BY BeforeProperties
<1>5. /\ page \in Seq(Nat)
      /\ page = << >> => k <= Before(size, n)
      /\ page # << >> => page[Len(page)] \in {Before(size, n) + size, k}
  BY <1>3, PageOfNumbers
<1> QED
  BY <1>1, <1>2, <1>4, <1>5

(* The reviews fetched are the first ones, as far as the page goes.         *)
LEMMA ReviewsFetchedFirst ==
    ASSUME UpdateAssumption, NEW p \in PR, gh[p].reviews \in Nat,
           NEW i \in 1 .. gh[p].reviews, i <= ReviewsPerPage
    PROVE  \E m \in DOMAIN ReviewsFetched(p) : ReviewsFetched(p)[m] = i
<1>1. PICK k \in Nat : k = gh[p].reviews
  OBVIOUS
<1>2. PICK size \in Nat \ {0} : size = ReviewsPerPage
  BY DEF UpdateAssumption
<1>3. ReviewsFetched(p) = PageOf(Numbers(k), size, 1)
  BY <1>1, <1>2 DEF ReviewsFetched, Numbers
<1>4. i \in 1 .. k /\ i <= size
  BY <1>1, <1>2
<1> QED
  BY <1>3, <1>4, FirstOfNumbers

-----------------------------------------------------------------------------
(* An action that leaves one row in hand as it must be leaves all so.       *)
LEMMA RowStep ==
    ASSUME ChildrenInHand, job \in [Updater -> Job], UNCHANGED ghVars,
           NEW u \in Updater, NEW k, job' = [job EXCEPT ![u] = k],
           CommitsFetched(k), ReviewsInHand(k)
    PROVE  ChildrenInHand'
<1>1. gh' = gh
  BY DEF ghVars
<1>2. ASSUME NEW v \in Updater
      PROVE  CommitsFetched(job'[v]) /\ ReviewsInHand(job'[v])
  BY DEF ChildrenInHand
<1> QED
  BY <1>1, <1>2 DEF ChildrenInHand, CommitsFetched, ReviewsInHand, HasReviewsOf

(* Before its commits are asked for, nothing is said of the row in hand.    *)
LEMMA NothingInHand ==
    ASSUME NEW k, k.pc \notin {"commits", "reviews", "save"}
    PROVE  CommitsFetched(k) /\ ReviewsInHand(k)
BY DEF CommitsFetched, ReviewsInHand

(* A page of commits brings the last commit to the end of a full page, or   *)
(* to the additions in hand; the empty one shows that it is at the latter.  *)
LEMMA CommitsAction ==
    ASSUME UpdateAssumption, Inv, ChildrenInHand,
           NEW u \in Updater, FetchPullRequestCommits(u)
    PROVE  ChildrenInHand'
<1> DEFINE j == job[u]
           page == CommitsPage(Url(u), j.page)
<1>1. /\ job \in [Updater -> Job] /\ j \in Job /\ j.row \in Row
      /\ j.page \in Nat \ {0} /\ j.prs \in Seq(Entry) /\ j.row.commits \in Seq(Nat)
  BY DEF Inv, TypeOK, Job, Row
<1>2. j.pc = "commits" /\ UNCHANGED ghVars
  BY DEF FetchPullRequestCommits
<1>3. /\ j.prs # << >> /\ IsSnapshotOf(j.row, gh[Url(u)])
      /\ CommitsFetched(j)
  BY <1>2 DEF Inv, JobInv, JobOK, InHand, Url, Current, ChildrenInHand
<1>4. Url(u) \in PR
  <2>1. Head(j.prs) \in Entry
    BY <1>1, <1>3, HeadTailProperties
  <2> QED
    BY <2>1 DEF Url, Current, Entry
<1>5. PICK c \in Nat, a \in Nat :
         /\ c = gh[Url(u)].commits /\ a = j.row.additions /\ a \in 1 .. c
  <2>1. gh[Url(u)].commits \in Nat /\ j.row.additions \in Nat
    BY <1>1, <1>4 DEF Inv, TypeOK, GitHubTypeOK, Snapshot, Row
  <2> QED
    BY <1>3, <2>1 DEF IsSnapshotOf
<1>6. PICK n \in Nat \ {0} : n = j.page
  BY <1>1
<1>7. PICK b \in Nat, d \in Nat :
         /\ b = Before(CommitsPerPage, n) /\ d = Before(CommitsPerPage, n + 1)
         /\ n = 1 => b = 0
  <2>1. CommitsPerPage \in Nat \ {0} /\ n + 1 \in Nat \ {0}
    BY DEF UpdateAssumption
  <2>2. /\ Before(CommitsPerPage, n) \in Nat
        /\ Before(CommitsPerPage, n + 1) \in Nat
        /\ Before(CommitsPerPage, 1) = 0
    BY <2>1, BeforeProperties
  <2> QED
    BY <2>2
<1>8. /\ page \in Seq(Nat)
      /\ page = << >> => c <= b
      /\ page # << >> => page[Len(page)] \in {d, c}
  BY <1>4, <1>5, <1>6, <1>7, CommitsPageEnd
<1> HIDE DEF page
<1>9. CASE page = << >>
  <2> DEFINE k == [j EXCEPT !.pc = "reviews"]
  <2>1. job' = [job EXCEPT ![u] = k]
    BY <1>1, <1>9 DEF FetchPullRequestCommits, page
  <2>2. k.pc = "reviews" /\ k.row = j.row
    BY <1>1 DEF Job
  <2> HIDE DEF k
  <2>3. HasCommitFrom(j.row, a)
    <3>1. HasCommitFrom(j.row, b) \/ HasCommitFrom(j.row, a)
      <4>1. n # 1
        BY <1>5, <1>7, <1>8, <1>9
      <4> QED
        BY <1>2, <1>3, <1>5, <1>6, <1>7, <4>1 DEF CommitsFetched
    <3>2. HasCommitFrom(j.row, b) => HasCommitFrom(j.row, a)
      <4>1. a <= b
        BY <1>5, <1>8, <1>9
      <4>2. ASSUME HasCommitFrom(j.row, b) PROVE j.row.commits[Len(j.row.commits)] \in Nat
        <5>1. Len(j.row.commits) \in Nat \ {0}
          BY <1>1, <4>2, EmptySeq DEF HasCommitFrom
        <5>2. Len(j.row.commits) \in 1 .. Len(j.row.commits)
          BY <5>1
        <5> QED
          BY <1>1, <5>2, ElementOfSeq
      <4> HIDE DEF j
      <4>3. ASSUME HasCommitFrom(j.row, b) PROVE j.row.commits[Len(j.row.commits)] >= a
        <5>1. PICK m \in Nat : m = j.row.commits[Len(j.row.commits)]
          BY <4>2, <4>3
        <5>2. m >= b
          BY <4>3, <5>1 DEF HasCommitFrom
        <5>3. m >= a
          BY <4>1, <5>2
        <5> QED
          BY <5>1, <5>3
      <4> QED
        BY <4>3 DEF HasCommitFrom
    <3> QED
      BY <3>1, <3>2
  <2>4. CommitsFetched(k) /\ ReviewsInHand(k)
    BY <1>5, <2>2, <2>3 DEF CommitsFetched, ReviewsInHand
  <2> QED
    BY <1>1, <1>2, <2>1, <2>4, RowStep
<1>10. CASE page # << >>
  <2>1. PICK cs \in Seq(Nat) : cs = j.row.commits \o page
    BY <1>1, <1>8, ConcatProperties
  <2>2. PICK m \in Nat \ {0} : m = n + 1
    OBVIOUS
  <2> DEFINE row == [j.row EXCEPT !.commits = cs]
             k == [j EXCEPT !.row = row, !.page = m]
  <2>3. job' = [job EXCEPT ![u] = k]
    BY <1>1, <1>6, <1>10, <2>1, <2>2 DEF FetchPullRequestCommits, page
  <2>4. row.commits = cs /\ row.additions = j.row.additions
    BY <1>1 DEF Row
  <2> HIDE DEF row
  <2>5. k.pc = "commits" /\ k.row = row /\ k.page = m
    BY <1>1, <1>2 DEF Job
  <2> HIDE DEF k
  <2>6. cs # << >> /\ cs[Len(cs)] \in {d, c}
    <3>1. Len(page) \in Nat \ {0} /\ Len(j.row.commits) \in Nat
      BY <1>1, <1>8, <1>10, EmptySeq, LenProperties
    <3>2. /\ Len(cs) = Len(j.row.commits) + Len(page)
          /\ \A i \in 1 .. Len(j.row.commits) + Len(page) :
                cs[i] = IF i <= Len(j.row.commits) THEN j.row.commits[i]
                        ELSE page[i - Len(j.row.commits)]
      BY <1>1, <1>8, <2>1, ConcatProperties
    <3>3. /\ Len(cs) # 0
          /\ Len(cs) \in 1 .. Len(j.row.commits) + Len(page)
          /\ ~(Len(cs) <= Len(j.row.commits))
          /\ Len(cs) - Len(j.row.commits) = Len(page)
      <4> DEFINE x == Len(j.row.commits)
                 y == Len(page)
                 z == Len(cs)
      <4>1. x \in Nat /\ y \in Nat \ {0} /\ z = x + y
        BY <3>1, <3>2
      <4> HIDE DEF x, y, z
      <4>2. z # 0 /\ z \in 1 .. x + y /\ ~(z <= x) /\ z - x = y
        BY <4>1
      <4> QED
        BY <4>2 DEF x, y, z
    <3>4. cs[Len(cs)] = page[Len(page)]
      BY <3>2, <3>3
    <3>5. cs # << >>
      BY <3>3, EmptySeq
    <3> QED
      BY <1>8, <1>10, <3>4, <3>5
  <2>7. HasCommitFrom(row, d) \/ HasCommitFrom(row, a)
    BY <1>5, <2>4, <2>6 DEF HasCommitFrom
  <2>8. CommitsFetched(k) /\ ReviewsInHand(k)
    BY <1>5, <1>7, <2>2, <2>4, <2>5, <2>7 DEF CommitsFetched, ReviewsInHand
  <2> QED
    BY <1>1, <1>2, <2>3, <2>8, RowStep
<1> QED
  BY <1>9, <1>10

(* The reviews fetched are those of the pull request as it is now.          *)
LEMMA ReviewsAction ==
    ASSUME UpdateAssumption, Inv, ChildrenInHand,
           NEW u \in Updater, FetchPullRequestReviews(u)
    PROVE  ChildrenInHand'
<1> DEFINE j == job[u]
<1>1. /\ job \in [Updater -> Job] /\ j \in Job /\ j.row \in Row /\ j.prs \in Seq(Entry)
  BY DEF Inv, TypeOK, Job
<1>2. j.pc = "reviews" /\ UNCHANGED ghVars
  BY DEF FetchPullRequestReviews
<1>3. j.prs # << >> /\ HasCommitFrom(j.row, j.row.additions)
  BY <1>2 DEF Inv, JobInv, JobOK, InHand, ChildrenInHand, CommitsFetched
<1>4. Url(u) \in PR /\ Url(u) = Head(j.prs).pr
  <2>1. Head(j.prs) \in Entry
    BY <1>1, <1>3, HeadTailProperties
  <2> QED
    BY <2>1 DEF Url, Current, Entry
<1>5. gh[Url(u)].reviews \in Nat
  BY <1>4 DEF Inv, TypeOK, GitHubTypeOK, Snapshot
<1> DEFINE rs == ReviewsFetched(Url(u))
           row == [j.row EXCEPT !.reviews = rs]
           k == [j EXCEPT !.pc = "save", !.row = row]
<1>6. \A i \in 1 .. gh[Url(u)].reviews : i <= ReviewsPerPage =>
         \E m \in DOMAIN rs : rs[m] = i
  BY <1>4, <1>5, ReviewsFetchedFirst
<1> HIDE DEF rs
<1>7. job' = [job EXCEPT ![u] = k]
  BY <1>1 DEF FetchPullRequestReviews, rs
<1>8. /\ row.reviews = rs /\ row.commits = j.row.commits
      /\ row.additions = j.row.additions
  BY <1>1 DEF Row
<1> HIDE DEF row
<1>9. k.pc = "save" /\ k.row = row /\ k.prs = j.prs
  BY <1>1 DEF Job
<1> HIDE DEF k
<1>10. CommitsFetched(k)
  BY <1>3, <1>8, <1>9 DEF CommitsFetched, HasCommitFrom
<1>11. ReviewsInHand(k)
  BY <1>4, <1>6, <1>8, <1>9 DEF ReviewsInHand, HasReviewsOf
<1> QED
  BY <1>1, <1>2, <1>7, <1>10, <1>11, RowStep

(* Every step of an Update leaves the rows in hand as they must be.         *)
LEMMA ChildrenActions ==
    ASSUME UpdateAssumption, Inv, ChildrenInHand,
           NEW u \in Updater, Call(u) \/ Step(u) \/ UpdaterFault(u)
    PROVE  ChildrenInHand'
<1> DEFINE j == job[u]
<1>1. job \in [Updater -> Job] /\ j \in Job
  BY DEF Inv, TypeOK
<1>2. ASSUME NEW k, job' = [job EXCEPT ![u] = k], UNCHANGED ghVars,
             k.pc \notin {"commits", "reviews", "save"}
      PROVE  ChildrenInHand'
  BY <1>1, <1>2, NothingInHand, RowStep
<1>3. ASSUME job' = [job EXCEPT ![u] = NextPull(j)], UNCHANGED ghVars
      PROVE  ChildrenInHand'
  <2>1. NextPull(j).pc = "pr"
    BY <1>1 DEF NextPull, Job
  <2> QED
    BY <1>2, <1>3, <2>1
<1>4. ASSUME Return(u), UNCHANGED ghVars
      PROVE  ChildrenInHand'
  <2>1. job' = [job EXCEPT ![u] = NoJob] /\ NoJob.pc = "idle"
    BY <1>4 DEF Return, NoJob
  <2> QED
    BY <1>2, <1>4, <2>1
<1>5. CASE Call(u)
  <2> DEFINE k == [j EXCEPT !.pc = "repos"]
  <2>1. job' = [job EXCEPT ![u] = k] /\ UNCHANGED ghVars /\ k.pc = "repos"
    BY <1>1, <1>5 DEF Call, Job
  <2> QED
    BY <1>2, <2>1
<1>6. CASE FetchOrgRepos(u)
  <2> DEFINE k == [j EXCEPT !.pc = "next", !.todo = OrgReposFetched]
  <2>1. job' = [job EXCEPT ![u] = k] /\ UNCHANGED ghVars /\ k.pc = "next"
    BY <1>1, <1>6 DEF FetchOrgRepos, Job
  <2> QED
    BY <1>2, <2>1
<1>7. CASE NextRepo(u)
  <2> DEFINE k == [j EXCEPT !.pc = "pulls", !.page = 1]
  <2>1. job' = [job EXCEPT ![u] = k] /\ UNCHANGED ghVars /\ k.pc = "pulls"
    BY <1>1, <1>7 DEF NextRepo, Job
  <2> QED
    BY <1>2, <2>1
<1>8. CASE Finish(u) \/ ApiError(u)
  BY <1>4, <1>8 DEF Finish, ApiError
<1>9. CASE FetchPullsRequest(u)
  <2>1. j.pc = "pulls" /\ UNCHANGED ghVars
    BY <1>9 DEF FetchPullsRequest
  <2> DEFINE page == PullsPage(Head(j.todo), j.page)
             k == [j EXCEPT !.pc = "pr"]
             m == [j EXCEPT !.prs = j.prs \o page, !.page = j.page + 1]
  <2>2. job' = [job EXCEPT ![u] = k] \/ job' = [job EXCEPT ![u] = m]
    BY <1>1, <1>9 DEF FetchPullsRequest
  <2>3. k.pc = "pr" /\ m.pc = "pulls"
    BY <1>1, <2>1 DEF Job
  <2> HIDE DEF k, m
  <2> QED
    BY <1>2, <2>1, <2>2, <2>3
<1>10. CASE FetchPullRequest(u)
  <2> DEFINE k == [j EXCEPT !.pc = "find", !.row = Converted(gh[Url(u)])]
  <2>1. /\ UNCHANGED ghVars
        /\ job' = [job EXCEPT ![u] = NextPull(j)] \/ job' = [job EXCEPT ![u] = k]
    BY <1>1, <1>10 DEF FetchPullRequest
  <2>2. k.pc = "find"
    BY <1>1 DEF Job
  <2> HIDE DEF k
  <2> QED
    BY <1>2, <1>3, <2>1, <2>2
<1>11. CASE RepoDone(u)
  <2> DEFINE k == [j EXCEPT !.pc = "next", !.todo = Tail(j.todo)]
  <2>1. job' = [job EXCEPT ![u] = k] /\ UNCHANGED ghVars /\ k.pc = "next"
    BY <1>1, <1>11 DEF RepoDone, Job
  <2> QED
    BY <1>2, <2>1
<1>12. CASE PullRequestByURL(u)
  <2> DEFINE k == [j EXCEPT !.pc = "commits", !.page = 1]
             m == [j EXCEPT !.pc = "commits", !.page = 1,
                            !.dbPR = pulls[Url(u)].updatedAt]
  <2>1. /\ UNCHANGED ghVars
        /\ \/ job' = [job EXCEPT ![u] = NextPull(j)]
           \/ job' = [job EXCEPT ![u] = k]
           \/ job' = [job EXCEPT ![u] = m]
    BY <1>1, <1>12 DEF PullRequestByURL
  <2>2. k.pc = "commits" /\ k.page = 1 /\ m.pc = "commits" /\ m.page = 1
    BY <1>1 DEF Job
  <2> HIDE DEF k, m
  <2>3. /\ CommitsFetched(k) /\ ReviewsInHand(k)
        /\ CommitsFetched(m) /\ ReviewsInHand(m)
    BY <2>2 DEF CommitsFetched, ReviewsInHand
  <2> QED
    BY <1>1, <1>3, <2>1, <2>3, RowStep
<1>13. CASE FetchPullRequestCommits(u)
  BY <1>13, CommitsAction
<1>14. CASE FetchPullRequestReviews(u)
  BY <1>14, ReviewsAction
<1>15. CASE Save(u) \/ DbError(u)
  BY <1>3, <1>15 DEF Save, DbError
<1>16. CASE Cancel(u)
  <2> DEFINE k == [j EXCEPT !.cancelled = TRUE]
  <2>1. job' = [job EXCEPT ![u] = k] /\ UNCHANGED ghVars
    BY <1>1, <1>16 DEF Cancel
  <2>2. k.pc = j.pc /\ k.page = j.page /\ k.row = j.row /\ k.prs = j.prs
    BY <1>1 DEF Job
  <2> HIDE DEF k
  <2>3. CommitsFetched(k) /\ ReviewsInHand(k)
    BY <2>2 DEF ChildrenInHand, CommitsFetched, ReviewsInHand
  <2> QED
    BY <1>1, <2>1, <2>3, RowStep
<1> QED
  BY <1>5, <1>6, <1>7, <1>8, <1>9, <1>10, <1>11, <1>12, <1>13, <1>14, <1>15, <1>16
     DEF Step, UpdaterFault

-----------------------------------------------------------------------------
(* What is written matches: the last commit and the reviews of the row.     *)
LEMMA WriteMatches ==
    ASSUME Inv, ChildrenInHand, ChildrenMatchHead, UNCHANGED ghVars,
           NEW u \in Updater, job[u].pc = "save", Write(Url(u), job[u].row)
    PROVE  ChildrenMatchHead'
<1>1. /\ job[u].row \in Row /\ job[u].prs \in Seq(Entry) /\ job[u].prs # << >>
      /\ job[u].row.commits \in Seq(Nat)
  BY DEF Inv, TypeOK, Job, Row, JobInv, JobOK, InHand
<1>2. PICK url \in PR : url = Url(u) /\ url = Head(job[u].prs).pr
  <2>1. Head(job[u].prs) \in Entry
    BY <1>1, HeadTailProperties
  <2> QED
    BY <2>1 DEF Url, Current, Entry
<1>3. PICK row \in Row : row = job[u].row /\ Write(url, row) /\ row.commits \in Seq(Nat)
  BY <1>1, <1>2
<1>4. /\ HasCommitFrom(row, row.additions)
      /\ row.updatedAt = gh[url].updatedAt => HasReviewsOf(row, gh[url])
  BY <1>2, <1>3 DEF ChildrenInHand, CommitsFetched, ReviewsInHand
<1>5. /\ StoreTypeOK'
      /\ DOMAIN pulls' = DOMAIN pulls \cup {url}
      /\ pulls'[url] = PullRow(row)
      /\ \A k \in DOMAIN pulls \ {url} : pulls'[k] = pulls[k]
  BY <1>3, WriteProperties DEF Inv, TypeOK
<1>6. /\ DOMAIN commits' = DOMAIN commits \cup {url}
      /\ commits'[url].url = url
      /\ commits'[url].sha = row.commits[Len(row.commits)]
      /\ \A k \in DOMAIN commits \ {url} : commits'[k] = commits[k]
  <2>1. row.commits # << >>
    BY <1>4 DEF HasCommitFrom
  <2>2. DOMAIN commits' = DOMAIN commits \cup {url}
    BY <1>3, <2>1, WrittenCommits
  <2>3. /\ commits'[url].url = url
        /\ commits'[url].sha = row.commits[Len(row.commits)]
    BY <1>3, <2>1, WrittenCommits
  <2>4. \A k \in DOMAIN commits \ {url} : commits'[k] = commits[k]
    BY <1>3, <2>1, WrittenCommits
  <2> QED
    BY <2>2, <2>3, <2>4
<1>7. /\ \A i \in DOMAIN row.reviews : <<url, row.reviews[i]>> \in DOMAIN reviews'
      /\ \A k \in DOMAIN reviews' \ DOMAIN reviews : k[1] = url
      /\ DOMAIN reviews \subseteq DOMAIN reviews'
  BY <1>3, WrittenReviewKeys, WrittenKeys
<1>8. gh' = gh
  BY DEF ghVars
<1>9. ASSUME NEW p \in DOMAIN pulls'
      PROVE  \E k \in DOMAIN commits' :
                commits'[k].url = p /\ commits'[k].sha >= pulls'[p].additions
  <2>1. CASE p = url
    <3>1. commits'[url].url = url /\ commits'[url].sha >= pulls'[url].additions
      BY <1>4, <1>5, <1>6 DEF HasCommitFrom, PullRow
    <3> QED
      BY <1>6, <2>1, <3>1
  <2>2. CASE p # url
    <3>1. p \in DOMAIN pulls /\ pulls'[p] = pulls[p]
      BY <1>5, <2>2
    <3>2. PICK k \in DOMAIN commits :
             commits[k].url = p /\ commits[k].sha >= pulls[p].additions
      BY <3>1 DEF ChildrenMatchHead
    <3>3. k = p
      BY <3>2 DEF Inv, TypeOK, StoreTypeOK, CommitKey
    <3>4. k \in DOMAIN commits' /\ commits'[k] = commits[k]
      BY <1>6, <2>2, <3>3
    <3> QED
      BY <3>1, <3>2, <3>4
  <2> QED
    BY <2>1, <2>2
<1>10. ASSUME NEW p \in DOMAIN pulls', pulls'[p].updatedAt = gh'[p].updatedAt,
              NEW i \in 1 .. gh'[p].reviews, i <= ReviewsPerPage
       PROVE  <<p, i>> \in DOMAIN reviews'
  <2>1. CASE p = url
    <3>1. HasReviewsOf(row, gh[url])
      BY <1>4, <1>5, <1>8, <1>10, <2>1 DEF PullRow
    <3>2. PICK m \in DOMAIN row.reviews : row.reviews[m] = i
      BY <1>8, <1>10, <2>1, <3>1 DEF HasReviewsOf
    <3> QED
      BY <1>7, <2>1, <3>2
  <2>2. CASE p # url
    <3>1. p \in DOMAIN pulls /\ pulls[p].updatedAt = gh[p].updatedAt
      BY <1>5, <1>8, <1>10, <2>2
    <3>2. <<p, i>> \in DOMAIN reviews
      BY <1>8, <1>10, <3>1 DEF ChildrenMatchHead
    <3> QED
      BY <1>7, <3>2
  <2> QED
    BY <2>1, <2>2
<1>11. ASSUME NEW k \in DOMAIN commits' PROVE commits'[k].url \in DOMAIN pulls'
  <2>1. CASE k = url
    BY <1>5, <1>6, <2>1
  <2>2. CASE k # url
    BY <1>5, <1>6, <2>2 DEF ChildrenMatchHead
  <2> QED
    BY <2>1, <2>2
<1>12. ASSUME NEW k \in DOMAIN reviews' PROVE reviews'[k].url \in DOMAIN pulls'
  <2>1. reviews'[k].url = k[1]
    <3>1. ReviewKey(reviews'[k]) = k
      BY <1>5 DEF StoreTypeOK, ReviewKey
    <3> QED
      BY <3>1 DEF ReviewKey
  <2>2. CASE k \in DOMAIN reviews
    <3>1. ReviewKey(reviews[k]) = k
      BY <2>2 DEF Inv, TypeOK, StoreTypeOK
    <3>2. reviews[k].url = k[1]
      BY <3>1 DEF ReviewKey
    <3>3. reviews[k].url \in DOMAIN pulls
      BY <2>2 DEF ChildrenMatchHead
    <3> QED
      BY <1>5, <2>1, <3>2, <3>3
  <2>3. CASE k \notin DOMAIN reviews
    BY <1>5, <1>7, <2>1, <2>3
  <2> QED
    BY <2>2, <2>3
<1> QED
  BY <1>9, <1>10, <1>11, <1>12 DEF ChildrenMatchHead

(* An event on GitHub: the pull request gets a later version than any row,  *)
(* stored or in hand, may have.                                             *)
LEMMA EnvironmentChildren ==
    ASSUME GitHubAssumption, ChildrenInv, NEW p \in PR, Environment(p)
    PROVE  ChildrenInHand' /\ ChildrenMatchHead'
<1>1. /\ gh'[p].updatedAt = gh[p].updatedAt + 1
      /\ \A q \in PR \ {p} : gh'[q] = gh[q]
  BY GitHubStep DEF ChildrenInv, Inv, TypeOK, Environment
<1>2. gh[p].updatedAt \in Nat
  BY DEF ChildrenInv, Inv, TypeOK, GitHubTypeOK, Snapshot
<1>3. ASSUME NEW r, NEW q \in PR, IsSnapshotOf(r, gh[q]),
             r.updatedAt = gh'[q].updatedAt
      PROVE  gh'[q] = gh[q]
  <2>1. r.updatedAt \in 1 .. gh[q].updatedAt
    BY <1>3 DEF IsSnapshotOf
  <2>2. q # p
    BY <1>1, <1>2, <1>3, <2>1
  <2> QED
    BY <1>1, <2>2
<1>4. /\ pulls' = pulls /\ commits' = commits /\ reviews' = reviews /\ job' = job
  BY DEF Environment, dbVars
<1>5. ChildrenInHand'
  <2>1. ASSUME NEW u \in Updater
        PROVE  CommitsFetched(job[u]) /\ ReviewsInHand(job[u])'
    <3> DEFINE q == Head(job[u].prs).pr
    <3>1. CommitsFetched(job[u]) /\ ReviewsInHand(job[u])
      BY DEF ChildrenInv, ChildrenInHand
    <3>2. ASSUME job[u].pc = "save", job[u].row.updatedAt = gh'[q].updatedAt
          PROVE  HasReviewsOf(job[u].row, gh'[q])
      <4>1. /\ job[u].prs \in Seq(Entry) /\ job[u].prs # << >>
            /\ IsSnapshotOf(job[u].row, gh[q])
        BY <3>2 DEF ChildrenInv, Inv, TypeOK, Job, JobInv, JobOK, InHand
      <4>2. q \in PR
        <5>1. Head(job[u].prs) \in Entry
          BY <4>1, HeadTailProperties
        <5> QED
          BY <5>1 DEF Entry
      <4>3. gh'[q] = gh[q]
        BY <1>3, <3>2, <4>1, <4>2
      <4> QED
        BY <3>1, <3>2, <4>3 DEF ReviewsInHand
    <3> QED
      BY <1>4, <3>1, <3>2 DEF ReviewsInHand, HasReviewsOf
  <2> QED
    BY <1>4, <2>1 DEF ChildrenInHand, CommitsFetched, HasCommitFrom
<1>6. ChildrenMatchHead'
  <2>1. ASSUME NEW q \in DOMAIN pulls, pulls[q].updatedAt = gh'[q].updatedAt
        PROVE  gh'[q] = gh[q]
    <3>1. q \in PR /\ IsSnapshotOf(pulls[q], gh[q])
      BY DEF ChildrenInv, Inv, TypeOK, StoreTypeOK, StoredIsSnapshot
    <3> QED
      BY <1>3, <2>1, <3>1
  <2> QED
    BY <1>4, <2>1 DEF ChildrenInv, ChildrenMatchHead
<1> QED
  BY <1>5, <1>6

-----------------------------------------------------------------------------
LEMMA InitChildren ==
    ASSUME GitHubAssumption, UpdateAssumption, Init
    PROVE  ChildrenInv
<1>1. Inv
  BY InitInv
<1>2. ChildrenInHand
  BY NothingInHand DEF Init, NoJob, ChildrenInHand
<1>3. ChildrenMatchHead
  BY DEF Init, StoreInit, ChildrenMatchHead
<1> QED
  BY <1>1, <1>2, <1>3 DEF ChildrenInv

LEMMA NextChildren ==
    ASSUME GitHubAssumption, UpdateAssumption, ChildrenInv, [Next]_vars
    PROVE  ChildrenInv'
<1>1. Inv'
  BY NextInv DEF ChildrenInv
<1>2. ASSUME UNCHANGED <<ghVars, dbVars>> PROVE ChildrenMatchHead'
  BY <1>2 DEF ChildrenInv, ChildrenMatchHead, ghVars, dbVars
<1>3. ASSUME NEW u \in Updater, Call(u) \/ Step(u) \/ UpdaterFault(u)
      PROVE  ChildrenInHand' /\ ChildrenMatchHead'
  <2>1. UNCHANGED ghVars
    BY <1>3 DEF Call, Step, UpdaterFault, FetchOrgRepos, NextRepo, Finish,
       FetchPullsRequest, FetchPullRequest, RepoDone, PullRequestByURL,
       FetchPullRequestCommits, FetchPullRequestReviews, Save, ApiError,
       DbError, Cancel
  <2>2. ChildrenInHand'
    BY <1>3, ChildrenActions DEF ChildrenInv
  <2>3. ChildrenMatchHead'
    <3>1. CASE UNCHANGED dbVars
      BY <1>2, <2>1, <3>1
    <3>2. CASE job[u].pc = "save" /\ Write(Url(u), job[u].row)
      BY <2>1, <3>2, WriteMatches DEF ChildrenInv
    <3> QED
      BY <1>3, <3>1, <3>2, StoreActions
  <2> QED
    BY <2>2, <2>3
<1>4. ASSUME NEW p \in PR, Environment(p)
      PROVE  ChildrenInHand' /\ ChildrenMatchHead'
  BY <1>4, EnvironmentChildren
<1>5. CASE Crash
  <2>1. /\ \A u \in Updater : job'[u] = NoJob
        /\ UNCHANGED <<ghVars, dbVars>>
    BY <1>5 DEF Crash
  <2>2. ChildrenInHand'
    <3>1. \A u \in Updater : job'[u].pc = "idle"
      BY <2>1 DEF NoJob
    <3> QED
      BY <3>1 DEF ChildrenInHand, CommitsFetched, ReviewsInHand, HasCommitFrom,
                  HasReviewsOf
  <2> QED
    BY <1>1, <1>2, <2>1, <2>2 DEF ChildrenInv
<1>6. CASE UNCHANGED vars
  <2>1. UNCHANGED <<ghVars, dbVars>> /\ job' = job /\ gh' = gh
    BY <1>6 DEF vars, ghVars
  <2>2. ChildrenInHand'
    <3>1. \A u \in Updater : CommitsFetched(job[u]) /\ ReviewsInHand(job[u])
      BY DEF ChildrenInv, ChildrenInHand
    <3> QED
      BY <2>1, <3>1 DEF ChildrenInHand, CommitsFetched, ReviewsInHand,
                        HasCommitFrom, HasReviewsOf
  <2> QED
    BY <1>1, <1>2, <2>1, <2>2 DEF ChildrenInv
<1> QED
  BY <1>1, <1>3, <1>4, <1>5, <1>6 DEF Next, ChildrenInv

(* Whatever the sizes of the pages, however many Updates write the same     *)
(* pull request, and whichever of them fail: its row and those of its       *)
(* children are never apart, its commit row is no older than it, and the    *)
(* reviews (of the page fetched) are there when the row is up to date.      *)
THEOREM ChildrenStayWithTheirHead == Spec => []ChildrenMatchHead
<1>1. Init => ChildrenInv
  BY GitHubAssumption, UpdateAssumption, InitChildren
<1>2. ChildrenInv /\ [Next]_vars => ChildrenInv'
  BY GitHubAssumption, UpdateAssumption, NextChildren
<1>3. ChildrenInv => ChildrenMatchHead
  BY DEF ChildrenInv
<1> QED
  BY <1>1, <1>2, <1>3, PTL DEF Spec
=============================================================================
