---------------------------- MODULE ListingProofs ----------------------------
(***************************************************************************)
(* What an Update that runs to the end of its repositories has stored, for *)
(* any repositories, sizes of the pages and faults, and whatever GitHub    *)
(* does to the listings while they are read (WholeReposStored).            *)
(*                                                                         *)
(* The invariant follows a pull request that is owed through the Update:   *)
(* as long as it is not stored, its repository is still to do, or it is    *)
(* listed on a page still to be asked for, or it is among the entries      *)
(* left.  A step of GitHub moves the other pull requests of a listing      *)
(* back, never forward, so that none of them gets to a page already read;  *)
(* the one it brings to the front is the one that may slip past.           *)
(*                                                                         *)
(* And that an Update runs to the end, as far as it depends on its steps   *)
(* (StepsComeToAnEnd): a page that is not empty leaves less of a listing,  *)
(* or of a list of commits, to be read, and everything else moves on.      *)
(***************************************************************************)
EXTENDS UpdateProofs

(* p is in the listing s, after its first a entries.                        *)
Listed(s, p, a) == \E i \in DOMAIN s : s[i] = p /\ i > a

InRepos(repos, p) == \E i \in DOMAIN repos : repos[i] = RepoOf[p]

InPrs(j, p) == \E i \in DOMAIN j.prs : j.prs[i].pr = p

(* The Update whose local variables j holds has yet to come to p.           *)
Ahead(j, p) ==
    \/ j.pc = "next" /\ InRepos(j.todo, p)
    \/ /\ j.pc \in {"pulls", "pr"} \cup InHand
       /\ InRepos(Tail(j.todo), p) \/ InPrs(j, p)
    \/ /\ j.pc = "pulls"
       /\ RepoOf[p] = Head(j.todo)
       /\ Listed(recent[RepoOf[p]], p, Before(PullsPerPage, j.page))

(* GitHub lists every pull request that was opened.                         *)
ListingComplete ==
    \A p \in PR : IsOpened(p) => Listed(recent[RepoOf[p]], p, 0)

Accounted(u, p) ==
    p \in moved[u] \/ p \in DOMAIN pulls \/ Ahead(job[u], p)

OwedInv ==
    \A u \in Updater : \A p \in owed[u] :
        /\ IsOpened(p)
        /\ p \notin Malformed
        /\ Accounted(u, p)

ListingInv == Inv /\ ListingComplete /\ OwedInv

-----------------------------------------------------------------------------
(* Putting an element first moves all others back by one.                   *)
LEMMA PrependProperties ==
    ASSUME NEW S, NEW s \in Seq(S), NEW p \in S
    PROVE  /\ <<p>> \o s \in Seq(S)
           /\ 1 \in DOMAIN (<<p>> \o s)
           /\ (<<p>> \o s)[1] = p
           /\ \A m \in DOMAIN s :
                 m + 1 \in DOMAIN (<<p>> \o s) /\ (<<p>> \o s)[m + 1] = s[m]
<1>1. <<p>> \in Seq(S) /\ Len(<<p>>) = 1 /\ <<p>>[1] = p
  OBVIOUS
<1>2. /\ <<p>> \o s \in Seq(S)
      /\ Len(<<p>> \o s) = 1 + Len(s)
      /\ \A i \in 1 .. 1 + Len(s) :
            (<<p>> \o s)[i] = IF i <= 1 THEN <<p>>[i] ELSE s[i - 1]
  BY <1>1, ConcatProperties
<1>3. Len(s) \in Nat /\ DOMAIN s = 1 .. Len(s)
      /\ DOMAIN (<<p>> \o s) = 1 .. 1 + Len(s)
  BY <1>2, LenProperties
<1> QED
  BY <1>1, <1>2, <1>3

(* An event of p puts p first and brings no other pull request forward.     *)
LEMMA FrontStep ==
    ASSUME GitHubAssumption, GitHubTypeOK, NEW p \in PR,
           OpenPullRequest(p) \/ UpdateOnGitHub(p)
    PROVE  /\ Listed(recent'[RepoOf[p]], p, 0)
           /\ \A q \in PR \ {p}, a \in Nat :
                 Listed(recent[RepoOf[q]], q, a) => Listed(recent'[RepoOf[q]], q, a)
<1>1. /\ recent \in [Repo -> Seq(PR)] /\ RepoOf \in [PR -> Repo]
      /\ RepoOf[p] \in Repo
  BY DEF GitHubAssumption, GitHubTypeOK
<1>2. PICK t \in Seq(PR) : t = recent[RepoOf[p]]
  BY <1>1
<1>3. \E s \in Seq(PR) :
         /\ recent' = [recent EXCEPT ![RepoOf[p]] = <<p>> \o s]
         /\ \A m \in DOMAIN t : t[m] # p =>
               \/ m \in DOMAIN s /\ s[m] = t[m]
               \/ m - 1 \in DOMAIN s /\ s[m - 1] = t[m]
  <2>1. CASE OpenPullRequest(p)
    BY <1>1, <1>2, <2>1 DEF OpenPullRequest
  <2>2. CASE UpdateOnGitHub(p)
    <3>1. BringToFront(p)
      BY <2>2 DEF UpdateOnGitHub, PushCommit, SubmitReview, MergePullRequest
    <3>2. PICK i \in DOMAIN t :
             /\ t[i] = p
             /\ recent' = [recent EXCEPT ![RepoOf[p]] = <<p>> \o RemoveAt(t, i)]
      BY <1>1, <1>2, <3>1 DEF BringToFront
    <3>3. PICK s \in Seq(PR) :
             /\ s = RemoveAt(t, i) /\ DOMAIN s = 1 .. Len(t) - 1
             /\ \A j \in 1 .. Len(t) - 1 : s[j] = IF j < i THEN t[j] ELSE t[j + 1]
      BY RemoveAtProperties
    <3>4. ASSUME NEW m \in DOMAIN t, t[m] # p
          PROVE  \/ m \in DOMAIN s /\ s[m] = t[m]
                 \/ m - 1 \in DOMAIN s /\ s[m - 1] = t[m]
      <4>1. DOMAIN t = 1 .. Len(t) /\ Len(t) \in Nat
        BY LenProperties
      <4>2. CASE m < i
        <5>1. m \in 1 .. Len(t) - 1
          BY <4>1, <4>2
        <5> QED
          BY <3>3, <4>2, <5>1
      <4>3. CASE m > i
        <5>1. m - 1 \in 1 .. Len(t) - 1 /\ ~(m - 1 < i) /\ (m - 1) + 1 = m
          BY <4>1, <4>3
        <5> QED
          BY <3>3, <5>1
      <4> QED
        BY <3>2, <3>4, <4>1, <4>2, <4>3
    <3> QED
      BY <3>2, <3>3, <3>4
  <2> QED
    BY <2>1, <2>2
<1>4. PICK s \in Seq(PR) :
         /\ recent' = [recent EXCEPT ![RepoOf[p]] = <<p>> \o s]
         /\ \A m \in DOMAIN t : t[m] # p =>
               \/ m \in DOMAIN s /\ s[m] = t[m]
               \/ m - 1 \in DOMAIN s /\ s[m - 1] = t[m]
  BY <1>3
<1>5. PICK n \in Seq(PR) : n = <<p>> \o s
  BY PrependProperties
<1>6. /\ 1 \in DOMAIN n /\ n[1] = p
      /\ \A m \in DOMAIN s : m + 1 \in DOMAIN n /\ n[m + 1] = s[m]
  BY <1>5, PrependProperties
<1>7. /\ recent'[RepoOf[p]] = n
      /\ \A r \in Repo \ {RepoOf[p]} : recent'[r] = recent[r]
  BY <1>1, <1>4, <1>5
<1>8. Listed(recent'[RepoOf[p]], p, 0)
  BY <1>6, <1>7 DEF Listed
<1>9. ASSUME NEW q \in PR \ {p}, NEW a \in Nat, Listed(recent[RepoOf[q]], q, a)
      PROVE  Listed(recent'[RepoOf[q]], q, a)
  <2>1. CASE RepoOf[q] # RepoOf[p]
    BY <1>1, <1>7, <1>9, <2>1
  <2>2. CASE RepoOf[q] = RepoOf[p]
    <3>1. PICK m \in DOMAIN t : t[m] = q /\ m > a
      BY <1>2, <1>9, <2>2 DEF Listed
    <3>2. m \in Nat /\ m - 1 + 1 = m /\ m + 1 > a
      <4>1. DOMAIN t = 1 .. Len(t) /\ Len(t) \in Nat
        BY LenProperties
      <4> QED
        BY <3>1, <4>1
    <3>3. \/ m \in DOMAIN s /\ s[m] = q
          \/ m - 1 \in DOMAIN s /\ s[m - 1] = q
      BY <1>4, <3>1
    <3>4. \/ m + 1 \in DOMAIN n /\ n[m + 1] = q
          \/ m \in DOMAIN n /\ n[m] = q
      BY <1>6, <3>2, <3>3
    <3> QED
      BY <1>7, <2>2, <3>1, <3>2, <3>4 DEF Listed
  <2> QED
    BY <2>1, <2>2
<1> QED
  BY <1>8, <1>9

-----------------------------------------------------------------------------
(* A step of one Update that accounts for what is owed to it.               *)
LEMMA OwedStep ==
    ASSUME OwedInv, UNCHANGED ghVars, moved' = moved,
           DOMAIN pulls \subseteq DOMAIN pulls',
           job \in [Updater -> Job],
           NEW u \in Updater, NEW k, job' = [job EXCEPT ![u] = k],
           \A v \in Updater \ {u} : owed'[v] = owed[v],
           owed'[u] \subseteq owed[u],
           \A p \in owed'[u] :
              p \notin DOMAIN pulls' /\ Ahead(job[u], p) => Ahead(k, p)
    PROVE  OwedInv'
<1>1. gh' = gh /\ recent' = recent
  BY DEF ghVars
<1>2. ASSUME NEW v \in Updater, NEW p \in owed'[v]
      PROVE  /\ IsOpened(p) /\ p \notin Malformed
             /\ p \in moved[v] \/ p \in DOMAIN pulls' \/ Ahead(job'[v], p)
  <2>1. p \in owed[v]
    BY <1>2
  <2>2. IsOpened(p) /\ p \notin Malformed
    BY <2>1 DEF OwedInv
  <2>3. p \in moved[v] \/ p \in DOMAIN pulls \/ Ahead(job[v], p)
    BY <2>1 DEF OwedInv, Accounted
  <2>4. CASE v = u
    BY <1>2, <2>2, <2>3, <2>4
  <2>5. CASE v # u
    <3>1. job'[v] = job[v]
      BY <2>5
    <3> QED
      BY <2>2, <2>3, <3>1
  <2> QED
    BY <2>4, <2>5
<1>3. ASSUME NEW v \in Updater, NEW p \in owed'[v]
      PROVE  Ahead(job'[v], p) => Ahead(job[v], p)'
  BY <1>1 DEF Ahead, Listed, InRepos, InPrs
<1> QED
  BY <1>1, <1>2, <1>3 DEF OwedInv, Accounted, IsOpened

(* Going on to the next pull request leaves all others where they were.     *)
LEMMA NextPullAhead ==
    ASSUME NEW j \in Job, j.pc \in {"pr"} \cup InHand, j.prs # << >>,
           NEW p \in PR, p # Head(j.prs).pr, Ahead(j, p)
    PROVE  Ahead(NextPull(j), p)
<1> DEFINE k == NextPull(j)
<1>1. j.prs \in Seq(Entry)
  BY DEF Job
<1>2. /\ Tail(j.prs) \in Seq(Entry) /\ Len(Tail(j.prs)) = Len(j.prs) - 1
      /\ Head(j.prs) = j.prs[1]
      /\ \A i \in 1 .. Len(Tail(j.prs)) : Tail(j.prs)[i] = j.prs[i + 1]
  BY <1>1, HeadTailProperties
<1>3. /\ DOMAIN j.prs = 1 .. Len(j.prs) /\ Len(j.prs) \in Nat \ {0}
      /\ DOMAIN Tail(j.prs) = 1 .. Len(j.prs) - 1
  BY <1>1, <1>2, LenProperties, EmptySeq
<1>4. k.pc = "pr" /\ k.todo = j.todo /\ k.prs = Tail(j.prs)
  BY DEF NextPull, Job
<1> HIDE DEF k
<1>5. InRepos(Tail(j.todo), p) \/ InPrs(j, p)
  BY DEF Ahead, InHand
<1>6. ASSUME InPrs(j, p) PROVE InPrs(k, p)
  <2>1. PICK i \in 1 .. Len(j.prs) : j.prs[i].pr = p
    BY <1>3, <1>6 DEF InPrs
  <2>2. i # 1
    BY <1>2, <2>1
  <2>3. PICK m \in 1 .. Len(j.prs) - 1 : i = m + 1
    <3>1. i - 1 \in 1 .. Len(j.prs) - 1 /\ i = (i - 1) + 1
      BY <1>3, <2>2
    <3> QED
      BY <3>1
  <2>4. m \in DOMAIN k.prs /\ k.prs[m].pr = p
    BY <1>2, <1>3, <1>4, <2>1, <2>3
  <2> QED
    BY <2>4 DEF InPrs
<1>7. InRepos(Tail(k.todo), p) \/ InPrs(k, p)
  BY <1>4, <1>5, <1>6
<1> QED
  BY <1>4, <1>7 DEF Ahead, k

(* A step within a pull request, or the one that begins it, goes past       *)
(* nothing.                                                                 *)
LEMMA SamePullAhead ==
    ASSUME NEW j, NEW k, j.pc \in {"pr"} \cup InHand, k.pc \in {"pr"} \cup InHand,
           k.todo = j.todo, k.prs = j.prs, NEW p, Ahead(j, p)
    PROVE  Ahead(k, p)
BY DEF Ahead, InHand, InPrs

(* The beginning of a repository: what is owed of it is on its pages, from  *)
(* the first one.                                                           *)
LEMMA NextRepoOwed ==
    ASSUME UpdateAssumption, Inv, ListingComplete, OwedInv,
           NEW u \in Updater, NextRepo(u)
    PROVE  OwedInv'
<1> DEFINE j == job[u]
           k == [j EXCEPT !.pc = "pulls", !.page = 1]
<1>1. /\ job \in [Updater -> Job] /\ j \in Job /\ j.todo \in Seq(Repo)
      /\ owed \in [Updater -> SUBSET PR]
  BY DEF Inv, TypeOK, Job
<1>2. /\ j.pc = "next" /\ j.todo # << >>
      /\ UNCHANGED ghVars /\ UNCHANGED dbVars /\ owed' = owed /\ moved' = moved
  BY DEF NextRepo, ghostVars
<1>3. job' = [job EXCEPT ![u] = k]
  BY <1>1 DEF NextRepo
<1>4. k.pc = "pulls" /\ k.page = 1 /\ k.todo = j.todo
  BY <1>1 DEF Job
<1> HIDE DEF k
<1>5. ASSUME NEW p \in owed[u], Ahead(j, p) PROVE Ahead(k, p)
  <2>1. p \in PR /\ IsOpened(p)
    BY <1>1 DEF OwedInv
  <2>2. Listed(recent[RepoOf[p]], p, Before(PullsPerPage, k.page))
    <3>1. Before(PullsPerPage, 1) = 0
      <4>1. PullsPerPage \in Nat \ {0} /\ 1 \in Nat \ {0}
        BY DEF UpdateAssumption
      <4> QED
        BY <4>1, BeforeProperties
    <3> QED
      BY <1>4, <2>1, <3>1 DEF ListingComplete
  <2>3. PICK i \in DOMAIN j.todo : j.todo[i] = RepoOf[p]
    BY <1>2, <1>5 DEF Ahead, InHand, InRepos
  <2>4. /\ Head(j.todo) = j.todo[1]
        /\ Tail(j.todo) \in Seq(Repo) /\ Len(Tail(j.todo)) = Len(j.todo) - 1
        /\ \A m \in 1 .. Len(Tail(j.todo)) : Tail(j.todo)[m] = j.todo[m + 1]
    BY <1>1, <1>2, HeadTailProperties
  <2>5. /\ DOMAIN j.todo = 1 .. Len(j.todo) /\ Len(j.todo) \in Nat \ {0}
        /\ DOMAIN Tail(j.todo) = 1 .. Len(j.todo) - 1
    BY <1>1, <1>2, <2>4, LenProperties, EmptySeq
  <2>6. CASE i = 1
    <3>1. RepoOf[p] = Head(k.todo)
      BY <1>4, <2>3, <2>4, <2>6
    <3> QED
      BY <1>4, <2>2, <3>1 DEF Ahead
  <2>7. CASE i # 1
    <3>1. i - 1 \in 1 .. Len(j.todo) - 1 /\ (i - 1) + 1 = i
      BY <2>5, <2>7
    <3>2. i - 1 \in DOMAIN Tail(j.todo) /\ Tail(j.todo)[i - 1] = RepoOf[p]
      BY <2>3, <2>4, <2>5, <3>1
    <3>3. InRepos(Tail(k.todo), p)
      BY <1>4, <3>2 DEF InRepos
    <3> QED
      BY <1>4, <3>3 DEF Ahead
  <2> QED
    BY <2>6, <2>7
<1> QED
  BY <1>1, <1>2, <1>3, <1>5, OwedStep DEF dbVars

(* A page of a listing: what is listed beyond the pages before it is on the *)
(* page, or beyond it.                                                      *)
LEMMA PullsPageAhead ==
    ASSUME UpdateAssumption, GitHubTypeOK, NEW r \in Repo, NEW n \in Nat \ {0},
           NEW page, page = PullsPage(r, n),
           NEW p, Listed(recent[r], p, Before(PullsPerPage, n))
    PROVE  /\ page # << >>
           /\ \/ \E i \in DOMAIN page : page[i].pr = p
              \/ Listed(recent[r], p, Before(PullsPerPage, n + 1))
<1>1. PICK t \in Seq(PR) : t = recent[r]
  BY DEF GitHubTypeOK
<1>2. PICK size \in Nat \ {0} : size = PullsPerPage
  BY DEF UpdateAssumption
<1>3. PICK pg \in Seq(PR) : pg = PageOf(t, size, n)
  BY PageOfProperties
<1>4. PICK a \in Nat, b \in Nat : a = Before(size, n) /\ b = Before(size, n + 1)
  <2>1. Before(size, n) \in Nat /\ Before(size, n + 1) = Before(size, n) + size
    BY BeforeProperties
  <2> QED
    BY <2>1
<1>5. PICK m \in DOMAIN t : t[m] = p /\ m > a
  BY <1>1, <1>2, <1>4 DEF Listed
<1>6. DOMAIN t = 1 .. Len(t) /\ Len(t) \in Nat
      /\ DOMAIN pg = 1 .. Len(pg) /\ Len(pg) \in Nat
  BY LenProperties
<1>7. /\ DOMAIN page = DOMAIN pg
      /\ \A i \in DOMAIN pg : page[i].pr = pg[i]
  BY <1>1, <1>2, <1>3 DEF PullsPage
<1>8. pg # << >>
  <2>1. pg = << >> => Len(t) <= Before(size, n)
    BY <1>3, PageOfElements
  <2> QED
    BY <1>4, <1>5, <1>6, <2>1
<1>9. page # << >>
  <2>1. Len(pg) # 0
    BY <1>8, EmptySeq
  <2>2. 1 \in DOMAIN page
    BY <1>6, <1>7, <2>1
  <2>3. DOMAIN << >> = {}
    BY EmptySeq
  <2> QED
    BY <2>2, <2>3
<1>10. CASE m <= b
  <2>1. \A i \in 1 .. Len(t) :
           Before(size, n) < i /\ i <= Before(size, n + 1) =>
              i - Before(size, n) \in 1 .. Len(pg)
    BY <1>3, PageOfElements
  <2>2. \A i \in 1 .. Len(pg) : pg[i] = t[Before(size, n) + i]
    BY <1>3, PageOfElements
  <2>3. m \in 1 .. Len(t) /\ a < m /\ a + (m - a) = m
    BY <1>5, <1>6
  <2>4. m - a \in 1 .. Len(pg)
    BY <1>4, <1>10, <2>1, <2>3
  <2>5. pg[m - a] = p
    BY <1>4, <1>5, <2>2, <2>3, <2>4
  <2> QED
    BY <1>6, <1>7, <1>9, <2>4, <2>5
<1>11. CASE ~(m <= b)
  <2>1. m > b
    BY <1>5, <1>6, <1>11
  <2> QED
    BY <1>1, <1>2, <1>4, <1>5, <1>9, <2>1 DEF Listed
<1> QED
  BY <1>10, <1>11

LEMMA FetchPullsRequestOwed ==
    ASSUME UpdateAssumption, Inv, OwedInv, NEW u \in Updater, FetchPullsRequest(u)
    PROVE  OwedInv'
<1> DEFINE j == job[u]
           page == PullsPage(Head(j.todo), j.page)
<1>1. /\ job \in [Updater -> Job] /\ j \in Job /\ j.todo \in Seq(Repo)
      /\ j.prs \in Seq(Entry) /\ j.page \in Nat \ {0}
      /\ owed \in [Updater -> SUBSET PR]
  BY DEF Inv, TypeOK, Job
<1>2. /\ j.pc = "pulls" /\ j.todo # << >>
      /\ UNCHANGED ghVars /\ UNCHANGED dbVars /\ owed' = owed /\ moved' = moved
  BY DEF FetchPullsRequest, ghostVars, Inv, JobInv, JobOK
<1>3. PICK r \in Repo : r = Head(j.todo)
  BY <1>1, <1>2, HeadTailProperties
<1>4. page \in Seq(Entry)
  BY <1>1, <1>3, PullsPageProperties DEF Inv, TypeOK
<1>5. ASSUME NEW p, Listed(recent[r], p, Before(PullsPerPage, j.page))
      PROVE  /\ page # << >>
             /\ \/ \E i \in DOMAIN page : page[i].pr = p
                \/ Listed(recent[r], p, Before(PullsPerPage, j.page + 1))
  <2>1. PICK n \in Nat \ {0} : n = j.page
    BY <1>1
  <2>2. PICK pg \in Seq(Entry) : pg = PullsPage(r, n) /\ pg = page
    BY <1>3, <1>4, <2>1
  <2>3. GitHubTypeOK /\ Listed(recent[r], p, Before(PullsPerPage, n))
    BY <1>5, <2>1 DEF Inv, TypeOK
  <2>4. pg # << >>
    BY <2>2, <2>3, PullsPageAhead
  <2>5. \/ \E i \in DOMAIN pg : pg[i].pr = p
        \/ Listed(recent[r], p, Before(PullsPerPage, n + 1))
    BY <2>2, <2>3, PullsPageAhead
  <2> QED
    BY <2>1, <2>2, <2>4, <2>5
<1>6. ASSUME NEW p, Ahead(j, p)
      PROVE  \/ InRepos(Tail(j.todo), p) \/ InPrs(j, p)
             \/ RepoOf[p] = r /\ Listed(recent[r], p, Before(PullsPerPage, j.page))
  BY <1>2, <1>3, <1>6 DEF Ahead
<1>7. /\ page = << >> => job' = [job EXCEPT ![u] = [j EXCEPT !.pc = "pr"]]
      /\ page # << >> => job' = [job EXCEPT ![u] =
            [j EXCEPT !.prs = j.prs \o page, !.page = j.page + 1]]
  BY <1>1 DEF FetchPullsRequest
<1> HIDE DEF page
<1>8. CASE page = << >>
  <2> DEFINE k == [j EXCEPT !.pc = "pr"]
  <2>1. job' = [job EXCEPT ![u] = k]
    BY <1>7, <1>8
  <2>2. k.pc = "pr" /\ k.todo = j.todo /\ k.prs = j.prs
    BY <1>1 DEF Job
  <2> HIDE DEF k
  <2>3. ASSUME NEW p, Ahead(j, p) PROVE Ahead(k, p)
    BY <1>5, <1>6, <1>8, <2>2, <2>3 DEF Ahead, InPrs
  <2> QED
    BY <1>1, <1>2, <2>1, <2>3, OwedStep DEF dbVars
<1>9. CASE page # << >>
  <2>1. PICK n \in Nat \ {0} : n = j.page + 1
    BY <1>1
  <2>2. PICK ps \in Seq(Entry) : ps = j.prs \o page
    BY <1>1, <1>4, ConcatProperties
  <2> DEFINE k == [j EXCEPT !.prs = ps, !.page = n]
  <2>3. job' = [job EXCEPT ![u] = k]
    BY <1>7, <1>9, <2>1, <2>2
  <2>4. k.pc = "pulls" /\ k.todo = j.todo /\ k.prs = ps /\ k.page = n
    BY <1>1, <1>2 DEF Job
  <2> HIDE DEF k
  <2>5. /\ \A i \in DOMAIN j.prs : i \in DOMAIN ps /\ ps[i] = j.prs[i]
        /\ \A i \in DOMAIN page :
              Len(j.prs) + i \in DOMAIN ps /\ ps[Len(j.prs) + i] = page[i]
    <3>1. PICK x \in Nat, y \in Nat :
             x = Len(j.prs) /\ DOMAIN j.prs = 1 .. x /\ y = Len(page) /\ DOMAIN page = 1 .. y
      BY <1>1, <1>4, LenProperties
    <3>2. /\ Len(ps) = x + y
          /\ \A i \in 1 .. x + y : ps[i] = IF i <= x THEN j.prs[i] ELSE page[i - x]
      BY <1>1, <1>4, <2>2, <3>1, ConcatProperties
    <3>3. DOMAIN ps = 1 .. x + y
      BY <3>2, LenProperties
    <3>4. ASSUME NEW i \in 1 .. y
          PROVE  x + i \in 1 .. x + y /\ ~(x + i <= x) /\ (x + i) - x = i
      BY <3>1
    <3>5. ASSUME NEW i \in 1 .. y
          PROVE  x + i \in DOMAIN ps /\ ps[x + i] = page[i]
      BY <3>2, <3>3, <3>4
    <3>6. ASSUME NEW i \in 1 .. x
          PROVE  i \in DOMAIN ps /\ ps[i] = j.prs[i]
      BY <3>2, <3>3
    <3> QED
      BY <3>1, <3>5, <3>6
  <2>6. ASSUME NEW p, Ahead(j, p) PROVE Ahead(k, p)
    <3>1. InPrs(j, p) => InPrs(k, p)
      BY <2>4, <2>5 DEF InPrs
    <3>2. (\E i \in DOMAIN page : page[i].pr = p) => InPrs(k, p)
      BY <2>4, <2>5 DEF InPrs
    <3> QED
      BY <1>3, <1>5, <1>6, <2>1, <2>4, <2>6, <3>1, <3>2 DEF Ahead
  <2> QED
    BY <1>1, <1>2, <2>3, <2>6, OwedStep DEF dbVars
<1> QED
  BY <1>8, <1>9

(* Every step of an Update accounts for what it still owes.                 *)
LEMMA OwedActions ==
    ASSUME UpdateAssumption, ListingInv,
           NEW u \in Updater, Call(u) \/ Step(u) \/ UpdaterFault(u)
    PROVE  OwedInv'
<1> DEFINE j == job[u]
<1>1. /\ job \in [Updater -> Job] /\ j \in Job /\ j.prs \in Seq(Entry)
      /\ owed \in [Updater -> SUBSET PR]
      /\ Inv /\ ListingComplete /\ OwedInv
  BY DEF ListingInv, Inv, TypeOK, Job
<1>2. DOMAIN pulls \subseteq DOMAIN pulls'
  BY StoreActions DEF dbVars, Write
<1>3. ASSUME Return(u), UNCHANGED <<ghVars, dbVars>>
      PROVE  OwedInv'
  <2>1. /\ owed'[u] = {} /\ \A v \in Updater \ {u} : owed'[v] = owed[v]
        /\ \A v \in Updater \ {u} : job'[v] = job[v] /\ moved'[v] = moved[v]
    BY <1>1, <1>3 DEF Return, Inv, TypeOK
  <2>2. gh' = gh /\ recent' = recent /\ pulls' = pulls
    BY <1>3 DEF ghVars, dbVars
  <2>3. ASSUME NEW v \in Updater, NEW p \in owed'[v]
        PROVE  /\ v # u /\ IsOpened(p) /\ p \notin Malformed
               /\ p \in moved'[v] \/ p \in DOMAIN pulls \/ Ahead(job'[v], p)
    BY <1>1, <2>1 DEF OwedInv, Accounted
  <2>4. ASSUME NEW v \in Updater, NEW p, Ahead(job'[v], p) PROVE Ahead(job[v], p)'
    BY <2>2, <2>4 DEF Ahead, Listed, InRepos, InPrs
  <2> QED
    BY <2>2, <2>3, <2>4 DEF OwedInv, Accounted, IsOpened
<1>4. ASSUME NEW k, job' = [job EXCEPT ![u] = k],
             UNCHANGED ghVars, UNCHANGED ghostVars,
             \A p \in owed[u] : p \notin DOMAIN pulls' /\ Ahead(j, p) => Ahead(k, p)
      PROVE  OwedInv'
  <2>1. owed' = owed /\ moved' = moved
    BY <1>4 DEF ghostVars
  <2> QED
    BY <1>1, <1>2, <1>4, <2>1, OwedStep
<1>5. ASSUME NEW k, job' = [job EXCEPT ![u] = k],
             UNCHANGED ghVars, UNCHANGED ghostVars,
             j.pc \in {"pr"} \cup InHand, k.pc \in {"pr"} \cup InHand,
             k.todo = j.todo, k.prs = j.prs
      PROVE  OwedInv'
  BY <1>4, <1>5, SamePullAhead
<1>6. ASSUME j.pc \in {"pr"} \cup InHand, j.prs # << >>, NEW p \in owed[u],
             p # Url(u), Ahead(j, p)
      PROVE  Ahead(NextPull(j), p)
  BY <1>1, <1>6, NextPullAhead DEF Url, Current
<1>7. ASSUME job' = [job EXCEPT ![u] = NextPull(j)],
             UNCHANGED ghVars, UNCHANGED ghostVars,
             j.pc \in {"pr"} \cup InHand, j.prs # << >>,
             Url(u) \in Malformed \/ Url(u) \in DOMAIN pulls'
      PROVE  OwedInv'
  <2>1. \A p \in owed[u] : p \notin Malformed
    BY <1>1 DEF OwedInv
  <2>2. ASSUME NEW p \in owed[u], p \notin DOMAIN pulls', Ahead(j, p)
        PROVE  Ahead(NextPull(j), p)
    BY <1>6, <1>7, <2>1, <2>2
  <2> QED
    BY <1>4, <1>7, <2>2
<1>8. ASSUME j.pc \in InHand PROVE j.prs # << >>
  BY <1>1, <1>8 DEF Inv, JobInv, JobOK
<1>9. CASE Call(u)
  <2> DEFINE k == [j EXCEPT !.pc = "repos"]
  <2>1. job' = [job EXCEPT ![u] = k] /\ UNCHANGED ghVars /\ UNCHANGED ghostVars
    BY <1>9 DEF Call
  <2>2. j.pc = "idle"
    BY <1>9 DEF Call, Running
  <2>3. \A p : ~Ahead(j, p)
    BY <2>2 DEF Ahead, InHand
  <2> QED
    BY <1>4, <2>1, <2>3
<1>10. CASE FetchOrgRepos(u)
  <2> DEFINE k == [j EXCEPT !.pc = "next", !.todo = OrgReposFetched]
  <2>1. /\ job' = [job EXCEPT ![u] = k]
        /\ gh' = gh /\ recent' = recent /\ pulls' = pulls /\ moved' = moved
    BY <1>10 DEF FetchOrgRepos, ghVars, dbVars
  <2>2. /\ \A v \in Updater \ {u} : owed'[v] = owed[v] /\ job'[v] = job[v]
        /\ job'[u] = k
    BY <1>1, <1>10 DEF FetchOrgRepos
  <2>3. k.pc = "next" /\ k.todo = OrgReposFetched
    BY <1>1 DEF Job
  <2> HIDE DEF k
  <2>4. ASSUME NEW p \in owed'[u]
        PROVE  IsOpened(p) /\ p \notin Malformed /\ Ahead(k, p)
    <3>1. /\ p \in PR \ Malformed /\ IsOpened(p)
          /\ RepoOf[p] \in ToSet(OrgReposFetched)
      BY <1>1, <1>10 DEF FetchOrgRepos
    <3>2. InRepos(k.todo, p)
      BY <2>3, <3>1 DEF ToSet, InRepos
    <3> QED
      BY <2>3, <3>1, <3>2 DEF Ahead
  <2>5. ASSUME NEW v \in Updater, NEW p \in owed'[v]
        PROVE  /\ IsOpened(p) /\ p \notin Malformed
               /\ p \in moved[v] \/ p \in DOMAIN pulls \/ Ahead(job'[v], p)
    BY <1>1, <2>2, <2>4 DEF OwedInv, Accounted
  <2>6. ASSUME NEW v \in Updater, NEW p, Ahead(job'[v], p) PROVE Ahead(job[v], p)'
    BY <2>1, <2>6 DEF Ahead, Listed, InRepos, InPrs
  <2> QED
    BY <2>1, <2>5, <2>6 DEF OwedInv, Accounted, IsOpened
<1>11. CASE NextRepo(u)
  BY <1>1, <1>11, NextRepoOwed
<1>12. CASE Finish(u) \/ ApiError(u)
  BY <1>3, <1>12 DEF Finish, ApiError
<1>13. CASE FetchPullsRequest(u)
  BY <1>1, <1>13, FetchPullsRequestOwed
<1>14. CASE FetchPullRequest(u)
  <2>1. /\ j.pc = "pr" /\ j.prs # << >> /\ UNCHANGED ghVars /\ UNCHANGED ghostVars
    BY <1>14 DEF FetchPullRequest
  <2>2. CASE Url(u) \in Malformed
    <3>1. job' = [job EXCEPT ![u] = NextPull(j)]
      BY <1>14, <2>2 DEF FetchPullRequest
    <3> QED
      BY <1>7, <2>1, <2>2, <3>1
  <2>3. CASE Url(u) \notin Malformed
    <3> DEFINE k == [j EXCEPT !.pc = "find", !.row = Converted(gh[Url(u)])]
    <3>1. job' = [job EXCEPT ![u] = k]
      BY <1>14, <2>3 DEF FetchPullRequest
    <3>2. k.pc = "find" /\ k.todo = j.todo /\ k.prs = j.prs
      BY <1>1 DEF Job
    <3> HIDE DEF k
    <3> QED
      BY <1>5, <2>1, <3>1, <3>2 DEF InHand
  <2> QED
    BY <2>2, <2>3
<1>15. CASE RepoDone(u)
  <2> DEFINE k == [j EXCEPT !.pc = "next", !.todo = Tail(j.todo)]
  <2>1. /\ job' = [job EXCEPT ![u] = k] /\ j.pc = "pr" /\ j.prs = << >>
        /\ UNCHANGED ghVars /\ UNCHANGED ghostVars
    BY <1>15 DEF RepoDone
  <2>2. k.pc = "next" /\ k.todo = Tail(j.todo)
    BY <1>1 DEF Job
  <2> HIDE DEF k
  <2>3. ASSUME NEW p, Ahead(j, p) PROVE Ahead(k, p)
    <3>1. DOMAIN j.prs = {}
      BY <2>1, EmptySeq
    <3>2. InRepos(Tail(j.todo), p)
      BY <2>1, <2>3, <3>1 DEF Ahead, InPrs
    <3> QED
      BY <2>2, <3>2 DEF Ahead
  <2> QED
    BY <1>4, <2>1, <2>3
<1>16. CASE PullRequestByURL(u)
  <2> DEFINE k == [j EXCEPT !.pc = "commits", !.page = 1]
             m == [j EXCEPT !.pc = "commits", !.page = 1,
                            !.dbPR = pulls[Url(u)].updatedAt]
  <2>1. /\ j.pc = "find" /\ UNCHANGED ghVars /\ UNCHANGED ghostVars /\ pulls' = pulls
    BY <1>16 DEF PullRequestByURL, dbVars
  <2>2. \/ job' = [job EXCEPT ![u] = k]
        \/ job' = [job EXCEPT ![u] = m]
        \/ job' = [job EXCEPT ![u] = NextPull(j)] /\ Url(u) \in DOMAIN pulls
    BY <1>16 DEF PullRequestByURL, PullRequestNotFound
  <2>3. /\ k.pc = "commits" /\ k.todo = j.todo /\ k.prs = j.prs
        /\ m.pc = "commits" /\ m.todo = j.todo /\ m.prs = j.prs
    BY <1>1 DEF Job
  <2> HIDE DEF k, m
  <2>4. CASE job' = [job EXCEPT ![u] = k]
    BY <1>5, <2>1, <2>3, <2>4 DEF InHand
  <2>5. CASE job' = [job EXCEPT ![u] = m]
    BY <1>5, <2>1, <2>3, <2>5 DEF InHand
  <2>6. CASE job' = [job EXCEPT ![u] = NextPull(j)] /\ Url(u) \in DOMAIN pulls
    BY <1>7, <1>8, <2>1, <2>6 DEF InHand
  <2> QED
    BY <2>2, <2>4, <2>5, <2>6
<1>17. CASE FetchPullRequestCommits(u)
  <2> DEFINE row == [j.row EXCEPT !.commits = @ \o CommitsPage(Url(u), j.page)]
             k == [j EXCEPT !.pc = "reviews"]
             m == [j EXCEPT !.row = row, !.page = j.page + 1]
  <2>1. /\ j.pc = "commits" /\ UNCHANGED ghVars /\ UNCHANGED ghostVars
    BY <1>17 DEF FetchPullRequestCommits
  <2>2. job' = [job EXCEPT ![u] = k] \/ job' = [job EXCEPT ![u] = m]
    BY <1>1, <1>17 DEF FetchPullRequestCommits
  <2> HIDE DEF row
  <2>3. /\ k.pc = "reviews" /\ k.todo = j.todo /\ k.prs = j.prs
        /\ m.pc = "commits" /\ m.todo = j.todo /\ m.prs = j.prs
    BY <1>1, <2>1 DEF Job
  <2> HIDE DEF k, m
  <2> QED
    BY <1>5, <2>1, <2>2, <2>3 DEF InHand
<1>18. CASE FetchPullRequestReviews(u)
  <2> DEFINE row == [j.row EXCEPT !.reviews = ReviewsFetched(Url(u))]
             k == [j EXCEPT !.pc = "save", !.row = row]
  <2>1. /\ j.pc = "reviews" /\ UNCHANGED ghVars /\ UNCHANGED ghostVars
        /\ job' = [job EXCEPT ![u] = k]
    BY <1>1, <1>18 DEF FetchPullRequestReviews
  <2> HIDE DEF row
  <2>2. k.pc = "save" /\ k.todo = j.todo /\ k.prs = j.prs
    BY <1>1 DEF Job
  <2> HIDE DEF k
  <2> QED
    BY <1>5, <2>1, <2>2 DEF InHand
<1>19. CASE Save(u)
  <2>1. /\ j.pc = "save" /\ UNCHANGED ghVars /\ UNCHANGED ghostVars
        /\ job' = [job EXCEPT ![u] = NextPull(j)]
    BY <1>19 DEF Save
  <2>2. Url(u) \in DOMAIN pulls'
    BY <1>19 DEF Save, NewPullRequest, UpdatePullRequest, Write, dbVars
  <2> QED
    BY <1>7, <1>8, <2>1, <2>2 DEF InHand
<1>20. CASE DbError(u)
  <2>1. /\ j.pc \in {"find", "save"} /\ UNCHANGED ghVars /\ moved' = moved
        /\ job' = [job EXCEPT ![u] = NextPull(j)]
    BY <1>20 DEF DbError
  <2>2. /\ owed'[u] = owed[u] \ {Url(u)}
        /\ \A v \in Updater \ {u} : owed'[v] = owed[v]
    BY <1>1, <1>20 DEF DbError
  <2>3. ASSUME NEW p \in owed'[u], Ahead(j, p) PROVE Ahead(NextPull(j), p)
    BY <1>6, <1>8, <2>1, <2>2, <2>3 DEF InHand
  <2> QED
    BY <1>1, <1>2, <2>1, <2>2, <2>3, OwedStep
<1>21. CASE Cancel(u)
  <2> DEFINE k == [j EXCEPT !.cancelled = TRUE]
  <2>1. job' = [job EXCEPT ![u] = k] /\ UNCHANGED ghVars /\ UNCHANGED ghostVars
    BY <1>21 DEF Cancel
  <2>2. k.pc = j.pc /\ k.todo = j.todo /\ k.prs = j.prs /\ k.page = j.page
    BY <1>1 DEF Job
  <2> HIDE DEF k
  <2>3. ASSUME NEW p, Ahead(j, p) PROVE Ahead(k, p)
    BY <2>2, <2>3 DEF Ahead, InPrs
  <2> QED
    BY <1>4, <2>1, <2>3
<1> QED
  BY <1>9, <1>10, <1>11, <1>12, <1>13, <1>14, <1>15, <1>16, <1>17, <1>18, <1>19,
     <1>20, <1>21 DEF Step, UpdaterFault

(* A step of GitHub: what goes to the front is on the page still to be      *)
(* asked for when that is the first one, has been seen, or has slipped      *)
(* past; nothing else comes forward.                                        *)
LEMMA EnvironmentOwed ==
    ASSUME GitHubAssumption, UpdateAssumption, ListingInv,
           NEW p \in PR, Environment(p)
    PROVE  ListingComplete' /\ OwedInv'
<1>1. OpenPullRequest(p) \/ UpdateOnGitHub(p)
  BY DEF Environment
<1>2. /\ job \in [Updater -> Job] /\ owed \in [Updater -> SUBSET PR]
      /\ moved \in [Updater -> SUBSET PR] /\ GitHubTypeOK /\ GitHubInv
  BY DEF ListingInv, Inv, TypeOK
<1>3. /\ job' = job /\ pulls' = pulls /\ owed' = owed
      /\ \A u \in Updater : moved[u] \subseteq moved'[u]
      /\ \A u \in Updater : SlipsPast(u, p) => p \in moved'[u]
  BY <1>2 DEF Environment, dbVars
<1>4. \A q \in PR : IsOpened(q) => IsOpened(q)'
  BY <1>1, <1>2, GitHubStep
<1>5. \A q \in PR \ {p} : gh'[q] = gh[q]
  BY <1>1, <1>2, GitHubStep
<1>6. Listed(recent'[RepoOf[p]], p, 0)
  BY <1>1, <1>2, FrontStep
<1>7. \A q \in PR \ {p}, a \in Nat :
         Listed(recent[RepoOf[q]], q, a) => Listed(recent'[RepoOf[q]], q, a)
  BY <1>1, <1>2, FrontStep
<1>8. ListingComplete'
  <2>1. ASSUME NEW q \in PR, gh'[q].updatedAt > 0
        PROVE  Listed(recent'[RepoOf[q]], q, 0)
    <3>1. CASE q = p
      BY <1>6, <3>1
    <3>2. CASE q # p
      <4>1. Listed(recent[RepoOf[q]], q, 0)
        BY <1>5, <2>1, <3>2 DEF ListingInv, ListingComplete, IsOpened
      <4> QED
        BY <1>7, <3>2, <4>1
    <3> QED
      BY <3>1, <3>2
  <2> QED
    BY <2>1 DEF ListingComplete, IsOpened, Listed
<1>9. ASSUME NEW u \in Updater, NEW q \in PR, Ahead(job[u], q), ~(q = p /\ SlipsPast(u, p))
      PROVE  Ahead(job[u], q)'
  <2> DEFINE j == job[u]
  <2>1. j.page \in Nat \ {0}
    BY <1>2 DEF Job
  <2>2. CASE j.pc = "next" /\ InRepos(j.todo, q)
    BY <1>3, <2>2 DEF Ahead, InRepos
  <2>3. CASE /\ j.pc \in {"pulls", "pr"} \cup InHand
             /\ InRepos(Tail(j.todo), q) \/ InPrs(j, q)
    BY <1>3, <2>3 DEF Ahead, InRepos, InPrs, InHand
  <2>4. CASE /\ j.pc = "pulls" /\ RepoOf[q] = Head(j.todo) /\ ~InPrs(j, q)
             /\ Listed(recent[RepoOf[q]], q, Before(PullsPerPage, j.page))
    <3>1. PICK a \in Nat : a = Before(PullsPerPage, j.page) /\ (j.page = 1 => a = 0)
      <4>1. PullsPerPage \in Nat \ {0}
        BY DEF UpdateAssumption
      <4>2. Before(PullsPerPage, j.page) \in Nat /\ Before(PullsPerPage, 1) = 0
        BY <2>1, <4>1, BeforeProperties
      <4> QED
        BY <4>2
    <3>2. Listed(recent'[RepoOf[q]], q, a)
      <4>1. CASE q # p
        BY <1>7, <2>4, <3>1, <4>1
      <4>2. CASE q = p
        <5>1. ~(j.page > 1)
          BY <1>9, <2>4, <4>2 DEF SlipsPast, InPrs
        <5>2. a = 0
          BY <2>1, <3>1, <5>1
        <5> QED
          BY <1>6, <4>2, <5>2
      <4> QED
        BY <4>1, <4>2
    <3> QED
      BY <1>3, <2>4, <3>1, <3>2 DEF Ahead, Listed
  <2> QED
    BY <1>9, <2>2, <2>3, <2>4 DEF Ahead
<1>10. OwedInv'
  <2>1. ASSUME NEW u \in Updater, NEW q \in owed[u]
        PROVE  /\ IsOpened(q)' /\ q \notin Malformed
               /\ q \in moved'[u] \/ q \in DOMAIN pulls \/ Ahead(job[u], q)'
    <3>1. q \in PR
      BY <1>2
    <3>2. /\ IsOpened(q) /\ q \notin Malformed
          /\ q \in moved[u] \/ q \in DOMAIN pulls \/ Ahead(job[u], q)
      BY DEF ListingInv, OwedInv, Accounted
    <3> QED
      BY <1>3, <1>4, <1>9, <3>1, <3>2
  <2> QED
    BY <1>3, <2>1 DEF OwedInv, Accounted
<1> QED
  BY <1>8, <1>10

-----------------------------------------------------------------------------
LEMMA InitListing ==
    ASSUME GitHubAssumption, UpdateAssumption, Init
    PROVE  ListingInv
<1>1. Inv
  BY InitInv
<1>2. ListingComplete
  BY DEF Init, GitHubInit, ListingComplete, IsOpened
<1>3. OwedInv
  BY DEF Init, OwedInv
<1> QED
  BY <1>1, <1>2, <1>3 DEF ListingInv

LEMMA NextListing ==
    ASSUME GitHubAssumption, UpdateAssumption, ListingInv, [Next]_vars
    PROVE  ListingInv'
<1>1. Inv'
  BY NextInv DEF ListingInv
<1>2. ASSUME UNCHANGED ghVars PROVE ListingComplete'
  BY <1>2 DEF ListingInv, ListingComplete, IsOpened, Listed, ghVars
<1>3. ASSUME NEW u \in Updater, Call(u) \/ Step(u) \/ UpdaterFault(u)
      PROVE  ListingComplete' /\ OwedInv'
  <2>1. UNCHANGED ghVars
    BY <1>3 DEF Call, Step, UpdaterFault, FetchOrgRepos, NextRepo, Finish,
       FetchPullsRequest, FetchPullRequest, RepoDone, PullRequestByURL,
       FetchPullRequestCommits, FetchPullRequestReviews, Save, ApiError,
       DbError, Cancel
  <2> QED
    BY <1>2, <1>3, <2>1, OwedActions
<1>4. ASSUME NEW p \in PR, Environment(p)
      PROVE  ListingComplete' /\ OwedInv'
  BY <1>4, EnvironmentOwed
<1>5. ASSUME Crash
      PROVE  ListingComplete' /\ OwedInv'
  <2>1. UNCHANGED ghVars /\ \A u \in Updater : owed'[u] = {}
    BY <1>5 DEF Crash
  <2> QED
    BY <1>2, <2>1 DEF OwedInv
<1>6. ASSUME UNCHANGED vars
      PROVE  ListingComplete' /\ OwedInv'
  <2>1. /\ UNCHANGED ghVars /\ job' = job /\ gh' = gh /\ recent' = recent
        /\ pulls' = pulls /\ owed' = owed /\ moved' = moved
    BY <1>6 DEF vars, ghVars, dbVars, ghostVars
  <2>2. OwedInv'
    BY <2>1 DEF ListingInv, OwedInv, Accounted, Ahead, InRepos, InPrs, Listed,
                IsOpened
  <2> QED
    BY <1>2, <2>1, <2>2
<1> QED
  BY <1>1, <1>3, <1>4, <1>5, <1>6 DEF Next, ListingInv

(* "Let the current repo finish before exiting on cancel": for any          *)
(* organization and any sizes of the pages, however the listings change     *)
(* while they are read, an Update between two repositories has stored all   *)
(* that it owes of those it has done.                                       *)
THEOREM RepositoriesAreWhole == Spec => []WholeReposStored
<1>1. Init => ListingInv
  BY GitHubAssumption, UpdateAssumption, InitListing
<1>2. ListingInv /\ [Next]_vars => ListingInv'
  BY GitHubAssumption, UpdateAssumption, NextListing
<1>3. ListingInv => WholeReposStored
  <2> SUFFICES ASSUME ListingInv, NEW u \in Updater, job[u].pc = "next",
                      NEW p \in owed[u] \ moved[u], p \notin DOMAIN pulls
               PROVE  RepoOf[p] \in ToSet(job[u].todo)
    BY DEF WholeReposStored
  <2>1. Ahead(job[u], p)
    BY DEF ListingInv, OwedInv, Accounted
  <2>2. InRepos(job[u].todo, p)
    BY <2>1 DEF Ahead, InHand
  <2> QED
    BY <2>2 DEF InRepos, ToSet
<1> QED
  BY <1>1, <1>2, <1>3, PTL DEF Spec

-----------------------------------------------------------------------------
(* The work left, of an Update whose local variables j holds.               *)
EntriesLeft(j) ==
    IF j.pc = "pulls"
    THEN Unread(Len(recent[Head(j.todo)]), PullsPerPage, j.page)
    ELSE Len(j.prs)

CommitsLeft(j) ==
    IF j.pc = "commits"
    THEN Unread(gh[Head(j.prs).pr].commits, CommitsPerPage, j.page)
    ELSE 0

Work(j) ==
    <<Stage[j.pc], Len(j.todo), RepoStage[j.pc], EntriesLeft(j), PullStage[j.pc],
      CommitsLeft(j)>>

(* The first part in which two of them differ tells which is less.          *)
LEMMA LessByParts ==
    ASSUME NEW s, NEW t, DOMAIN s = 1 .. 6,
           \/ s[1] < t[1]
           \/ s[1] = t[1] /\ s[2] < t[2]
           \/ s[1] = t[1] /\ s[2] = t[2] /\ s[3] < t[3]
           \/ s[1] = t[1] /\ s[2] = t[2] /\ s[3] = t[3] /\ s[4] < t[4]
           \/ s[1] = t[1] /\ s[2] = t[2] /\ s[3] = t[3] /\ s[4] = t[4] /\ s[5] < t[5]
           \/ /\ s[1] = t[1] /\ s[2] = t[2] /\ s[3] = t[3] /\ s[4] = t[4] /\ s[5] = t[5]
              /\ s[6] < t[6]
    PROVE  Less(s, t)
<1>1. PICK i \in 1 .. 6 : s[i] < t[i] /\ \A k \in 1 .. i - 1 : s[k] = t[k]
  <2>1. CASE s[1] < t[1]
    <3>1. 1 \in 1 .. 6 /\ 1 .. 1 - 1 = {}
      OBVIOUS
    <3> QED
      BY <2>1, <3>1
  <2>2. CASE s[1] = t[1] /\ s[2] < t[2]
    <3>1. 2 \in 1 .. 6 /\ 1 .. 2 - 1 = {1}
      OBVIOUS
    <3> QED
      BY <2>2, <3>1
  <2>3. CASE s[1] = t[1] /\ s[2] = t[2] /\ s[3] < t[3]
    <3>1. 3 \in 1 .. 6 /\ 1 .. 3 - 1 = {1, 2}
      OBVIOUS
    <3> QED
      BY <2>3, <3>1
  <2>4. CASE s[1] = t[1] /\ s[2] = t[2] /\ s[3] = t[3] /\ s[4] < t[4]
    <3>1. 4 \in 1 .. 6 /\ 1 .. 4 - 1 = {1, 2, 3}
      OBVIOUS
    <3> QED
      BY <2>4, <3>1
  <2>5. CASE s[1] = t[1] /\ s[2] = t[2] /\ s[3] = t[3] /\ s[4] = t[4] /\ s[5] < t[5]
    <3>1. 5 \in 1 .. 6 /\ 1 .. 5 - 1 = {1, 2, 3, 4}
      OBVIOUS
    <3> QED
      BY <2>5, <3>1
  <2>6. CASE s[1] = t[1] /\ s[2] = t[2] /\ s[3] = t[3] /\ s[4] = t[4] /\ s[5] = t[5] /\ s[6] < t[6]
    <3>1. 6 \in 1 .. 6 /\ 1 .. 6 - 1 = {1, 2, 3, 4, 5}
      OBVIOUS
    <3> QED
      BY <2>6, <3>1
  <2> QED
    BY <2>1, <2>2, <2>3, <2>4, <2>5, <2>6
<1> QED
  BY <1>1 DEF Less

LEMMA LessWork ==
    ASSUME NEW j, NEW k,
           \/ Stage[k.pc] < Stage[j.pc]
           \/ /\ Stage[k.pc] = Stage[j.pc]
              /\ Len(k.todo) < Len(j.todo)
           \/ /\ Stage[k.pc] = Stage[j.pc] /\ Len(k.todo) = Len(j.todo)
              /\ RepoStage[k.pc] < RepoStage[j.pc]
           \/ /\ Stage[k.pc] = Stage[j.pc] /\ Len(k.todo) = Len(j.todo)
              /\ RepoStage[k.pc] = RepoStage[j.pc]
              /\ EntriesLeft(k) < EntriesLeft(j)
           \/ /\ Stage[k.pc] = Stage[j.pc] /\ Len(k.todo) = Len(j.todo)
              /\ RepoStage[k.pc] = RepoStage[j.pc]
              /\ EntriesLeft(k) = EntriesLeft(j)
              /\ PullStage[k.pc] < PullStage[j.pc]
           \/ /\ Stage[k.pc] = Stage[j.pc] /\ Len(k.todo) = Len(j.todo)
              /\ RepoStage[k.pc] = RepoStage[j.pc]
              /\ EntriesLeft(k) = EntriesLeft(j)
              /\ PullStage[k.pc] = PullStage[j.pc]
              /\ CommitsLeft(k) < CommitsLeft(j)
    PROVE  Less(Work(k), Work(j))
<1>1. PICK s, t : s = Work(k) /\ t = Work(j)
  OBVIOUS
<1>2. /\ DOMAIN s = 1 .. 6
      /\ s[1] = Stage[k.pc] /\ s[2] = Len(k.todo) /\ s[3] = RepoStage[k.pc]
      /\ s[4] = EntriesLeft(k) /\ s[5] = PullStage[k.pc] /\ s[6] = CommitsLeft(k)
  BY <1>1 DEF Work
<1>3. /\ t[1] = Stage[j.pc] /\ t[2] = Len(j.todo) /\ t[3] = RepoStage[j.pc]
      /\ t[4] = EntriesLeft(j) /\ t[5] = PullStage[j.pc] /\ t[6] = CommitsLeft(j)
  BY <1>1 DEF Work
<1>4. Less(s, t)
  BY <1>2, <1>3, LessByParts
<1> QED
  BY <1>1, <1>4

(* A page that is not empty leaves less to be read.                         *)
LEMMA UnreadFalls ==
    ASSUME NEW S, NEW s \in Seq(S), NEW size \in Nat \ {0}, NEW n \in Nat \ {0},
           PageOf(s, size, n) # << >>
    PROVE  Unread(Len(s), size, n + 1) < Unread(Len(s), size, n)
<1>1. PICK page \in Seq(S) : page = PageOf(s, size, n)
  BY PageOfProperties
<1>2. 1 \in 1 .. Len(page)
  <2>1. Len(page) \in Nat /\ Len(page) # 0
    BY <1>1, EmptySeq, LenProperties
  <2> QED
    BY <2>1
<1>3. Before(size, n) + 1 \in 1 .. Len(s)
  BY <1>1, <1>2, PageOfElements
<1>4. PICK a \in Nat, l \in Nat : a = Before(size, n) /\ l = Len(s)
  BY BeforeProperties, LenProperties
<1>5. Before(size, n + 1) = a + size
  BY <1>4, BeforeProperties
<1>6. /\ Unread(l, size, n) = IF a < l THEN l - a ELSE 0
      /\ Unread(l, size, n + 1) = IF a + size < l THEN l - (a + size) ELSE 0
  BY <1>4, <1>5 DEF Unread, Before
<1>7. a < l
  BY <1>3, <1>4
<1>8. Unread(l, size, n + 1) < Unread(l, size, n)
  BY <1>6, <1>7
<1> QED
  BY <1>4, <1>8

(* What the stages are worth.                                               *)
LEMMA Stages ==
    /\ Stage["idle"] = 0 /\ Stage["repos"] = 2
    /\ \A pc \in {"next", "pulls", "pr"} \cup InHand : Stage[pc] = 1
    /\ RepoStage["next"] = 2 /\ RepoStage["pulls"] = 1
    /\ \A pc \in {"pr"} \cup InHand : RepoStage[pc] = 0
    /\ PullStage["pr"] = 4 /\ PullStage["find"] = 3 /\ PullStage["commits"] = 2
    /\ PullStage["reviews"] = 1 /\ PullStage["save"] = 0
BY DEF Stage, RepoStage, PullStage, InHand

(* Within a repository's pull requests: an entry less, or nearer to the end *)
(* of the current one, or fewer of its commits to be read.                  *)
LEMMA LessOfPulls ==
    ASSUME NEW j, NEW k, j.pc \in {"pr"} \cup InHand, k.pc \in {"pr"} \cup InHand,
           k.todo = j.todo,
           \/ Len(k.prs) < Len(j.prs)
           \/ k.prs = j.prs /\ PullStage[k.pc] < PullStage[j.pc]
           \/ /\ k.prs = j.prs /\ k.pc = "commits" /\ j.pc = "commits"
              /\ Unread(gh[Head(j.prs).pr].commits, CommitsPerPage, k.page)
                    < Unread(gh[Head(j.prs).pr].commits, CommitsPerPage, j.page)
    PROVE  Less(Work(k), Work(j))
<1>1. /\ Stage[k.pc] = Stage[j.pc] /\ RepoStage[k.pc] = RepoStage[j.pc]
      /\ Len(k.todo) = Len(j.todo)
      /\ k.pc # "pulls" /\ j.pc # "pulls"
  BY Stages DEF InHand
<1>2. \/ Len(k.prs) < Len(j.prs)
      \/ Len(k.prs) = Len(j.prs) /\ PullStage[k.pc] < PullStage[j.pc]
      \/ /\ Len(k.prs) = Len(j.prs) /\ PullStage[k.pc] = PullStage[j.pc]
         /\ k.pc = "commits" /\ j.pc = "commits"
         /\ Unread(gh[Head(k.prs).pr].commits, CommitsPerPage, k.page)
               < Unread(gh[Head(j.prs).pr].commits, CommitsPerPage, j.page)
  OBVIOUS
<1>3. /\ EntriesLeft(k) = Len(k.prs) /\ EntriesLeft(j) = Len(j.prs)
      /\ k.pc = "commits" =>
            CommitsLeft(k) = Unread(gh[Head(k.prs).pr].commits, CommitsPerPage, k.page)
      /\ j.pc = "commits" =>
            CommitsLeft(j) = Unread(gh[Head(j.prs).pr].commits, CommitsPerPage, j.page)
  BY <1>1 DEF EntriesLeft, CommitsLeft
<1> QED
  BY <1>1, <1>2, <1>3, LessWork

(* An Update is as far as its local variables say.                          *)
LEMMA WorkOfJob ==
    ASSUME NEW u \in Updater, UNCHANGED ghVars
    PROVE  WorkLeft(u) = Work(job[u]) /\ WorkLeft(u)' = Work(job'[u])
<1>1. WorkLeft(u) = Work(job[u])
  BY DEF WorkLeft, Work, EntriesLeft, CommitsLeft, ListingUnread, CommitsUnread, Url, Current
<1>2. WorkLeft(u)' =
         <<Stage[job'[u].pc],
           Len(job'[u].todo),
           RepoStage[job'[u].pc],
           IF job'[u].pc = "pulls"
           THEN Unread(Len(recent'[Head(job'[u].todo)]), PullsPerPage, job'[u].page)
           ELSE Len(job'[u].prs),
           PullStage[job'[u].pc],
           IF job'[u].pc = "commits"
           THEN Unread(gh'[Head(job'[u].prs).pr].commits, CommitsPerPage, job'[u].page)
           ELSE 0>>
  BY DEF WorkLeft, ListingUnread, CommitsUnread, Url, Current, Unread
<1>3. recent' = recent /\ gh' = gh
  BY DEF ghVars
<1>4. WorkLeft(u)' = Work(job'[u])
  BY <1>2, <1>3 DEF Work, EntriesLeft, CommitsLeft
<1> QED
  BY <1>1, <1>4

(* A page of the listing that is not empty leaves less of it.               *)
LEMMA ListingFalls ==
    ASSUME UpdateAssumption, GitHubTypeOK, NEW r \in Repo, NEW n \in Nat \ {0},
           PullsPage(r, n) # << >>
    PROVE  Unread(Len(recent[r]), PullsPerPage, n + 1)
              < Unread(Len(recent[r]), PullsPerPage, n)
<1>1. recent[r] \in Seq(PR) /\ PullsPerPage \in Nat \ {0}
  BY DEF GitHubTypeOK, UpdateAssumption
<1>2. PICK page \in Seq(PR) : page = PageOf(recent[r], PullsPerPage, n)
  BY <1>1, PageOfProperties
<1>3. page # << >>
  <2> SUFFICES ASSUME page = << >> PROVE FALSE
    OBVIOUS
  <2>1. DOMAIN page = {}
    BY EmptySeq, LenProperties
  <2> DEFINE rows == [i \in DOMAIN page |->
                         [pr |-> page[i], updatedAt |-> gh[page[i]].updatedAt]]
  <2>2. rows \in [1 .. 0 -> Entry] /\ 1 .. 0 = {}
    BY <2>1
  <2>3. rows \in Seq(Entry)
    BY <2>2, SeqDef
  <2>4. rows = << >>
    BY <2>1, <2>3, EmptySeq, LenProperties
  <2>5. PullsPage(r, n) = rows
    BY <1>2 DEF PullsPage
  <2> QED
    BY <2>4, <2>5
<1> QED
  BY <1>1, <1>2, <1>3, UnreadFalls

(* And a page of commits.                                                   *)
LEMMA CommitsFall ==
    ASSUME UpdateAssumption, GitHubTypeOK, NEW p \in PR, NEW n \in Nat \ {0},
           CommitsPage(p, n) # << >>
    PROVE  Unread(gh[p].commits, CommitsPerPage, n + 1)
              < Unread(gh[p].commits, CommitsPerPage, n)
<1>1. PICK c \in Nat : c = gh[p].commits
  BY DEF GitHubTypeOK, Snapshot
<1> DEFINE t == [i \in 1 .. c |-> i]
<1>2. t \in [1 .. c -> Nat]
  OBVIOUS
<1>3. t \in Seq(Nat)
  BY <1>2, SeqDef
<1>4. 1 .. Len(t) = 1 .. c /\ Len(t) \in Nat
  BY <1>3, LenProperties
<1>5. CommitsPage(p, n) = PageOf(t, CommitsPerPage, n)
  BY <1>1 DEF CommitsPage
<1> HIDE DEF t
<1>6. Len(t) = c
  BY <1>4
<1>7. CommitsPerPage \in Nat \ {0}
  BY DEF UpdateAssumption
<1> QED
  BY <1>1, <1>3, <1>5, <1>6, <1>7, UnreadFalls

(* Every step of an Update leaves less to do, and so does a request or a    *)
(* database call that fails.                                                *)
LEMMA WorkFalls ==
    ASSUME UpdateAssumption, Inv, NEW u \in Updater,
           Step(u) \/ ApiError(u) \/ DbError(u)
    PROVE  Less(WorkLeft(u)', WorkLeft(u))
<1> DEFINE j == job[u]
           k == job'[u]
<1>1. /\ j \in Job /\ JobOK(j) /\ job \in [Updater -> Job]
      /\ j.todo \in Seq(Repo) /\ j.prs \in Seq(Entry) /\ j.page \in Nat \ {0}
  BY DEF Inv, TypeOK, JobInv, Job
<1>2. UNCHANGED ghVars
  BY DEF Step, FetchOrgRepos, NextRepo, Finish, FetchPullsRequest,
         FetchPullRequest, RepoDone, PullRequestByURL, FetchPullRequestCommits,
         FetchPullRequestReviews, Save, ApiError, DbError
<1>3. SUFFICES Less(Work(k), Work(j))
  BY <1>2, WorkOfJob
<1>4. /\ j.pc \in {"pulls", "pr"} \cup InHand => j.todo # << >>
      /\ j.pc \in InHand => j.prs # << >>
  BY <1>1 DEF JobOK
<1>5. ASSUME j.prs # << >>, j.pc \in {"pr"} \cup InHand, k = NextPull(j)
      PROVE  Less(Work(k), Work(j))
  <2>1. k.pc = "pr" /\ k.prs = Tail(j.prs) /\ k.todo = j.todo
    BY <1>1, <1>5 DEF NextPull, Job
  <2>2. Len(k.prs) < Len(j.prs)
    BY <1>1, <1>5, <2>1, EmptySeq, HeadTailProperties, LenProperties
  <2> QED
    BY <1>5, <2>1, <2>2, LessOfPulls
<1>6. ASSUME Return(u), j.pc # "idle"
      PROVE  Less(Work(k), Work(j))
  <2>1. k.pc = "idle"
    BY <1>1, <1>6 DEF Return, NoJob
  <2>2. Stage[k.pc] < Stage[j.pc]
    BY <1>1, <1>6, <2>1, Stages DEF Job, InHand
  <2> QED
    BY <2>2, LessWork
<1>7. CASE FetchOrgRepos(u)
  <2>1. j.pc = "repos" /\ k.pc = "next"
    BY <1>1, <1>7 DEF FetchOrgRepos, Job
  <2>2. Stage[k.pc] < Stage[j.pc]
    BY <2>1, Stages
  <2> QED
    BY <2>2, LessWork
<1>8. CASE NextRepo(u)
  <2>1. j.pc = "next" /\ k.pc = "pulls" /\ k.todo = j.todo
    BY <1>1, <1>8 DEF NextRepo, Job
  <2>2. Stage[k.pc] = Stage[j.pc] /\ RepoStage[k.pc] < RepoStage[j.pc]
    BY <2>1, Stages
  <2> QED
    BY <2>1, <2>2, LessWork
<1>9. CASE Finish(u)
  BY <1>6, <1>9 DEF Finish
<1>10. CASE FetchPullsRequest(u)
  <2>1. j.pc = "pulls" /\ j.todo # << >>
    BY <1>4, <1>10 DEF FetchPullsRequest
  <2>2. PICK r \in Repo : r = Head(j.todo)
    BY <1>1, <2>1, HeadTailProperties
  <2>3. CASE PullsPage(r, j.page) = << >>
    <3>1. k.pc = "pr" /\ k.todo = j.todo
      BY <1>1, <1>10, <2>2, <2>3 DEF FetchPullsRequest, Job
    <3>2. Stage[k.pc] = Stage[j.pc] /\ RepoStage[k.pc] < RepoStage[j.pc]
      BY <2>1, <3>1, Stages
    <3> QED
      BY <3>1, <3>2, LessWork
  <2>4. CASE PullsPage(r, j.page) # << >>
    <3>1. job' = [job EXCEPT ![u].prs = @ \o PullsPage(r, j.page), ![u].page = @ + 1]
      BY <1>10, <2>2, <2>4 DEF FetchPullsRequest
    <3>2. k.pc = "pulls" /\ k.todo = j.todo /\ k.page = j.page + 1
      BY <1>1, <2>1, <3>1 DEF Job
    <3>3. Unread(Len(recent[r]), PullsPerPage, k.page)
             < Unread(Len(recent[r]), PullsPerPage, j.page)
      BY <1>1, <2>4, <3>2, ListingFalls DEF Inv, TypeOK
    <3>4. EntriesLeft(k) < EntriesLeft(j)
      BY <2>1, <2>2, <3>2, <3>3 DEF EntriesLeft
    <3> QED
      BY <2>1, <3>2, <3>4, LessWork
  <2> QED
    BY <2>3, <2>4
<1>11. CASE FetchPullRequest(u)
  <2>1. j.prs # << >> /\ j.pc = "pr"
    BY <1>11 DEF FetchPullRequest
  <2>2. CASE Url(u) \in Malformed
    <3>1. k = NextPull(j)
      BY <1>1, <1>11, <2>2 DEF FetchPullRequest
    <3> QED
      BY <1>5, <2>1, <3>1
  <2>3. CASE Url(u) \notin Malformed
    <3>1. k.pc = "find" /\ k.prs = j.prs /\ k.todo = j.todo
      BY <1>1, <1>11, <2>3 DEF FetchPullRequest, Job
    <3> QED
      BY <2>1, <3>1, LessOfPulls, Stages DEF InHand
  <2> QED
    BY <2>2, <2>3
<1>12. CASE RepoDone(u)
  <2>1. j.pc = "pr" /\ k.pc = "next" /\ k.todo = Tail(j.todo) /\ j.todo # << >>
    BY <1>1, <1>4, <1>12 DEF RepoDone, Job
  <2>2. Stage[k.pc] = Stage[j.pc]
    BY <2>1, Stages
  <2>3. Len(k.todo) < Len(j.todo)
    BY <1>1, <2>1, EmptySeq, HeadTailProperties, LenProperties
  <2> QED
    BY <2>2, <2>3, LessWork
<1>13. CASE PullRequestByURL(u)
  <2>1. j.pc = "find" /\ j.prs # << >> /\ j.pc \in InHand
    BY <1>4, <1>13 DEF PullRequestByURL, InHand
  <2>2. k = NextPull(j) \/ (k.pc = "commits" /\ k.prs = j.prs /\ k.todo = j.todo)
    BY <1>1, <1>13 DEF PullRequestByURL, Job
  <2>3. CASE k.pc = "commits" /\ k.prs = j.prs /\ k.todo = j.todo
    BY <2>1, <2>3, LessOfPulls, Stages DEF InHand
  <2> QED
    BY <1>5, <2>1, <2>2, <2>3
<1>14. CASE FetchPullRequestCommits(u)
  <2>1. j.pc = "commits" /\ j.prs # << >> /\ j.pc \in InHand
    BY <1>4, <1>14 DEF FetchPullRequestCommits, InHand
  <2>2. CASE CommitsPage(Url(u), j.page) = << >>
    <3>1. k.pc = "reviews" /\ k.prs = j.prs /\ k.todo = j.todo
      BY <1>1, <1>14, <2>2 DEF FetchPullRequestCommits, Job
    <3> QED
      BY <2>1, <3>1, LessOfPulls, Stages DEF InHand
  <2>3. CASE CommitsPage(Url(u), j.page) # << >>
    <3>1. job' = [job EXCEPT ![u].row.commits = @ \o CommitsPage(Url(u), j.page),
                             ![u].page = @ + 1]
      BY <1>14, <2>3 DEF FetchPullRequestCommits
    <3>2. /\ k.pc = "commits" /\ k.prs = j.prs /\ k.todo = j.todo
          /\ k.page = j.page + 1
      BY <1>1, <2>1, <3>1 DEF Job
    <3>3. Url(u) = Head(j.prs).pr /\ Url(u) \in PR
      <4>1. Url(u) = Head(j.prs).pr
        BY DEF Url, Current
      <4>2. Head(j.prs) \in Entry
        BY <1>1, <2>1, HeadTailProperties
      <4> HIDE DEF j
      <4> QED
        BY <4>1, <4>2 DEF Entry
    <3>4. Unread(gh[Url(u)].commits, CommitsPerPage, k.page)
             < Unread(gh[Url(u)].commits, CommitsPerPage, j.page)
      BY <1>1, <2>3, <3>2, <3>3, CommitsFall DEF Inv, TypeOK
    <3> QED
      BY <2>1, <3>2, <3>3, <3>4, LessOfPulls DEF InHand
  <2> QED
    BY <2>2, <2>3
<1>15. CASE FetchPullRequestReviews(u)
  <2>1. j.pc = "reviews" /\ k.pc = "save" /\ k.prs = j.prs /\ k.todo = j.todo
    BY <1>1, <1>15 DEF FetchPullRequestReviews, Job
  <2> QED
    BY <2>1, LessOfPulls, Stages DEF InHand
<1>16. CASE Save(u) \/ DbError(u)
  <2>1. j.pc \in InHand /\ k = NextPull(j)
    BY <1>1, <1>16 DEF Save, DbError, InHand
  <2> QED
    BY <1>4, <1>5, <2>1
<1>17. CASE ApiError(u)
  BY <1>6, <1>17 DEF ApiError
<1> QED
  BY <1>7, <1>8, <1>9, <1>10, <1>11, <1>12, <1>13, <1>14, <1>15, <1>16, <1>17
     DEF Step

(* A step of GitHub that adds nothing to a page leaves an Update as much.   *)
LEMMA EnvironmentWork ==
    ASSUME GitHubAssumption, Inv, NEW p \in PR, Environment(p), ~PagesGrow,
           NEW u \in Updater
    PROVE  WorkLeft(u)' = WorkLeft(u)
<1>1. /\ gh \in [PR -> Snapshot] /\ recent \in [Repo -> Seq(PR)]
      /\ RepoOf[p] \in Repo /\ job' = job
      /\ gh[p].commits \in Nat /\ gh[p].updatedAt \in Nat
  BY DEF Inv, TypeOK, GitHubTypeOK, GitHubAssumption, Snapshot, Environment
<1>2. SubmitReview(p) \/ MergePullRequest(p)
  <2>1. ASSUME OpenPullRequest(p) PROVE FALSE
    <3>1. gh[p].commits = 0
      BY <1>1, <2>1 DEF OpenPullRequest, Inv, GitHubInv, IsOpened
    <3>2. gh'[p].commits = 1
      BY <1>1, <2>1 DEF OpenPullRequest, Snapshot
    <3> QED
      BY <3>1, <3>2 DEF PagesGrow
  <2>2. ASSUME PushCommit(p) PROVE FALSE
    <3>1. gh'[p].commits = gh[p].commits + 1
      BY <1>1, <2>2 DEF PushCommit, Snapshot
    <3> QED
      BY <1>1, <3>1 DEF PagesGrow
  <2> QED
    BY <2>1, <2>2 DEF Environment, UpdateOnGitHub
<1>3. ASSUME NEW q \in PR PROVE gh'[q].commits = gh[q].commits
  <2>1. gh[p] \in Snapshot
    BY <1>1
  <2>2. PICK g : gh' = [gh EXCEPT ![p] = g] /\ g.commits = gh[p].commits
    <3>1. CASE SubmitReview(p)
      <4> DEFINE g == [gh[p] EXCEPT !.updatedAt = @ + 1, !.reviews = @ + 1]
      <4>1. gh' = [gh EXCEPT ![p] = g]
        BY <3>1 DEF SubmitReview
      <4>2. g.commits = gh[p].commits
        BY <2>1 DEF Snapshot
      <4> QED
        BY <4>1, <4>2
    <3>2. CASE MergePullRequest(p)
      <4> DEFINE g == [gh[p] EXCEPT !.updatedAt = @ + 1,
                                    !.mergedAt = gh[p].updatedAt + 1]
      <4>1. gh' = [gh EXCEPT ![p] = g]
        BY <3>2 DEF MergePullRequest
      <4>2. g.commits = gh[p].commits
        BY <2>1 DEF Snapshot
      <4> QED
        BY <4>1, <4>2
    <3> QED
      BY <1>2, <3>1, <3>2
  <2> QED
    BY <1>1, <2>2
<1>4. \A r \in Repo : Len(recent'[r]) = Len(recent[r])
  <2>1. PICK t \in Seq(PR) : t = recent[RepoOf[p]]
    BY <1>1
  <2>2. PICK i \in DOMAIN t : recent' = [recent EXCEPT ![RepoOf[p]] = <<p>> \o RemoveAt(t, i)]
    BY <1>1, <1>2, <2>1 DEF SubmitReview, MergePullRequest, BringToFront
  <2>3. PICK s \in Seq(PR) : s = RemoveAt(t, i) /\ DOMAIN s = 1 .. Len(t) - 1
    BY RemoveAtProperties
  <2>4. Len(t) \in Nat /\ Len(s) \in Nat /\ i \in 1 .. Len(t)
        /\ 1 .. Len(s) = 1 .. Len(t) - 1
    BY <2>3, LenProperties
  <2>5. Len(s) = Len(t) - 1
    BY <2>4
  <2>6. <<p>> \in Seq(PR) /\ Len(<<p>>) = 1
    OBVIOUS
  <2>7. Len(<<p>> \o s) = Len(t)
    BY <2>4, <2>5, <2>6, ConcatProperties
  <2>8. recent' = [recent EXCEPT ![RepoOf[p]] = <<p>> \o s]
    BY <2>2, <2>3
  <2> QED
    BY <1>1, <2>1, <2>7, <2>8
<1> DEFINE j == job[u]
<1>5. j \in Job /\ JobOK(j) /\ j.todo \in Seq(Repo) /\ j.prs \in Seq(Entry)
  BY DEF Inv, TypeOK, JobInv, Job
<1>6. ASSUME j.pc = "pulls" PROVE Head(j.todo) \in Repo
  BY <1>5, <1>6, HeadTailProperties DEF JobOK
<1>7. ASSUME j.pc = "commits" PROVE Head(j.prs).pr \in PR
  <2>1. Head(j.prs) \in Entry
    BY <1>5, <1>7, HeadTailProperties DEF JobOK, InHand
  <2> HIDE DEF j
  <2> QED
    BY <2>1 DEF Entry
<1>8. WorkLeft(u)' =
         <<Stage[j.pc],
           Len(j.todo),
           RepoStage[j.pc],
           IF j.pc = "pulls"
           THEN Unread(Len(recent'[Head(j.todo)]), PullsPerPage, j.page)
           ELSE Len(j.prs),
           PullStage[j.pc],
           IF j.pc = "commits"
           THEN Unread(gh'[Head(j.prs).pr].commits, CommitsPerPage, j.page)
           ELSE 0>>
  BY <1>1 DEF WorkLeft, ListingUnread, CommitsUnread, Url, Current, Unread
<1>9. WorkLeft(u) = Work(j)
  BY DEF WorkLeft, Work, EntriesLeft, CommitsLeft, ListingUnread, CommitsUnread, Url, Current
<1> HIDE DEF j
<1>10. /\ j.pc = "pulls" => Len(recent'[Head(j.todo)]) = Len(recent[Head(j.todo)])
       /\ j.pc = "commits" => gh'[Head(j.prs).pr].commits = gh[Head(j.prs).pr].commits
  BY <1>3, <1>4, <1>6, <1>7
<1> QED
  BY <1>8, <1>9, <1>10 DEF Work, EntriesLeft, CommitsLeft

(* An Update comes to an end: for any organization, any sizes of the pages, *)
(* and any number of Updates, faults and crashes, each step of an Update    *)
(* leaves it less to do, and only pages that grow on GitHub give it more.   *)
THEOREM UpdatesComeToAnEnd == Spec => StepsComeToAnEnd
<1>1. ASSUME Inv, [Next]_vars, NEW u \in Updater, Running(u), ~PagesGrow
      PROVE  \/ Less(WorkLeft(u)', WorkLeft(u))
             \/ WorkLeft(u)' = WorkLeft(u) /\ ~Step(u)
  <2>1. ASSUME Step(u) \/ ApiError(u) \/ DbError(u)
        PROVE  Less(WorkLeft(u)', WorkLeft(u))
    BY <1>1, <2>1, UpdateAssumption, WorkFalls
  <2>2. SUFFICES ASSUME ~Step(u)
                 PROVE  \/ Less(WorkLeft(u)', WorkLeft(u))
                        \/ WorkLeft(u)' = WorkLeft(u)
    BY <2>1
  <2>3. ASSUME UNCHANGED ghVars, job'[u] = job[u] PROVE WorkLeft(u)' = WorkLeft(u)
    BY <2>3, WorkOfJob
  <2>4. /\ job[u] \in Job /\ job \in [Updater -> Job]
    BY <1>1 DEF Inv, TypeOK
  <2>5. CASE Cancel(u)
    <3>1. UNCHANGED ghVars
      BY <2>5 DEF Cancel
    <3>2. /\ job'[u].pc = job[u].pc /\ job'[u].todo = job[u].todo
          /\ job'[u].prs = job[u].prs /\ job'[u].page = job[u].page
      BY <2>4, <2>5 DEF Cancel, Job
    <3>3. Work(job'[u]) = Work(job[u])
      BY <3>2 DEF Work, EntriesLeft, CommitsLeft
    <3> QED
      BY <3>1, <3>3, WorkOfJob
  <2>6. ASSUME NEW v \in Updater \ {u}, Call(v) \/ Step(v) \/ UpdaterFault(v)
        PROVE  WorkLeft(u)' = WorkLeft(u)
    <3>1. UNCHANGED ghVars
      BY <2>6 DEF Call, Step, UpdaterFault, FetchOrgRepos, NextRepo, Finish,
         FetchPullsRequest, FetchPullRequest, RepoDone, PullRequestByURL,
         FetchPullRequestCommits, FetchPullRequestReviews, Save, ApiError,
         DbError, Cancel
    <3>2. job'[u] = job[u]
      BY <2>4, <2>6 DEF Call, Step, UpdaterFault, FetchOrgRepos, NextRepo, Finish,
         Return, FetchPullsRequest, FetchPullRequest, RepoDone, PullRequestByURL,
         FetchPullRequestCommits, FetchPullRequestReviews, Save, ApiError,
         DbError, Cancel
    <3> QED
      BY <2>3, <3>1, <3>2
  <2>7. ASSUME Crash PROVE Less(WorkLeft(u)', WorkLeft(u))
    <3>1. UNCHANGED ghVars /\ job'[u].pc = "idle"
      BY <2>7 DEF Crash, NoJob
    <3>2. Stage[job'[u].pc] < Stage[job[u].pc]
      BY <1>1, <2>4, <3>1, Stages DEF Running, Job, InHand
    <3>3. Less(Work(job'[u]), Work(job[u]))
      BY <3>2, LessWork
    <3> QED
      BY <3>1, <3>3, WorkOfJob
  <2>8. ASSUME NEW p \in PR, Environment(p) PROVE WorkLeft(u)' = WorkLeft(u)
    BY <1>1, <2>8, GitHubAssumption, EnvironmentWork
  <2>9. ASSUME UNCHANGED vars PROVE WorkLeft(u)' = WorkLeft(u)
    BY <2>3, <2>9 DEF vars, ghVars
  <2>10. ~Call(u)
    BY <1>1 DEF Call, Running
  <2> QED
    BY <1>1, <2>1, <2>2, <2>5, <2>6, <2>7, <2>8, <2>9, <2>10 DEF Next, UpdaterFault
<1>2. Inv /\ [Next]_vars =>
         [\A u \in Updater : Running(u) =>
             \/ Less(WorkLeft(u)', WorkLeft(u))
             \/ WorkLeft(u)' = WorkLeft(u) /\ ~Step(u)
             \/ PagesGrow]_vars
  BY <1>1
<1>3. Init => Inv
  BY GitHubAssumption, UpdateAssumption, InitInv
<1>4. Inv /\ [Next]_vars => Inv'
  BY GitHubAssumption, UpdateAssumption, NextInv
<1> QED
  BY <1>2, <1>3, <1>4, PTL DEF Spec, StepsComeToAnEnd
=============================================================================
