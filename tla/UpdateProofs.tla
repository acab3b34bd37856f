---------------------------- MODULE UpdateProofs ----------------------------
(***************************************************************************)
(* What Update promises for any organization, any sizes of the pages, any  *)
(* number of Updates at once and any number of faults: its variables and   *)
(* the tables' rows are of their types, and every row is a snapshot of its *)
(* pull request.  For Updates that do not overlap: rows never go back, and *)
(* the database is a mirror of GitHub (the safety part of Mirror).         *)
(*                                                                         *)
(* StoredIsSnapshot is not inductive: a Save writes the row in hand, so    *)
(* JobInv says that row is a snapshot as well, and GitHubInv what makes    *)
(* the fetched pull requests ones that were opened.                        *)
(***************************************************************************)
EXTENDS Update, StoreProofs

-----------------------------------------------------------------------------
(* A page of a sequence is a sequence of the same things.                   *)
LEMMA PageOfProperties ==
    ASSUME NEW S, NEW s \in Seq(S), NEW size \in Nat \ {0}, NEW n \in Nat \ {0}
    PROVE  PageOf(s, size, n) \in Seq(S)
<1> DEFINE a == (n - 1) * size + 1
           b == IF n * size < Len(s) THEN n * size ELSE Len(s)
<1>1. a \in Nat \ {0} /\ b \in Nat /\ b <= Len(s)
  <2>1. (n - 1) * size \in Nat /\ n * size \in Nat
    OBVIOUS
  <2> QED
    BY <2>1, LenProperties
<1> HIDE DEF a, b
<1>2. \A i \in a .. b : i \in 1 .. Len(s) /\ s[i] \in S
  BY <1>1, ElementOfSeq
<1>3. SubSeq(s, a, b) \in Seq(S)
  BY <1>1, <1>2, SubSeqProperties
<1>4. PageOf(s, size, n) = SubSeq(s, a, b)
  BY DEF PageOf, a, b
<1> QED
  BY <1>3, <1>4

(* How many elements the pages before the n-th hold, when all are full.     *)
Before(size, n) == (n - 1) * size

LEMMA BeforeProperties ==
    ASSUME NEW size \in Nat \ {0}, NEW n \in Nat \ {0}
    PROVE  /\ Before(size, n) \in Nat
           /\ Before(size, 1) = 0
           /\ Before(size, n + 1) = Before(size, n) + size
<1>1. (n - 1) * size \in Nat /\ (1 - 1) * size = 0
  OBVIOUS
<1>2. (n + 1 - 1) * size = (n - 1) * size + size
  OBVIOUS
<1> QED
  BY <1>1, <1>2 DEF Before

(* The n-th page holds what comes after the pages before it, as far as      *)
(* there is anything and the page is not full.                              *)
LEMMA PageOfElements ==
    ASSUME NEW S, NEW s \in Seq(S), NEW size \in Nat \ {0}, NEW n \in Nat \ {0}
    PROVE  /\ PageOf(s, size, n) = << >> => Len(s) <= Before(size, n)
           /\ PageOf(s, size, n) # << >> =>
                 \/ Before(size, n) + Len(PageOf(s, size, n)) = Before(size, n + 1)
                 \/ Before(size, n) + Len(PageOf(s, size, n)) = Len(s)
           /\ \A i \in 1 .. Len(PageOf(s, size, n)) :
                 /\ Before(size, n) + i \in 1 .. Len(s)
                 /\ PageOf(s, size, n)[i] = s[Before(size, n) + i]
           /\ \A i \in 1 .. Len(s) :
                 Before(size, n) < i /\ i <= Before(size, n + 1) =>
                    i - Before(size, n) \in 1 .. Len(PageOf(s, size, n))
<1>0. PICK a \in Nat, c \in Nat : /\ a = Before(size, n) /\ c = Before(size, n + 1)
                               /\ c = a + size
  <2>1. /\ Before(size, n) \in Nat
        /\ Before(size, n + 1) = Before(size, n) + size
    BY BeforeProperties
  <2>2. Before(size, n + 1) \in Nat
    BY <2>1
  <2> QED
    BY <2>1, <2>2
<1> DEFINE b == IF c < Len(s) THEN c ELSE Len(s)
           page == SubSeq(s, a + 1, b)
<1>1. Len(s) \in Nat
  BY LenProperties
<1>2. b \in Nat /\ b <= Len(s) /\ b <= c /\ b \in {c, Len(s)}
  BY <1>1
<1>3. Len(s) <= b \/ b = c
  BY <1>1
<1> HIDE DEF b
<1>4. \A i \in a + 1 .. b : s[i] \in S
  BY <1>1, <1>2, ElementOfSeq
<1>5. /\ page \in Seq(S)
      /\ Len(page) = IF a + 1 <= b THEN b - (a + 1) + 1 ELSE 0
      /\ \A i \in 1 .. b - (a + 1) + 1 : page[i] = s[a + 1 + i - 1]
  BY <1>2, <1>4, SubSeqProperties
<1>6. PageOf(s, size, n) = page
  <2>1. a = (n - 1) * size /\ c = n * size
    BY <1>0 DEF Before
  <2> QED
    BY <2>1 DEF PageOf, b
<1> HIDE DEF page
<1>7. Len(page) = IF a < b THEN b - a ELSE 0
  BY <1>2, <1>5
<1>8. SUFFICES
         /\ page = << >> => Len(s) <= a
         /\ page # << >> => a + Len(page) = c \/ a + Len(page) = Len(s)
         /\ \A i \in 1 .. Len(page) : a + i \in 1 .. Len(s) /\ page[i] = s[a + i]
         /\ \A i \in 1 .. Len(s) : a < i /\ i <= c => i - a \in 1 .. Len(page)
  BY <1>0, <1>6
<1>9. CASE a < b
  <2>1. Len(page) = b - a /\ Len(page) # 0
    BY <1>2, <1>7, <1>9
  <2>2. page # << >>
    BY <2>1, EmptySeq
  <2>3. ASSUME NEW i \in 1 .. Len(page)
        PROVE  a + i \in 1 .. Len(s) /\ page[i] = s[a + i]
    <3>1. i \in 1 .. b - (a + 1) + 1 /\ a + 1 + i - 1 = a + i
      BY <1>2, <2>1
    <3> QED
      BY <1>1, <1>2, <1>5, <2>1, <3>1
  <2>4. ASSUME NEW i \in 1 .. Len(s), a < i, i <= c
        PROVE  i - a \in 1 .. Len(page)
    BY <1>1, <1>2, <1>3, <2>1, <2>4
  <2>5. a + Len(page) = c \/ a + Len(page) = Len(s)
    BY <1>1, <1>2, <2>1
  <2> QED
    BY <1>8, <2>2, <2>3, <2>4, <2>5
<1>10. CASE ~(a < b)
  <2>1. Len(page) = 0
    BY <1>7, <1>10
  <2>2. page = << >>
    BY <1>5, <2>1, EmptySeq
  <2>3. Len(s) <= a
    BY <1>0, <1>1, <1>2, <1>3, <1>10
  <2>4. 1 .. Len(page) = {}
    BY <2>1
  <2>5. \A i \in 1 .. Len(s) : ~(a < i)
    BY <1>1, <2>3
  <2> QED
    BY <1>1, <1>8, <2>2, <2>3, <2>4, <2>5
<1> QED
  BY <1>9, <1>10

(* Taking the i-th element out of a sequence leaves those before it where   *)
(* they were and moves those after it by one.                               *)
LEMMA RemoveAtProperties ==
    ASSUME NEW S, NEW s \in Seq(S), NEW i \in DOMAIN s
    PROVE  /\ RemoveAt(s, i) \in Seq(S)
           /\ DOMAIN RemoveAt(s, i) = 1 .. Len(s) - 1
           /\ \A j \in 1 .. Len(s) - 1 :
                 RemoveAt(s, i)[j] = IF j < i THEN s[j] ELSE s[j + 1]
<1> DEFINE f == SubSeq(s, 1, i - 1)
           g == SubSeq(s, i + 1, Len(s))
<1>1. i \in 1 .. Len(s) /\ Len(s) \in Nat /\ DOMAIN s = 1 .. Len(s)
  BY LenProperties
<1>2. /\ f \in Seq(S) /\ Len(f) = i - 1
      /\ \A j \in 1 .. i - 1 : f[j] = s[j]
  <2>1. \A j \in 1 .. i - 1 : s[j] \in S
    BY <1>1, ElementOfSeq
  <2> QED
    BY <1>1, <2>1, SubSeqProperties
<1>3. /\ g \in Seq(S) /\ Len(g) = Len(s) - i
      /\ \A j \in 1 .. Len(s) - i : g[j] = s[i + j]
  <2>1. \A j \in i + 1 .. Len(s) : s[j] \in S
    BY <1>1, ElementOfSeq
  <2> QED
    BY <1>1, <2>1, SubSeqProperties
<1> HIDE DEF f, g
<1>4. /\ f \o g \in Seq(S)
      /\ Len(f \o g) = Len(f) + Len(g)
      /\ \A j \in 1 .. Len(f) + Len(g) :
            (f \o g)[j] = IF j <= Len(f) THEN f[j] ELSE g[j - Len(f)]
  BY <1>2, <1>3, ConcatProperties
<1>5. Len(f \o g) = Len(s) - 1
  BY <1>1, <1>2, <1>3, <1>4
<1>6. ASSUME NEW j \in 1 .. Len(s) - 1
      PROVE  (f \o g)[j] = IF j < i THEN s[j] ELSE s[j + 1]
  <2>1. j \in 1 .. Len(f) + Len(g)
    BY <1>1, <1>2, <1>3
  <2>2. CASE j < i
    <3>1. j \in 1 .. i - 1 /\ j <= Len(f)
      BY <1>1, <1>2, <2>2
    <3> QED
      BY <1>2, <1>4, <2>1, <2>2, <3>1
  <2>3. CASE ~(j < i)
    <3>1. /\ j - (i - 1) \in 1 .. Len(s) - i /\ ~(j <= Len(f))
          /\ i + (j - (i - 1)) = j + 1
      BY <1>1, <1>2, <2>3
    <3>2. (f \o g)[j] = g[j - (i - 1)]
      BY <1>2, <1>4, <2>1, <3>1
    <3>3. g[j - (i - 1)] = s[j + 1]
      BY <1>3, <3>1
    <3> QED
      BY <2>3, <3>2, <3>3
  <2> QED
    BY <2>2, <2>3
<1>7. DOMAIN (f \o g) = 1 .. Len(s) - 1
  BY <1>4, <1>5, LenProperties
<1>8. RemoveAt(s, i) = f \o g
  BY DEF RemoveAt, f, g
<1> QED
  BY <1>4, <1>6, <1>7, <1>8

-----------------------------------------------------------------------------
(* A pull request has no more commits than it has seen events, was not      *)
(* merged after its last one, and is listed and has a commit once opened.   *)
GitHubInv ==
    /\ \A r \in Repo : \A i \in DOMAIN recent[r] : IsOpened(recent[r][i])
    /\ \A p \in PR :
          /\ gh[p].commits <= gh[p].updatedAt
          /\ gh[p].mergedAt <= gh[p].updatedAt
          /\ IsOpened(p) => gh[p].commits > 0

InHand == {"find", "commits", "reviews", "save"}

JobOK(j) ==
    /\ j.pc \in {"pulls", "pr"} \cup InHand => j.todo # << >>
    /\ \A i \in DOMAIN j.prs : IsOpened(j.prs[i].pr)
    /\ j.pc \in InHand =>
          j.prs # << >> /\ IsSnapshotOf(j.row, gh[Head(j.prs).pr])

JobInv == \A u \in Updater : JobOK(job[u])

Inv == TypeOK /\ GitHubInv /\ JobInv /\ StoredIsSnapshot

(* A step of GitHub changes one pull request, to its next version; what was *)
(* a snapshot of a pull request still is one.                               *)
LEMMA GitHubStep ==
    ASSUME GitHubAssumption, GitHubTypeOK, GitHubInv,
           NEW p \in PR, OpenPullRequest(p) \/ UpdateOnGitHub(p)
    PROVE  /\ GitHubTypeOK'
           /\ GitHubInv'
           /\ \A q \in PR :
                 /\ IsOpened(q) => IsOpened(q)'
                 /\ \A r : /\ r.updatedAt \in Nat /\ r.additions \in Nat
                          /\ r.mergedAt \in Nat /\ IsSnapshotOf(r, gh[q])
                          => IsSnapshotOf(r, gh'[q])
           /\ gh'[p].updatedAt = gh[p].updatedAt + 1
           /\ \A q \in PR \ {p} : gh'[q] = gh[q]
<1>0. ASSUME NEW q \in PR
      PROVE  /\ gh[q].updatedAt \in Nat /\ gh[q].commits \in Nat
             /\ gh[q].reviews \in Nat /\ gh[q].mergedAt \in Nat
             /\ gh[q].commits <= gh[q].updatedAt
             /\ gh[q].mergedAt <= gh[q].updatedAt
             /\ gh[q].updatedAt > 0 => gh[q].commits > 0
  BY DEF GitHubTypeOK, Snapshot, GitHubInv, IsOpened
<1>1. gh \in [PR -> Snapshot] /\ recent \in [Repo -> Seq(PR)]
      /\ gh[p] \in Snapshot /\ RepoOf[p] \in Repo /\ recent[RepoOf[p]] \in Seq(PR)
  BY DEF GitHubAssumption, GitHubTypeOK
<1>2. \E s \in Seq(PR) :
         /\ recent' = [recent EXCEPT ![RepoOf[p]] = <<p>> \o s]
         /\ \A j \in DOMAIN s : \E i \in DOMAIN recent[RepoOf[p]] :
               s[j] = recent[RepoOf[p]][i]
  <2>1. CASE OpenPullRequest(p)
    BY <1>1, <2>1 DEF OpenPullRequest
  <2>2. CASE UpdateOnGitHub(p)
    <3>1. BringToFront(p)
      BY <2>2 DEF UpdateOnGitHub, PushCommit, SubmitReview, MergePullRequest
    <3>2. PICK i \in DOMAIN recent[RepoOf[p]] :
             recent' = [recent EXCEPT ![RepoOf[p]] =
                           <<p>> \o RemoveAt(recent[RepoOf[p]], i)]
      BY <3>1 DEF BringToFront
    <3>3. PICK t \in Seq(PR) : t = recent[RepoOf[p]]
      BY <1>1
    <3>4. PICK s \in Seq(PR) :
             /\ s = RemoveAt(t, i) /\ DOMAIN s = 1 .. Len(t) - 1
             /\ \A j \in 1 .. Len(t) - 1 : s[j] = IF j < i THEN t[j] ELSE t[j + 1]
      BY <3>3, RemoveAtProperties
    <3>5. ASSUME NEW j \in DOMAIN s
          PROVE  \E k \in DOMAIN t : s[j] = t[k]
      <4>1. DOMAIN t = 1 .. Len(t) /\ Len(t) \in Nat
        BY LenProperties
      <4>2. j \in DOMAIN t /\ j + 1 \in DOMAIN t
        BY <3>4, <4>1
      <4> QED
        BY <3>4, <4>2
    <3>6. recent' = [recent EXCEPT ![RepoOf[p]] = <<p>> \o s]
      BY <3>2, <3>3, <3>4
    <3> QED
      BY <3>3, <3>5, <3>6
  <2> QED
    BY <2>1, <2>2
<1>3. /\ gh' \in [PR -> Snapshot]
      /\ \A q \in PR \ {p} : gh'[q] = gh[q]
      /\ gh'[p].updatedAt = gh[p].updatedAt + 1
      /\ gh'[p].commits \in {gh[p].commits, gh[p].commits + 1}
      /\ gh[p].updatedAt = 0 => gh'[p].commits = gh[p].commits + 1
      /\ \/ gh'[p].mergedAt = gh[p].mergedAt
         \/ gh[p].mergedAt = 0 /\ gh'[p].mergedAt = gh'[p].updatedAt
  <2>0. /\ gh[p].updatedAt \in Nat /\ gh[p].commits \in Nat
        /\ gh[p].reviews \in Nat /\ gh[p].mergedAt \in Nat
    BY <1>0
  <2>1. ASSUME NEW g \in Snapshot, gh' = [gh EXCEPT ![p] = g]
        PROVE  /\ gh' \in [PR -> Snapshot]
               /\ \A q \in PR \ {p} : gh'[q] = gh[q]
               /\ gh'[p] = g
    BY <1>1, <2>1
  <2>2. CASE OpenPullRequest(p)
    <3> DEFINE g == [gh[p] EXCEPT !.updatedAt = 1, !.commits = 1]
    <3>1. gh' = [gh EXCEPT ![p] = g]
      BY <2>2 DEF OpenPullRequest
    <3>2. gh[p].updatedAt = 0 /\ gh[p].commits = 0
      BY <1>0, <2>2 DEF OpenPullRequest, IsOpened
    <3>3. /\ g \in Snapshot /\ g.updatedAt = 1 /\ g.commits = 1
          /\ g.mergedAt = gh[p].mergedAt
      BY <1>1 DEF Snapshot
    <3> HIDE DEF g
    <3>4. gh'[p] = g /\ gh' \in [PR -> Snapshot] /\ \A q \in PR \ {p} : gh'[q] = gh[q]
      BY <2>1, <3>1, <3>3
    <3> QED
      BY <3>2, <3>3, <3>4
  <2>3. ASSUME UpdateOnGitHub(p) PROVE gh[p].updatedAt # 0
    <3>1. BringToFront(p)
      BY <2>3 DEF UpdateOnGitHub, PushCommit, SubmitReview, MergePullRequest
    <3>2. gh[p].updatedAt > 0
      BY <3>1 DEF BringToFront, IsOpened
    <3> QED
      BY <2>0, <3>2
  <2>4. CASE PushCommit(p)
    <3>5. PICK t \in Nat : t = gh[p].updatedAt + 1
      BY <2>0
    <3>6. PICK n \in Nat : n = gh[p].commits + 1
      BY <2>0
    <3> DEFINE g == [gh[p] EXCEPT !.updatedAt = t, !.commits = n]
    <3>1. gh' = [gh EXCEPT ![p] = g]
      BY <2>4, <3>5, <3>6 DEF PushCommit
    <3>2. gh[p].updatedAt # 0
      BY <2>3, <2>4 DEF UpdateOnGitHub
    <3>3. g \in Snapshot /\ g.updatedAt = t /\ g.commits = n /\ g.mergedAt = gh[p].mergedAt
      BY <1>1 DEF Snapshot
    <3> HIDE DEF g
    <3>4. gh'[p] = g /\ gh' \in [PR -> Snapshot] /\ \A q \in PR \ {p} : gh'[q] = gh[q]
      BY <2>1, <3>1, <3>3
    <3> QED
      BY <3>1, <3>2, <3>3, <3>4, <3>5, <3>6
  <2>5. CASE SubmitReview(p)
    <3>5. PICK t \in Nat : t = gh[p].updatedAt + 1
      BY <2>0
    <3>6. PICK n \in Nat : n = gh[p].reviews + 1
      BY <2>0
    <3> DEFINE g == [gh[p] EXCEPT !.updatedAt = t, !.reviews = n]
    <3>1. gh' = [gh EXCEPT ![p] = g]
      BY <2>5, <3>5, <3>6 DEF SubmitReview
    <3>2. gh[p].updatedAt # 0
      BY <2>3, <2>5 DEF UpdateOnGitHub
    <3>3. g \in Snapshot /\ g.updatedAt = t /\ g.commits = gh[p].commits /\ g.mergedAt = gh[p].mergedAt
      BY <1>1 DEF Snapshot
    <3> HIDE DEF g
    <3>4. gh'[p] = g /\ gh' \in [PR -> Snapshot] /\ \A q \in PR \ {p} : gh'[q] = gh[q]
      BY <2>1, <3>1, <3>3
    <3> QED
      BY <3>1, <3>2, <3>3, <3>4, <3>5, <3>6
  <2>6. CASE MergePullRequest(p)
    <3>5. PICK t \in Nat : t = gh[p].updatedAt + 1
      BY <2>0
    <3>6. PICK n \in Nat : n = gh[p].updatedAt + 1
      BY <2>0
    <3> DEFINE g == [gh[p] EXCEPT !.updatedAt = t, !.mergedAt = n]
    <3>1. gh' = [gh EXCEPT ![p] = g] /\ gh[p].mergedAt = 0
      BY <2>6, <3>5, <3>6 DEF MergePullRequest
    <3>2. gh[p].updatedAt # 0
      BY <2>3, <2>6 DEF UpdateOnGitHub
    <3>3. g \in Snapshot /\ g.updatedAt = t /\ g.commits = gh[p].commits /\ g.mergedAt = n
      BY <1>1 DEF Snapshot
    <3> HIDE DEF g
    <3>4. gh'[p] = g /\ gh' \in [PR -> Snapshot] /\ \A q \in PR \ {p} : gh'[q] = gh[q]
      BY <2>1, <3>1, <3>3
    <3> QED
      BY <3>1, <3>2, <3>3, <3>4, <3>5, <3>6
  <2> QED
    BY <2>2, <2>4, <2>5, <2>6 DEF UpdateOnGitHub
<1>4. PICK s \in Seq(PR) :
         /\ recent' = [recent EXCEPT ![RepoOf[p]] = <<p>> \o s]
         /\ \A j \in DOMAIN s : \E i \in DOMAIN recent[RepoOf[p]] :
               s[j] = recent[RepoOf[p]][i]
  BY <1>2
<1>5. /\ <<p>> \o s \in Seq(PR)
      /\ \A i \in DOMAIN (<<p>> \o s) :
            (<<p>> \o s)[i] = p \/ \E j \in DOMAIN s : (<<p>> \o s)[i] = s[j]
  <2>1. <<p>> \in Seq(PR) /\ Len(<<p>>) = 1 /\ <<p>>[1] = p
    OBVIOUS
  <2>2. /\ <<p>> \o s \in Seq(PR)
        /\ Len(<<p>> \o s) = 1 + Len(s)
        /\ \A i \in 1 .. 1 + Len(s) :
              (<<p>> \o s)[i] = IF i <= 1 THEN <<p>>[i] ELSE s[i - 1]
    BY <2>1, ConcatProperties
  <2>3. Len(s) \in Nat /\ DOMAIN s = 1 .. Len(s)
        /\ DOMAIN (<<p>> \o s) = 1 .. 1 + Len(s)
    BY <2>2, LenProperties
  <2> QED
    BY <2>1, <2>2, <2>3
<1>6. GitHubTypeOK'
  BY <1>1, <1>3, <1>4, <1>5 DEF GitHubTypeOK
<1>7. PICK g \in Snapshot : gh'[p] = g
  BY <1>3
<1>8. /\ {g.updatedAt, g.commits, g.reviews, g.mergedAt} \subseteq Nat
      /\ g.commits > 0 /\ g.commits <= g.updatedAt /\ g.mergedAt <= g.updatedAt
  BY <1>0, <1>3, <1>7 DEF Snapshot
<1>9. ASSUME NEW q \in PR, gh[q].updatedAt > 0 PROVE gh'[q].updatedAt > 0
  BY <1>3, <1>7, <1>8, <1>9
<1>10. GitHubInv'
  <2>1. ASSUME NEW r \in Repo, NEW i \in DOMAIN recent'[r]
        PROVE  gh'[recent'[r][i]].updatedAt > 0
    <3>1. ASSUME NEW k \in DOMAIN recent[r]
          PROVE  gh'[recent[r][k]].updatedAt > 0
      <4>1. recent[r][k] \in PR
        BY <1>1, ElementOfSeq, LenProperties
      <4>2. gh[recent[r][k]].updatedAt > 0
        BY DEF GitHubInv, IsOpened
      <4> QED
        BY <1>9, <4>1, <4>2
    <3>2. CASE r # RepoOf[p]
      <4>1. recent'[r] = recent[r]
        BY <1>1, <1>4, <3>2
      <4> QED
        BY <3>1, <4>1
    <3>3. CASE r = RepoOf[p]
      <4>1. recent'[r] = <<p>> \o s
        BY <1>1, <1>4, <3>3
      <4>2. recent'[r][i] = p \/ \E k \in DOMAIN recent[r] : recent'[r][i] = recent[r][k]
        BY <1>4, <1>5, <3>3, <4>1
      <4> QED
        BY <1>3, <1>7, <1>8, <3>1, <4>2
    <3> QED
      BY <3>2, <3>3
  <2>2. ASSUME NEW q \in PR
        PROVE  /\ gh'[q].commits <= gh'[q].updatedAt
               /\ gh'[q].mergedAt <= gh'[q].updatedAt
               /\ gh'[q].updatedAt > 0 => gh'[q].commits > 0
    BY <1>0, <1>3, <1>7, <1>8
  <2> QED
    BY <2>1, <2>2 DEF GitHubInv, IsOpened
<1>11. ASSUME NEW q \in PR,
              NEW r,
              r.updatedAt \in Nat, r.additions \in Nat, r.mergedAt \in Nat,
              IsSnapshotOf(r, gh[q])
       PROVE  IsSnapshotOf(r, gh'[q])
  <2>1. CASE q # p
    BY <1>3, <1>7, <1>11, <2>1
  <2>2. CASE q = p
    <3>1. r.updatedAt \in Nat /\ r.additions \in Nat /\ r.mergedAt \in Nat
      BY <1>11
    <3>2. IsSnapshotOf(r, gh[p])
      BY <1>11, <2>2
    <3>3. r.mergedAt = IF g.mergedAt <= r.updatedAt THEN g.mergedAt ELSE 0
      BY <1>0, <1>3, <1>7, <1>8, <3>1, <3>2 DEF IsSnapshotOf
    <3>4. /\ g.updatedAt = gh[p].updatedAt + 1
          /\ g.commits = gh[p].commits \/ g.commits = gh[p].commits + 1
          /\ gh[p].updatedAt \in Nat /\ gh[p].commits \in Nat
      BY <1>0, <1>3, <1>7
    <3>7. g.commits \in Nat
      BY <3>4
    <3>5. /\ r.updatedAt \in 1 .. g.updatedAt
          /\ r.additions \in 1 .. g.commits
          /\ r.additions <= r.updatedAt
          /\ g.commits - r.additions <= g.updatedAt - r.updatedAt
      <4>1. /\ r.updatedAt \in 1 .. gh[p].updatedAt
            /\ r.additions \in 1 .. gh[p].commits
            /\ r.additions <= r.updatedAt
            /\ gh[p].commits - r.additions <= gh[p].updatedAt - r.updatedAt
        BY <3>2 DEF IsSnapshotOf
      <4>2. /\ r.updatedAt \in 1 .. gh[p].updatedAt + 1
            /\ r.additions \in 1 .. g.commits
            /\ g.commits - r.additions <= (gh[p].updatedAt + 1) - r.updatedAt
        <5> DEFINE a == r.additions  t == r.updatedAt
                   c == gh[p].commits  u == gh[p].updatedAt  d == g.commits
        <5>1. /\ a \in Nat /\ t \in Nat /\ c \in Nat /\ u \in Nat /\ d \in Nat
              /\ d = c \/ d = c + 1
              /\ t \in 1 .. u /\ a \in 1 .. c /\ c - a <= u - t
          BY <3>1, <3>4, <3>7, <4>1
        <5> HIDE DEF a, t, c, u, d
        <5>2. t \in 1 .. u + 1 /\ a \in 1 .. d /\ d - a <= (u + 1) - t
          BY <5>1
        <5> QED
          BY <5>2 DEF a, t, c, u, d
      <4> QED
        BY <3>4, <4>1, <4>2
    <3>6. IsSnapshotOf(r, g)
      BY <3>3, <3>5 DEF IsSnapshotOf
    <3> QED
      BY <1>7, <2>2, <3>6
  <2> QED
    BY <2>1, <2>2
<1> QED
  BY <1>3, <1>6, <1>9, <1>10, <1>11 DEF IsOpened

-----------------------------------------------------------------------------
(* What the requests to GitHub return is of the right type, and the pull    *)
(* requests listed are open.                                                *)
LEMMA PullsPageProperties ==
    ASSUME UpdateAssumption, GitHubTypeOK, GitHubInv,
           NEW r \in Repo, NEW n \in Nat \ {0}
    PROVE  /\ PullsPage(r, n) \in Seq(Entry)
           /\ \A i \in DOMAIN PullsPage(r, n) : IsOpened(PullsPage(r, n)[i].pr)
<1> DEFINE page == PageOf(recent[r], PullsPerPage, n)
           rows == [i \in DOMAIN page |->
                       [pr |-> page[i], updatedAt |-> gh[page[i]].updatedAt]]
           Opened == {p \in PR : IsOpened(p)}
<1>1. recent[r] \in Seq(Opened) /\ PullsPerPage \in Nat \ {0}
  <2>1. /\ recent[r] \in [1 .. Len(recent[r]) -> PR]
        /\ Len(recent[r]) \in Nat /\ DOMAIN recent[r] = 1 .. Len(recent[r])
    BY LenProperties DEF GitHubTypeOK
  <2>2. recent[r] \in [1 .. Len(recent[r]) -> Opened]
    BY <2>1 DEF GitHubInv
  <2>3. PullsPerPage \in Nat \ {0}
    BY DEF UpdateAssumption
  <2> HIDE DEF Opened
  <2>4. recent[r] \in Seq(Opened)
    BY <2>1, <2>2, SeqDef
  <2> QED
    BY <2>3, <2>4
<1>2. page \in Seq(Opened)
  BY <1>1, PageOfProperties
<1> HIDE DEF page
<1>3. ASSUME NEW i \in DOMAIN page
      PROVE  page[i] \in PR /\ IsOpened(page[i]) /\ gh[page[i]].updatedAt \in Nat
  <2>1. page[i] \in Opened
    BY <1>2, ElementOfSeq, LenProperties
  <2>2. gh[page[i]] \in Snapshot
    BY <2>1 DEF GitHubTypeOK
  <2> QED
    BY <2>1, <2>2 DEF Snapshot
<1>4. DOMAIN page = 1 .. Len(page) /\ Len(page) \in Nat
  BY <1>2, LenProperties
<1>5. rows \in [1 .. Len(page) -> Entry]
  BY <1>3, <1>4 DEF Entry
<1>6. rows \in Seq(Entry)
  BY <1>4, <1>5, SeqDef
<1>7. \A i \in DOMAIN rows : IsOpened(rows[i].pr)
  BY <1>3
<1>8. PullsPage(r, n) = rows
  BY DEF PullsPage, page
<1> QED
  BY <1>6, <1>7, <1>8

(* A page of the numbers from 1 is a sequence of numbers.                   *)
LEMMA NumberedPage ==
    ASSUME NEW k \in Nat, NEW size \in Nat \ {0}, NEW n \in Nat \ {0}
    PROVE  PageOf([i \in 1 .. k |-> i], size, n) \in Seq(Nat)
<1>1. [i \in 1 .. k |-> i] \in [1 .. k -> Nat]
  OBVIOUS
<1>2. [i \in 1 .. k |-> i] \in Seq(Nat)
  BY <1>1, SeqDef
<1> QED
  BY <1>2, PageOfProperties

(* The next turn of the inner loop finds nothing in hand.                   *)
LEMMA NextPullOK ==
    ASSUME NEW j \in Job, JobOK(j), j.prs # << >>, j.todo # << >>
    PROVE  NextPull(j) \in Job /\ JobOK(NextPull(j))
<1>1. j.prs \in Seq(Entry)
  BY DEF Job
<1>2. /\ Tail(j.prs) \in Seq(Entry)
      /\ Len(Tail(j.prs)) = Len(j.prs) - 1
      /\ \A i \in 1 .. Len(Tail(j.prs)) : Tail(j.prs)[i] = j.prs[i + 1]
  BY <1>1, HeadTailProperties
<1>3. \A i \in DOMAIN Tail(j.prs) : IsOpened(Tail(j.prs)[i].pr)
  <2>1. /\ DOMAIN Tail(j.prs) = 1 .. Len(Tail(j.prs))
        /\ DOMAIN j.prs = 1 .. Len(j.prs) /\ Len(j.prs) \in Nat
    BY <1>1, <1>2, LenProperties
  <2> QED
    BY <1>2, <2>1 DEF JobOK
<1>4. NoRow \in Row
  BY EmptySeq DEF NoRow, Row
<1>5. /\ NextPull(j) \in Job
      /\ NextPull(j).pc = "pr" /\ NextPull(j).todo = j.todo
      /\ NextPull(j).prs = Tail(j.prs)
  BY <1>2, <1>4 DEF NextPull, Job
<1> QED
  BY <1>3, <1>5 DEF JobOK, InHand

(* An action that leaves one job in order leaves all of them so.            *)
LEMMA JobStep ==
    ASSUME job \in [Updater -> Job], JobInv, UNCHANGED ghVars,
           NEW u \in Updater, NEW j \in Job, JobOK(j), job' = [job EXCEPT ![u] = j]
    PROVE  job' \in [Updater -> Job] /\ JobInv'
<1>1. job' \in [Updater -> Job]
  OBVIOUS
<1>2. ASSUME NEW v \in Updater PROVE JobOK(job[v])'
  <2>1. JobOK(job'[v])
    BY DEF JobInv
  <2> QED
    BY <2>1 DEF JobOK, IsOpened, ghVars
<1> QED
  BY <1>1, <1>2 DEF JobInv

(* A job when it is not within a repository's pull requests.                *)
LEMMA OutsideOK ==
    ASSUME NEW j \in Job, JobOK(j), NEW k \in Job, k.prs = j.prs,
           k.pc \in {"repos", "next"} \/ (k.pc = "pulls" /\ k.todo # << >>)
    PROVE  JobOK(k)
BY DEF JobOK, InHand

(* What is converted from an open pull request is a snapshot of it.         *)
LEMMA ConvertedIsSnapshot ==
    ASSUME GitHubTypeOK, GitHubInv, NEW p \in PR, IsOpened(p)
    PROVE  Converted(gh[p]) \in Row /\ IsSnapshotOf(Converted(gh[p]), gh[p])
<1>1. /\ gh[p].updatedAt \in Nat /\ gh[p].commits \in Nat
      /\ gh[p].reviews \in Nat /\ gh[p].mergedAt \in Nat
  BY DEF GitHubTypeOK, Snapshot
<1>2. /\ gh[p].commits <= gh[p].updatedAt /\ gh[p].mergedAt <= gh[p].updatedAt
      /\ gh[p].commits > 0 /\ gh[p].updatedAt > 0
  BY DEF GitHubInv, IsOpened
<1>3. NoRow \in Row
  BY EmptySeq DEF NoRow, Row
<1>4. PICK t \in Nat, c \in Nat, m \in Nat :
         t = gh[p].updatedAt /\ c = gh[p].commits /\ m = gh[p].mergedAt
  BY <1>1
<1>5. Converted(gh[p]) = [NoRow EXCEPT !.updatedAt = t, !.additions = c, !.mergedAt = m]
  BY <1>4 DEF Converted
<1>6. /\ Converted(gh[p]) \in Row
      /\ Converted(gh[p]).updatedAt = t /\ Converted(gh[p]).additions = c
      /\ Converted(gh[p]).mergedAt = m
  BY <1>3, <1>5 DEF Row
<1> QED
  BY <1>1, <1>2, <1>4, <1>6 DEF IsSnapshotOf

(* An Update that is not running has nothing in hand.                       *)
LEMMA NoJobOK == NoJob \in Job /\ JobOK(NoJob)
<1>1. << >> \in Seq(Repo) /\ << >> \in Seq(Entry) /\ << >> \in Seq(Nat)
  BY EmptySeq
<1>2. NoRow \in Row
  BY <1>1 DEF NoRow, Row
<1>3. NoJob \in Job
  BY <1>1, <1>2 DEF NoJob, Job
<1> QED
  BY <1>3 DEF NoJob, JobOK, InHand

-----------------------------------------------------------------------------
(* Every step of an Update leaves its local variables in order.             *)
LEMMA JobActions ==
    ASSUME UpdateAssumption, GitHubTypeOK, StoreTypeOK, GitHubInv, JobInv,
           job \in [Updater -> Job],
           NEW u \in Updater, Call(u) \/ Step(u) \/ UpdaterFault(u)
    PROVE  job' \in [Updater -> Job] /\ JobInv'
<1> DEFINE j == job[u]
<1>1. /\ j \in Job /\ JobOK(j)
      /\ j.todo \in Seq(Repo) /\ j.prs \in Seq(Entry) /\ j.row \in Row
      /\ j.page \in Nat \ {0}
  BY DEF JobInv, Job
<1>2. ASSUME j.pc \in InHand
      PROVE  /\ j.prs # << >> /\ j.todo # << >>
             /\ IsSnapshotOf(j.row, gh[Url(u)])
  BY <1>1, <1>2 DEF JobOK, Url, Current
<1>3. ASSUME j.prs # << >>
      PROVE  Url(u) \in PR /\ IsOpened(Url(u))
  <2>1. Len(j.prs) \in Nat \ {0} /\ DOMAIN j.prs = 1 .. Len(j.prs)
    BY <1>1, <1>3, EmptySeq, LenProperties
  <2>2. Head(j.prs) \in Entry /\ Head(j.prs) = j.prs[1]
    BY <1>1, <1>3, <2>1, HeadTailProperties
  <2>3. Url(u) = Head(j.prs).pr
    BY DEF Url, Current
  <2>4. 1 \in DOMAIN j.prs
    BY <2>1
  <2>5. IsOpened(j.prs[1].pr)
    BY <1>1, <2>4 DEF JobOK
  <2> HIDE DEF j
  <2> QED
    BY <2>2, <2>3, <2>5 DEF Entry
<1>4. ASSUME NEW k \in Job, JobOK(k), job' = [job EXCEPT ![u] = k], UNCHANGED ghVars
      PROVE  job' \in [Updater -> Job] /\ JobInv'
  BY <1>4, JobStep
<1>5. ASSUME j.prs # << >>, j.todo # << >>
      PROVE  NextPull(j) \in Job /\ JobOK(NextPull(j))
  BY <1>1, <1>5, NextPullOK
<1>6. CASE Call(u)
  <2> DEFINE k == [j EXCEPT !.pc = "repos"]
  <2>1. job' = [job EXCEPT ![u] = k] /\ UNCHANGED ghVars
    BY <1>6 DEF Call
  <2>2. k \in Job /\ k.prs = j.prs /\ k.pc = "repos"
    BY <1>1 DEF Job
  <2> HIDE DEF k
  <2>3. JobOK(k)
    BY <1>1, <2>2, OutsideOK
  <2> QED
    BY <1>4, <2>1, <2>2, <2>3
<1>7. CASE FetchOrgRepos(u)
  <2>1. OrgReposFetched \in Seq(Repo)
    <3>1. OrgRepos \in Seq(Repo) /\ ReposPerPage \in Nat \ {0} /\ 1 \in Nat \ {0}
      BY DEF UpdateAssumption
    <3> QED
      BY <3>1, PageOfProperties DEF OrgReposFetched
  <2> DEFINE k == [j EXCEPT !.pc = "next", !.todo = OrgReposFetched]
  <2>2. job' = [job EXCEPT ![u] = k] /\ UNCHANGED ghVars
    BY <1>7 DEF FetchOrgRepos
  <2>3. k \in Job /\ k.prs = j.prs /\ k.pc = "next"
    BY <1>1, <2>1 DEF Job
  <2> HIDE DEF k
  <2>4. JobOK(k)
    BY <1>1, <2>3, OutsideOK
  <2> QED
    BY <1>4, <2>2, <2>3, <2>4
<1>8. CASE NextRepo(u)
  <2>0. PICK n \in Nat \ {0} : n = 1
    OBVIOUS
  <2> DEFINE k == [j EXCEPT !.pc = "pulls", !.page = n]
  <2>1. job' = [job EXCEPT ![u] = k] /\ UNCHANGED ghVars /\ j.todo # << >>
    BY <1>8, <2>0 DEF NextRepo
  <2>2. k \in Job /\ k.prs = j.prs /\ k.pc = "pulls" /\ k.todo = j.todo
    BY <1>1 DEF Job
  <2> HIDE DEF k
  <2>3. JobOK(k)
    BY <1>1, <2>1, <2>2, OutsideOK
  <2> QED
    BY <1>4, <2>1, <2>2, <2>3
<1>9. ASSUME Return(u), UNCHANGED ghVars
      PROVE  job' \in [Updater -> Job] /\ JobInv'
  BY <1>4, <1>9, NoJobOK DEF Return
<1>10. CASE Finish(u)
  BY <1>9, <1>10 DEF Finish
<1>11. CASE FetchPullsRequest(u)
  <2> DEFINE page == PullsPage(Head(j.todo), j.page)
  <2>1. j.todo # << >> /\ j.pc = "pulls" /\ UNCHANGED ghVars
    BY <1>1, <1>11 DEF FetchPullsRequest, JobOK
  <2>2. Head(j.todo) \in Repo
    BY <1>1, <2>1, HeadTailProperties
  <2>3. page \in Seq(Entry) /\ \A i \in DOMAIN page : IsOpened(page[i].pr)
    BY <1>1, <2>2, PullsPageProperties
  <2>4. \/ job' = [job EXCEPT ![u].pc = "pr"]
        \/ job' = [job EXCEPT ![u].prs = @ \o page, ![u].page = @ + 1]
    BY <1>11 DEF FetchPullsRequest
  <2> HIDE DEF page
  <2>5. CASE job' = [job EXCEPT ![u].pc = "pr"]
    <3> DEFINE k == [j EXCEPT !.pc = "pr"]
    <3>1. job' = [job EXCEPT ![u] = k]
      BY <2>5
    <3>2. k \in Job /\ k.prs = j.prs /\ k.pc = "pr" /\ k.todo = j.todo
      BY <1>1 DEF Job
    <3> HIDE DEF k
    <3>3. JobOK(k)
      BY <1>1, <2>1, <3>2 DEF JobOK, InHand
    <3> QED
      BY <1>4, <2>1, <3>1, <3>2, <3>3
  <2>6. CASE job' = [job EXCEPT ![u].prs = @ \o page, ![u].page = @ + 1]
    <3>1. /\ j.prs \o page \in Seq(Entry)
          /\ \A i \in DOMAIN (j.prs \o page) : IsOpened((j.prs \o page)[i].pr)
      <4>1. /\ DOMAIN j.prs = 1 .. Len(j.prs) /\ Len(j.prs) \in Nat
            /\ DOMAIN page = 1 .. Len(page) /\ Len(page) \in Nat
        BY <1>1, <2>3, LenProperties
      <4>2. /\ j.prs \o page \in Seq(Entry)
            /\ Len(j.prs \o page) = Len(j.prs) + Len(page)
            /\ \A i \in 1 .. Len(j.prs) + Len(page) : (j.prs \o page)[i] =
                  IF i <= Len(j.prs) THEN j.prs[i] ELSE page[i - Len(j.prs)]
        BY <1>1, <2>3, ConcatProperties
      <4>3. DOMAIN (j.prs \o page) = 1 .. Len(j.prs) + Len(page)
        BY <4>2, LenProperties
      <4>4. \A i \in DOMAIN j.prs : IsOpened(j.prs[i].pr)
        BY <1>1 DEF JobOK
      <4>5. ASSUME NEW i \in DOMAIN (j.prs \o page)
            PROVE  IsOpened((j.prs \o page)[i].pr)
        <5>1. CASE i <= Len(j.prs)
          <6>1. (j.prs \o page)[i] = j.prs[i] /\ i \in DOMAIN j.prs
            BY <4>1, <4>2, <4>3, <5>1
          <6> QED
            BY <4>4, <6>1
        <5>2. CASE ~(i <= Len(j.prs))
          <6>1. PICK a \in Nat, b \in Nat : a = Len(j.prs) /\ b = Len(page)
            BY <4>1
          <6>2. i \in 1 .. a + b /\ ~(i <= a)
            BY <4>3, <5>2, <6>1
          <6>3. (j.prs \o page)[i] = page[i - a]
            BY <4>2, <6>1, <6>2
          <6>4. i - a \in 1 .. b
            BY <6>2
          <6>5. i - a \in DOMAIN page
            BY <4>1, <6>1, <6>4
          <6> QED
            BY <2>3, <6>3, <6>5
        <5> QED
          BY <5>1, <5>2
      <4> QED
        BY <4>2, <4>5
    <3>5. PICK ps \in Seq(Entry) : ps = j.prs \o page
      BY <3>1
    <3>6. PICK n \in Nat \ {0} : n = j.page + 1
      BY <1>1
    <3> DEFINE k == [j EXCEPT !.prs = ps, !.page = n]
    <3>2. job' = [job EXCEPT ![u] = k]
      BY <2>6, <3>5, <3>6
    <3>3. /\ k \in Job /\ k.prs = ps /\ k.pc = j.pc
          /\ k.todo = j.todo
      BY <1>1 DEF Job
    <3> HIDE DEF k
    <3>4. JobOK(k)
      BY <2>1, <3>1, <3>3, <3>5 DEF JobOK, InHand
    <3> QED
      BY <1>4, <2>1, <3>2, <3>3, <3>4
  <2> QED
    BY <2>4, <2>5, <2>6
<1>12. CASE FetchPullRequest(u)
  <2>1. j.prs # << >> /\ j.pc = "pr" /\ j.todo # << >> /\ UNCHANGED ghVars
    BY <1>1, <1>12 DEF FetchPullRequest, JobOK
  <2>2. CASE Url(u) \in Malformed
    <3>1. job' = [job EXCEPT ![u] = NextPull(j)]
      BY <1>12, <2>2 DEF FetchPullRequest
    <3> QED
      BY <1>4, <1>5, <2>1, <3>1
  <2>3. CASE Url(u) \notin Malformed
    <3>1. PICK row \in Row : /\ row = Converted(gh[Url(u)])
                            /\ IsSnapshotOf(row, gh[Url(u)])
      BY <1>3, <2>1, ConvertedIsSnapshot
    <3> DEFINE k == [j EXCEPT !.pc = "find", !.row = row]
    <3>2. job' = [job EXCEPT ![u] = k]
      BY <1>12, <2>3, <3>1 DEF FetchPullRequest
    <3>3. k \in Job /\ k.prs = j.prs /\ k.todo = j.todo /\ k.pc = "find" /\ k.row = row
      BY <1>1 DEF Job
    <3> HIDE DEF k
    <3>4. JobOK(k)
      BY <1>1, <2>1, <3>1, <3>3 DEF JobOK, Url, Current
    <3> QED
      BY <1>4, <2>1, <3>2, <3>3, <3>4
  <2> QED
    BY <2>2, <2>3
<1>13. CASE RepoDone(u)
  <2>1. j.todo # << >> /\ UNCHANGED ghVars
    BY <1>1, <1>13 DEF RepoDone, JobOK
  <2>2. PICK rs \in Seq(Repo) : rs = Tail(j.todo)
    BY <1>1, <2>1, HeadTailProperties
  <2> DEFINE k == [j EXCEPT !.pc = "next", !.todo = rs]
  <2>3. job' = [job EXCEPT ![u] = k]
    BY <1>13, <2>2 DEF RepoDone
  <2>4. k \in Job /\ k.prs = j.prs /\ k.pc = "next"
    BY <1>1 DEF Job
  <2> HIDE DEF k
  <2>5. JobOK(k)
    BY <1>1, <2>4, OutsideOK
  <2> QED
    BY <1>4, <2>1, <2>3, <2>4, <2>5
<1>14. ASSUME NEW k \in Job, k.pc \in InHand, j.pc \in InHand,
              k.prs = j.prs, k.todo = j.todo,
              k.row.updatedAt = j.row.updatedAt,
              k.row.additions = j.row.additions, k.row.mergedAt = j.row.mergedAt
       PROVE  JobOK(k)
  BY <1>1, <1>2, <1>14 DEF JobOK, InHand, IsSnapshotOf, Url, Current
<1>15. CASE PullRequestByURL(u)
  <2>1. j.pc = "find" /\ j.pc \in InHand /\ UNCHANGED ghVars
    BY <1>15 DEF PullRequestByURL, InHand
  <2>2. PICK n \in Nat \ {0} : n = 1
    OBVIOUS
  <2>3. CASE PullRequestNotFound(Url(u))
    <3> DEFINE k == [j EXCEPT !.pc = "commits", !.page = n]
    <3>1. job' = [job EXCEPT ![u] = k]
      BY <1>15, <2>2, <2>3 DEF PullRequestByURL
    <3>2. /\ k \in Job /\ k.pc = "commits" /\ k.prs = j.prs
          /\ k.todo = j.todo /\ k.row = j.row
      BY <1>1 DEF Job
    <3> HIDE DEF k
    <3>3. JobOK(k)
      BY <1>14, <2>1, <3>2 DEF InHand
    <3> QED
      BY <1>4, <2>1, <3>1, <3>2, <3>3
  <2>4. CASE ~PullRequestNotFound(Url(u))
    <3>1. PICK d \in Nat : d = pulls[Url(u)].updatedAt
      BY <2>4 DEF PullRequestNotFound, StoreTypeOK
    <3>2. CASE NeedsUpdate(pulls[Url(u)].updatedAt, Current(u).updatedAt)
      <4> DEFINE k == [j EXCEPT !.pc = "commits", !.page = n, !.dbPR = d]
      <4>1. job' = [job EXCEPT ![u] = k]
        BY <1>15, <2>2, <2>4, <3>1, <3>2 DEF PullRequestByURL
      <4>2. /\ k \in Job /\ k.pc = "commits" /\ k.prs = j.prs
            /\ k.todo = j.todo /\ k.row = j.row
        BY <1>1 DEF Job
      <4> HIDE DEF k
      <4>3. JobOK(k)
        BY <1>14, <2>1, <4>2 DEF InHand
      <4> QED
        BY <1>4, <2>1, <4>1, <4>2, <4>3
    <3>3. CASE ~NeedsUpdate(pulls[Url(u)].updatedAt, Current(u).updatedAt)
      <4>1. job' = [job EXCEPT ![u] = NextPull(j)]
        BY <1>15, <2>4, <3>3 DEF PullRequestByURL
      <4> QED
        BY <1>2, <1>4, <1>5, <2>1, <4>1
    <3> QED
      BY <3>2, <3>3
  <2> QED
    BY <2>3, <2>4
<1>16. CASE FetchPullRequestCommits(u)
  <2>1. j.pc = "commits" /\ j.pc \in InHand /\ UNCHANGED ghVars
    BY <1>16 DEF FetchPullRequestCommits, InHand
  <2>2. \/ job' = [job EXCEPT ![u].pc = "reviews"]
        \/ job' = [job EXCEPT ![u].row.commits = @ \o CommitsPage(Url(u), j.page),
                              ![u].page = @ + 1]
    BY <1>16 DEF FetchPullRequestCommits
  <2>3. CASE job' = [job EXCEPT ![u].pc = "reviews"]
    <3> DEFINE k == [j EXCEPT !.pc = "reviews"]
    <3>1. job' = [job EXCEPT ![u] = k]
      BY <2>3
    <3>2. /\ k \in Job /\ k.pc = "reviews" /\ k.prs = j.prs
          /\ k.todo = j.todo /\ k.row = j.row
      BY <1>1 DEF Job
    <3> HIDE DEF k
    <3>3. JobOK(k)
      BY <1>14, <2>1, <3>2 DEF InHand
    <3> QED
      BY <1>4, <2>1, <3>1, <3>2, <3>3
  <2>4. CASE job' = [job EXCEPT ![u].row.commits = @ \o CommitsPage(Url(u), j.page),
                                ![u].page = @ + 1]
    <3>1. gh[Url(u)].commits \in Nat /\ CommitsPerPage \in Nat \ {0}
      BY <1>2, <1>3, <2>1 DEF GitHubTypeOK, Snapshot, UpdateAssumption
    <3>2. CommitsPage(Url(u), j.page) \in Seq(Nat)
      BY <1>1, <3>1, NumberedPage DEF CommitsPage
    <3>3. j.row.commits \in Seq(Nat)
      BY <1>1 DEF Row
    <3>4. PICK cs \in Seq(Nat) : cs = j.row.commits \o CommitsPage(Url(u), j.page)
      BY <3>2, <3>3, ConcatProperties
    <3>5. PICK n \in Nat \ {0} : n = j.page + 1
      BY <1>1
    <3>6. PICK row \in Row : row = [j.row EXCEPT !.commits = cs]
      BY <1>1 DEF Row
    <3>7. /\ row.updatedAt = j.row.updatedAt /\ row.additions = j.row.additions
          /\ row.mergedAt = j.row.mergedAt
      BY <1>1, <3>6 DEF Row
    <3> DEFINE k == [j EXCEPT !.row = row, !.page = n]
    <3>8. job' = [job EXCEPT ![u] = k]
      BY <2>4, <3>4, <3>5, <3>6
    <3>9. /\ k \in Job /\ k.pc = j.pc /\ k.prs = j.prs
          /\ k.todo = j.todo /\ k.row = row
      BY <1>1 DEF Job
    <3> HIDE DEF k
    <3>10. JobOK(k)
      BY <1>14, <2>1, <3>7, <3>9
    <3> QED
      BY <1>4, <2>1, <3>8, <3>9, <3>10
  <2> QED
    BY <2>2, <2>3, <2>4
<1>17. CASE FetchPullRequestReviews(u)
  <2>1. j.pc = "reviews" /\ j.pc \in InHand /\ UNCHANGED ghVars
    BY <1>17 DEF FetchPullRequestReviews, InHand
  <2>2. gh[Url(u)].reviews \in Nat /\ ReviewsPerPage \in Nat \ {0} /\ 1 \in Nat \ {0}
    BY <1>2, <1>3, <2>1 DEF GitHubTypeOK, Snapshot, UpdateAssumption
  <2>3. ReviewsFetched(Url(u)) \in Seq(Nat)
    BY <2>2, NumberedPage DEF ReviewsFetched
  <2>4. PICK rs \in Seq(Nat) : rs = ReviewsFetched(Url(u))
    BY <2>3
  <2>5. PICK row \in Row : row = [j.row EXCEPT !.reviews = rs]
    BY <1>1 DEF Row
  <2>6. /\ row.updatedAt = j.row.updatedAt /\ row.additions = j.row.additions
        /\ row.mergedAt = j.row.mergedAt
    BY <1>1, <2>5 DEF Row
  <2> DEFINE k == [j EXCEPT !.pc = "save", !.row = row]
  <2>7. job' = [job EXCEPT ![u] = k]
    BY <1>17, <2>4, <2>5 DEF FetchPullRequestReviews
  <2>8. /\ k \in Job /\ k.pc = "save" /\ k.prs = j.prs
        /\ k.todo = j.todo /\ k.row = row
    BY <1>1 DEF Job
  <2> HIDE DEF k
  <2>9. JobOK(k)
    BY <1>14, <2>1, <2>6, <2>8 DEF InHand
  <2> QED
    BY <1>4, <2>1, <2>7, <2>8, <2>9
<1>18. ASSUME j.pc \in InHand, job' = [job EXCEPT ![u] = NextPull(@)], UNCHANGED ghVars
       PROVE  job' \in [Updater -> Job] /\ JobInv'
  BY <1>2, <1>4, <1>5, <1>18
<1>19. CASE Save(u)
  BY <1>18, <1>19 DEF Save, InHand
<1>20. CASE ApiError(u)
  BY <1>9, <1>20 DEF ApiError
<1>21. CASE DbError(u)
  BY <1>18, <1>21 DEF DbError, InHand
<1>22. CASE Cancel(u)
  <2> DEFINE k == [j EXCEPT !.cancelled = TRUE]
  <2>1. job' = [job EXCEPT ![u] = k] /\ UNCHANGED ghVars
    BY <1>22 DEF Cancel
  <2>2. /\ k \in Job /\ k.pc = j.pc /\ k.prs = j.prs
        /\ k.todo = j.todo /\ k.row = j.row
    BY <1>1 DEF Job
  <2> HIDE DEF k
  <2>3. JobOK(k)
    BY <1>1, <2>2 DEF JobOK
  <2> QED
    BY <1>4, <2>1, <2>2, <2>3
<1> QED
  BY <1>6, <1>7, <1>8, <1>10, <1>11, <1>12, <1>13, <1>15, <1>16, <1>17, <1>19,
     <1>20, <1>21, <1>22 DEF Step, UpdaterFault

-----------------------------------------------------------------------------
(* A write puts the row in its place, leaves the others alone, and every    *)
(* row of the tables is of its type.                                        *)
LEMMA WriteProperties ==
    ASSUME StoreTypeOK, NEW url \in PR, NEW row \in Row, Write(url, row)
    PROVE  /\ StoreTypeOK'
           /\ DOMAIN pulls' = DOMAIN pulls \cup {url}
           /\ pulls'[url] = PullRow(row)
           /\ \A k \in DOMAIN pulls \ {url} : pulls'[k] = pulls[k]
<1>1. PullRow(row) \in [updatedAt : Nat, additions : Nat, mergedAt : Nat]
  BY DEF PullRow, Row
<1>2. /\ DOMAIN pulls' = DOMAIN pulls \cup {url}
      /\ pulls'[url] = PullRow(row)
      /\ \A k \in DOMAIN pulls \ {url} : pulls'[k] = pulls[k]
  BY DEF Write
<1>3. CommitRows(url, row) \in Seq([url : PR, sha : Nat])
  <2>1. row.commits \in Seq(Nat)
    BY DEF Row
  <2>2. PICK n \in Nat : /\ n = Len(row.commits) /\ DOMAIN row.commits = 1 .. n
                       /\ row.commits \in [1 .. n -> Nat]
    BY <2>1, LenProperties
  <2>3. CommitRows(url, row) \in [1 .. n -> [url : PR, sha : Nat]]
    BY <2>2 DEF CommitRows
  <2> DEFINE S == [url : PR, sha : Nat]
  <2> HIDE DEF S
  <2>4. CommitRows(url, row) \in [1 .. n -> S]
    BY <2>3 DEF S
  <2>5. CommitRows(url, row) \in Seq(S)
    BY <2>4
  <2> QED
    BY <2>5 DEF S
<1>4. ReviewRows(url, row) \in Seq([url : PR, id : Nat])
  <2>1. row.reviews \in Seq(Nat)
    BY DEF Row
  <2>2. PICK n \in Nat : /\ n = Len(row.reviews) /\ DOMAIN row.reviews = 1 .. n
                       /\ row.reviews \in [1 .. n -> Nat]
    BY <2>1, LenProperties
  <2>3. ReviewRows(url, row) \in [1 .. n -> [url : PR, id : Nat]]
    BY <2>2 DEF ReviewRows
  <2> DEFINE S == [url : PR, id : Nat]
  <2> HIDE DEF S
  <2>4. ReviewRows(url, row) \in [1 .. n -> S]
    BY <2>3 DEF S
  <2>5. ReviewRows(url, row) \in Seq(S)
    BY <2>4
  <2> QED
    BY <2>5 DEF S
<1>5. \A k \in DOMAIN commits' :
         commits'[k] \in [url : PR, sha : Nat] /\ CommitKey(commits'[k]) = k
  <2> DEFINE S == [url : PR, sha : Nat]
             rows == CommitRows(url, row)
  <2>1. /\ rows \in Seq(S)
        /\ \A k \in DOMAIN commits : commits[k] \in S /\ CommitKey(commits[k]) = k
    BY <1>3 DEF StoreTypeOK
  <2>2. commits' = SaveAll(commits, rows, CommitKey)
    BY DEF Write
  <2> HIDE DEF S, rows
  <2>3. \A k \in DOMAIN SaveAll(commits, rows, CommitKey) :
           /\ SaveAll(commits, rows, CommitKey)[k] \in S
           /\ CommitKey(SaveAll(commits, rows, CommitKey)[k]) = k
    BY <2>1, SavedCommits
  <2> QED
    BY <2>2, <2>3 DEF S
<1>6. \A k \in DOMAIN reviews' :
         reviews'[k] \in [url : PR, id : Nat] /\ ReviewKey(reviews'[k]) = k
  <2> DEFINE S == [url : PR, id : Nat]
             rows == ReviewRows(url, row)
  <2>1. /\ rows \in Seq(S)
        /\ \A k \in DOMAIN reviews : reviews[k] \in S /\ ReviewKey(reviews[k]) = k
    BY <1>4 DEF StoreTypeOK
  <2>2. reviews' = SaveAll(reviews, rows, ReviewKey)
    BY DEF Write
  <2> HIDE DEF S, rows
  <2>3. \A k \in DOMAIN SaveAll(reviews, rows, ReviewKey) :
           /\ SaveAll(reviews, rows, ReviewKey)[k] \in S
           /\ ReviewKey(SaveAll(reviews, rows, ReviewKey)[k]) = k
    BY <2>1, SavedReviews
  <2> QED
    BY <2>2, <2>3 DEF S
<1>7. /\ DOMAIN pulls' \subseteq PR
      /\ \A k \in DOMAIN pulls' :
            pulls'[k] \in [updatedAt : Nat, additions : Nat, mergedAt : Nat]
  BY <1>1, <1>2 DEF StoreTypeOK
<1> QED
  BY <1>2, <1>5, <1>6, <1>7 DEF StoreTypeOK, CommitKey, ReviewKey

(* A step of an Update leaves the tables alone, or writes the row in hand.  *)
LEMMA StoreActions ==
    ASSUME NEW u \in Updater, Call(u) \/ Step(u) \/ UpdaterFault(u)
    PROVE  \/ UNCHANGED dbVars
           \/ job[u].pc = "save" /\ Write(Url(u), job[u].row)
<1>1. CASE Save(u)
  BY <1>1 DEF Save, NewPullRequest, UpdatePullRequest
<1>2. CASE ~Save(u)
  BY <1>2 DEF Call, Step, UpdaterFault, FetchOrgRepos, NextRepo, Finish,
              FetchPullsRequest, FetchPullRequest, RepoDone, PullRequestByURL,
              FetchPullRequestCommits, FetchPullRequestReviews, ApiError,
              DbError, Cancel
<1> QED
  BY <1>1, <1>2

-----------------------------------------------------------------------------
(* The invariant holds at the start and is kept by every step.              *)
LEMMA InitInv ==
    ASSUME GitHubAssumption, UpdateAssumption, Init
    PROVE  Inv
<1>1. \A p \in PR : gh[p] \in Snapshot /\ gh[p].commits = 0 /\ gh[p].mergedAt = 0
                    /\ gh[p].updatedAt = 0
  BY DEF Init, GitHubInit, Snapshot
<1>2. << >> \in Seq(PR) /\ DOMAIN << >> = {}
  BY EmptySeq
<1>3. GitHubTypeOK
  BY <1>1, <1>2 DEF Init, GitHubInit, GitHubTypeOK
<1>4. GitHubInv
  BY <1>1, <1>2 DEF Init, GitHubInit, GitHubInv, IsOpened
<1>5. StoreTypeOK /\ StoredIsSnapshot
  BY DEF Init, StoreInit, StoreTypeOK, StoredIsSnapshot
<1>6. job \in [Updater -> Job] /\ JobInv
  BY NoJobOK DEF Init, JobInv
<1>7. owed \in [Updater -> SUBSET PR] /\ moved \in [Updater -> SUBSET PR]
  BY DEF Init
<1> QED
  BY <1>3, <1>4, <1>5, <1>6, <1>7 DEF Inv, TypeOK

(* The steps and the faults of one Update.                                  *)
LEMMA UpdaterInv ==
    ASSUME UpdateAssumption, Inv,
           NEW u \in Updater, Call(u) \/ Step(u) \/ UpdaterFault(u)
    PROVE  Inv'
<1>1. UNCHANGED ghVars
  BY DEF Call, Step, UpdaterFault, FetchOrgRepos, NextRepo, Finish,
         FetchPullsRequest, FetchPullRequest, RepoDone, PullRequestByURL,
         FetchPullRequestCommits, FetchPullRequestReviews, Save, ApiError,
         DbError, Cancel
<1>2. GitHubTypeOK' /\ GitHubInv'
  BY <1>1 DEF Inv, TypeOK, ghVars, GitHubTypeOK, GitHubInv, IsOpened
<1>3. job' \in [Updater -> Job] /\ JobInv'
  BY JobActions DEF Inv, TypeOK
<1>4. StoreTypeOK' /\ StoredIsSnapshot'
  <2>1. CASE UNCHANGED dbVars
    BY <1>1, <2>1 DEF Inv, TypeOK, StoreTypeOK, StoredIsSnapshot, dbVars, ghVars,
                      CommitKey, ReviewKey
  <2>2. CASE job[u].pc = "save" /\ Write(Url(u), job[u].row)
    <3>1. /\ job[u].row \in Row /\ job[u].prs \in Seq(Entry) /\ job[u].prs # << >>
          /\ IsSnapshotOf(job[u].row, gh[Url(u)])
      BY <2>2 DEF Inv, TypeOK, Job, JobInv, JobOK, InHand, Url, Current
    <3>2. Url(u) \in PR
      <4>1. Head(job[u].prs) \in Entry
        BY <3>1, HeadTailProperties
      <4> QED
        BY <4>1 DEF Url, Current, Entry
    <3>3. /\ StoreTypeOK'
          /\ DOMAIN pulls' = DOMAIN pulls \cup {Url(u)}
          /\ pulls'[Url(u)] = PullRow(job[u].row)
          /\ \A k \in DOMAIN pulls \ {Url(u)} : pulls'[k] = pulls[k]
      BY <2>2, <3>1, <3>2, WriteProperties DEF Inv, TypeOK
    <3>4. IsSnapshotOf(PullRow(job[u].row), gh[Url(u)])
      BY <3>1 DEF IsSnapshotOf, PullRow
    <3>5. \A k \in DOMAIN pulls : IsSnapshotOf(pulls[k], gh[k])
      BY DEF Inv, StoredIsSnapshot
    <3>6. gh' = gh
      BY <1>1 DEF ghVars
    <3>7. ASSUME NEW k \in DOMAIN pulls' PROVE IsSnapshotOf(pulls'[k], gh'[k])
      BY <3>3, <3>4, <3>5, <3>6
    <3> QED
      BY <3>3, <3>7 DEF StoredIsSnapshot
  <2> QED
    BY <2>1, <2>2, StoreActions
<1>5. owed' \in [Updater -> SUBSET PR] /\ moved' \in [Updater -> SUBSET PR]
  BY DEF Call, Step, UpdaterFault, FetchOrgRepos, NextRepo, Finish, Return,
         FetchPullsRequest, FetchPullRequest, RepoDone, PullRequestByURL,
         FetchPullRequestCommits, FetchPullRequestReviews, Save, ApiError,
         DbError, Cancel, ghostVars, Inv, TypeOK
<1> QED
  BY <1>2, <1>3, <1>4, <1>5 DEF Inv, TypeOK

(* The steps of GitHub.                                                     *)
LEMMA EnvironmentInv ==
    ASSUME GitHubAssumption, Inv, NEW p \in PR, Environment(p)
    PROVE  Inv'
<1>1. /\ GitHubTypeOK' /\ GitHubInv'
      /\ \A q \in PR :
            /\ IsOpened(q) => IsOpened(q)'
            /\ \A r : /\ r.updatedAt \in Nat /\ r.additions \in Nat
                     /\ r.mergedAt \in Nat /\ IsSnapshotOf(r, gh[q])
                     => IsSnapshotOf(r, gh'[q])
  BY GitHubStep DEF Inv, TypeOK, Environment
<1>2. UNCHANGED <<dbVars, job, owed>>
  BY DEF Environment
<1>3. StoreTypeOK'
  BY <1>2 DEF dbVars, StoreTypeOK, CommitKey, ReviewKey, Inv, TypeOK
<1>4. StoredIsSnapshot'
  <2>1. ASSUME NEW q \in DOMAIN pulls PROVE IsSnapshotOf(pulls[q], gh'[q])
    <3>1. /\ q \in PR /\ pulls[q].updatedAt \in Nat /\ pulls[q].additions \in Nat
          /\ pulls[q].mergedAt \in Nat
      BY DEF Inv, TypeOK, StoreTypeOK
    <3>2. IsSnapshotOf(pulls[q], gh[q])
      BY DEF Inv, StoredIsSnapshot
    <3> QED
      BY <1>1, <3>1, <3>2
  <2> QED
    BY <1>2, <2>1 DEF dbVars, StoredIsSnapshot
<1>5. JobInv'
  <2>1. ASSUME NEW u \in Updater PROVE JobOK(job[u])'
    <3> DEFINE j == job[u]
    <3>1. /\ j \in Job /\ JobOK(j) /\ j.prs \in Seq(Entry) /\ j.row \in Row
      BY DEF Inv, TypeOK, JobInv, Job
    <3>2. ASSUME NEW i \in DOMAIN j.prs PROVE gh'[j.prs[i].pr].updatedAt > 0
      <4>1. j.prs[i].pr \in PR
        <5>1. j.prs[i] \in Entry
          BY <3>1, ElementOfSeq, LenProperties
        <5> QED
          BY <5>1 DEF Entry
      <4>2. IsOpened(j.prs[i].pr)
        BY <3>1 DEF JobOK
      <4> QED
        BY <1>1, <4>1, <4>2 DEF IsOpened
    <3>3. ASSUME j.pc \in InHand
          PROVE  j.prs # << >> /\ IsSnapshotOf(j.row, gh'[Head(j.prs).pr])
      <4>1. j.prs # << >> /\ IsSnapshotOf(j.row, gh[Head(j.prs).pr])
        BY <3>1, <3>3 DEF JobOK
      <4>2. Head(j.prs).pr \in PR
        <5>1. Head(j.prs) \in Entry
          BY <3>1, <4>1, HeadTailProperties
        <5> QED
          BY <5>1 DEF Entry
      <4>3. /\ j.row.updatedAt \in Nat /\ j.row.additions \in Nat
            /\ j.row.mergedAt \in Nat
        BY <3>1 DEF Row
      <4> QED
        BY <1>1, <4>1, <4>2, <4>3
    <3>4. job'[u] = j
      BY <1>2
    <3> QED
      BY <3>1, <3>2, <3>3, <3>4 DEF JobOK, IsOpened
  <2> QED
    BY <2>1 DEF JobInv
<1>6. moved' \in [Updater -> SUBSET PR]
  BY DEF Environment, Inv, TypeOK
<1> QED
  BY <1>1, <1>2, <1>3, <1>4, <1>5, <1>6 DEF Inv, TypeOK

(* Every step.                                                              *)
LEMMA NextInv ==
    ASSUME GitHubAssumption, UpdateAssumption, Inv, [Next]_vars
    PROVE  Inv'
<1>1. ASSUME NEW u \in Updater, Call(u) \/ Step(u) \/ UpdaterFault(u)
      PROVE  Inv'
  BY <1>1, UpdaterInv
<1>2. ASSUME NEW p \in PR, Environment(p)
      PROVE  Inv'
  BY <1>2, EnvironmentInv
<1>3. CASE Crash
  <2>1. UNCHANGED <<ghVars, dbVars>> /\ job' = [u \in Updater |-> NoJob]
    BY <1>3 DEF Crash
  <2>2. job' \in [Updater -> Job] /\ JobInv'
    <3>1. \A u \in Updater : job'[u] = NoJob
      BY <2>1
    <3>2. \A u \in Updater : JobOK(job[u])'
      BY <3>1 DEF JobOK, NoJob, InHand
    <3> QED
      BY <2>1, <3>2, NoJobOK DEF JobInv
  <2>3. GitHubTypeOK' /\ GitHubInv' /\ StoreTypeOK' /\ StoredIsSnapshot'
    BY <2>1 DEF Inv, TypeOK, ghVars, dbVars, GitHubTypeOK, GitHubInv, IsOpened,
                StoreTypeOK, StoredIsSnapshot, CommitKey, ReviewKey
  <2>4. owed' \in [Updater -> SUBSET PR] /\ moved' \in [Updater -> SUBSET PR]
    BY <1>3 DEF Crash, Inv, TypeOK
  <2> QED
    BY <2>2, <2>3, <2>4 DEF Inv, TypeOK
<1>4. CASE UNCHANGED vars
  <2>1. UNCHANGED <<ghVars, dbVars, job, owed, moved>>
    BY <1>4 DEF vars, ghostVars
  <2>2. GitHubTypeOK' /\ GitHubInv' /\ StoreTypeOK' /\ StoredIsSnapshot'
    BY <2>1 DEF Inv, TypeOK, ghVars, dbVars, GitHubTypeOK, GitHubInv, IsOpened,
                StoreTypeOK, StoredIsSnapshot, CommitKey, ReviewKey
  <2>3. JobInv'
    BY <2>1 DEF Inv, ghVars, JobInv, JobOK, IsOpened
  <2> QED
    BY <2>1, <2>2, <2>3 DEF Inv, TypeOK
<1> QED
  BY <1>1, <1>2, <1>3, <1>4 DEF Next

-----------------------------------------------------------------------------
(***************************************************************************)
(* The theorems.                                                           *)
(***************************************************************************)

(* Every variable and every row of the tables is of its type.               *)
THEOREM TypeCorrect == Spec => []TypeOK
<1>1. Init => Inv
  BY GitHubAssumption, UpdateAssumption, InitInv
<1>2. Inv /\ [Next]_vars => Inv'
  BY GitHubAssumption, UpdateAssumption, NextInv
<1>3. Inv => TypeOK
  BY DEF Inv
<1> QED
  BY <1>1, <1>2, <1>3, PTL DEF Spec

(* However many Updates run, fail and are cancelled, and whatever the sizes *)
(* of the pages and the bounds, no row was ever anything but the pull       *)
(* request as it once was on GitHub.                                        *)
THEOREM RowsAreSnapshots == Spec => []StoredIsSnapshot
<1>1. Init => Inv
  BY GitHubAssumption, UpdateAssumption, InitInv
<1>2. Inv /\ [Next]_vars => Inv'
  BY GitHubAssumption, UpdateAssumption, NextInv
<1>3. Inv => StoredIsSnapshot
  BY DEF Inv
<1> QED
  BY <1>1, <1>2, <1>3, PTL DEF Spec

-----------------------------------------------------------------------------
(* With Updates that do not overlap, the row in hand is never older than    *)
(* the one it will replace.                                                 *)
OneAtATime == \A u, v \in Updater : u = v

RowIsLatest ==
    \A u \in Updater :
        job[u].pc \in InHand /\ Url(u) \in DOMAIN pulls =>
            pulls[Url(u)].updatedAt <= job[u].row.updatedAt

(* The row in hand after a step was in hand before it, or has just been     *)
(* fetched and is the latest there is.                                      *)
LEMMA InHandActions ==
    ASSUME Inv, NEW u \in Updater, Call(u) \/ Step(u) \/ UpdaterFault(u),
           job'[u].pc \in InHand
    PROVE  \/ /\ job[u].pc \in InHand /\ job'[u].prs = job[u].prs
              /\ job'[u].row.updatedAt = job[u].row.updatedAt
              /\ UNCHANGED dbVars
           \/ /\ job[u].prs # << >>
              /\ job'[u].prs = job[u].prs
              /\ job'[u].row.updatedAt = gh[Url(u)].updatedAt
              /\ UNCHANGED dbVars
<1> DEFINE j == job[u]
<1>1. j \in Job /\ j.row \in Row /\ job \in [Updater -> Job]
  BY DEF Inv, TypeOK, Job
<1>2. ASSUME job' = [job EXCEPT ![u] = NextPull(j)] PROVE FALSE
  <2>1. job'[u].pc = "pr"
    BY <1>1, <1>2 DEF NextPull, Job
  <2> QED
    BY <2>1 DEF InHand
<1>3. ASSUME Return(u) PROVE FALSE
  BY <1>1, <1>3 DEF Return, NoJob, InHand
<1>4. CASE Call(u) \/ FetchOrgRepos(u) \/ NextRepo(u) \/ RepoDone(u)
  <2>1. job'[u].pc \in {"repos", "next", "pulls"}
    BY <1>1, <1>4 DEF Call, FetchOrgRepos, NextRepo, RepoDone, Job
  <2> QED
    BY <2>1 DEF InHand
<1>5. CASE FetchPullsRequest(u)
  <2>1. job'[u].pc \in {"pulls", "pr"}
    BY <1>1, <1>5 DEF FetchPullsRequest, Job
  <2> QED
    BY <2>1 DEF InHand
<1>6. CASE FetchPullRequest(u)
  <2>1. job' = [job EXCEPT ![u] = [j EXCEPT !.pc = "find", !.row = Converted(gh[Url(u)])]]
    BY <1>2, <1>6 DEF FetchPullRequest
  <2>2. job'[u] = [j EXCEPT !.pc = "find", !.row = Converted(gh[Url(u)])]
    BY <1>1, <2>1
  <2>3. job'[u].prs = j.prs /\ job'[u].row = Converted(gh[Url(u)])
    BY <1>1, <2>2 DEF Job
  <2>4. Converted(gh[Url(u)]).updatedAt = gh[Url(u)].updatedAt
    BY DEF Converted, NoRow
  <2> QED
    BY <1>6, <2>3, <2>4 DEF FetchPullRequest
<1>7. CASE PullRequestByURL(u)
  <2>1. \/ job' = [job EXCEPT ![u] = [j EXCEPT !.pc = "commits", !.page = 1]]
        \/ job' = [job EXCEPT ![u] = [j EXCEPT !.pc = "commits", !.page = 1,
                                        !.dbPR = pulls[Url(u)].updatedAt]]
    BY <1>2, <1>7 DEF PullRequestByURL
  <2>2. \/ job'[u] = [j EXCEPT !.pc = "commits", !.page = 1]
        \/ job'[u] = [j EXCEPT !.pc = "commits", !.page = 1,
                              !.dbPR = pulls[Url(u)].updatedAt]
    BY <1>1, <2>1
  <2>3. job'[u].prs = j.prs /\ job'[u].row = j.row
    BY <1>1, <2>2 DEF Job
  <2> QED
    BY <1>7, <2>3 DEF PullRequestByURL, InHand
<1>8. CASE FetchPullRequestCommits(u)
  <2>1. \/ job' = [job EXCEPT ![u].pc = "reviews"]
        \/ job' = [job EXCEPT ![u].row.commits = @ \o CommitsPage(Url(u), j.page),
                              ![u].page = @ + 1]
    BY <1>8 DEF FetchPullRequestCommits
  <2> DEFINE row == [j.row EXCEPT
                        !.commits = j.row.commits \o CommitsPage(Url(u), j.page)]
  <2>2. \/ job'[u] = [j EXCEPT !.pc = "reviews"]
        \/ job'[u] = [j EXCEPT !.row = row, !.page = j.page + 1]
    BY <1>1, <2>1
  <2>3. row.updatedAt = j.row.updatedAt
    BY <1>1 DEF Row
  <2> HIDE DEF row
  <2>4. /\ job'[u].prs = j.prs
        /\ job'[u].row = j.row \/ job'[u].row = row
    BY <1>1, <2>2 DEF Job
  <2> QED
    BY <1>8, <2>3, <2>4 DEF FetchPullRequestCommits, InHand
<1>9. CASE FetchPullRequestReviews(u)
  <2>1. job'[u].prs = j.prs /\ job'[u].row.updatedAt = j.row.updatedAt
    BY <1>1, <1>9 DEF FetchPullRequestReviews, Job, Row
  <2> QED
    BY <1>9, <2>1 DEF FetchPullRequestReviews, InHand
<1>10. CASE Cancel(u)
  <2>1. job'[u].prs = j.prs /\ job'[u].row = j.row /\ job'[u].pc = j.pc
    BY <1>1, <1>10 DEF Cancel, Job
  <2> QED
    BY <1>10, <2>1 DEF Cancel
<1>11. CASE Finish(u) \/ ApiError(u)
  BY <1>3, <1>11 DEF Finish, ApiError
<1>12. CASE Save(u) \/ DbError(u)
  BY <1>2, <1>12 DEF Save, DbError
<1> QED
  BY <1>4, <1>5, <1>6, <1>7, <1>8, <1>9, <1>10, <1>11, <1>12 DEF Step, UpdaterFault

(* RowIsLatest is kept by every step.                                       *)
LEMMA NextRowIsLatest ==
    ASSUME OneAtATime, Inv, RowIsLatest, [Next]_vars
    PROVE  RowIsLatest'
<1>1. ASSUME NEW u \in Updater, Call(u) \/ Step(u) \/ UpdaterFault(u)
      PROVE  RowIsLatest'
  <2>1. ASSUME job'[u].pc \in InHand, Head(job'[u].prs).pr \in DOMAIN pulls'
        PROVE  pulls'[Head(job'[u].prs).pr].updatedAt <= job'[u].row.updatedAt
    <3>1. UNCHANGED dbVars /\ job'[u].prs = job[u].prs
      BY <1>1, <2>1, InHandActions
    <3>2. pulls' = pulls /\ Head(job'[u].prs).pr = Url(u) /\ Url(u) \in DOMAIN pulls
      BY <2>1, <3>1 DEF Url, Current, dbVars
    <3>3. CASE job[u].pc \in InHand /\ job'[u].row.updatedAt = job[u].row.updatedAt
      BY <3>2, <3>3 DEF RowIsLatest
    <3>4. CASE job'[u].row.updatedAt = gh[Url(u)].updatedAt
      <4>1. pulls[Url(u)].updatedAt \in 1 .. gh[Url(u)].updatedAt
        BY <3>2 DEF Inv, StoredIsSnapshot, IsSnapshotOf
      <4>2. Url(u) \in PR
        BY <3>2 DEF Inv, TypeOK, StoreTypeOK
      <4>3. gh[Url(u)].updatedAt \in Nat
        BY <4>2 DEF Inv, TypeOK, GitHubTypeOK, Snapshot
      <4> QED
        BY <3>2, <3>4, <4>1, <4>3
    <3> QED
      BY <1>1, <2>1, <3>3, <3>4, InHandActions
  <2>2. \A v \in Updater : v = u
    BY DEF OneAtATime
  <2> QED
    BY <2>1, <2>2 DEF RowIsLatest, Url, Current
<1>2. ASSUME NEW p \in PR, Environment(p)
      PROVE  RowIsLatest'
  BY <1>2 DEF Environment, dbVars, RowIsLatest, Url, Current
<1>3. CASE Crash
  BY <1>3 DEF Crash, RowIsLatest, NoJob, InHand
<1>4. CASE UNCHANGED vars
  BY <1>4 DEF vars, dbVars, RowIsLatest, Url, Current
<1> QED
  BY <1>1, <1>2, <1>3, <1>4 DEF Next

(* What a step of Next does to a row that is there.                         *)
LEMMA RowsAdvance ==
    ASSUME OneAtATime, Inv, RowIsLatest, [Next]_vars
    PROVE  \/ UNCHANGED pulls
           \/ \E url \in PR, t \in Nat :
                 /\ UNCHANGED ghVars
                 /\ t \in 1 .. gh[url].updatedAt
                 /\ url \in DOMAIN pulls => pulls[url].updatedAt <= t
                 /\ DOMAIN pulls' = DOMAIN pulls \cup {url}
                 /\ pulls'[url].updatedAt = t
                 /\ \A k \in DOMAIN pulls \ {url} : pulls'[k] = pulls[k]
<1>1. ASSUME NEW u \in Updater, Save(u), job[u].pc = "save",
             Write(Url(u), job[u].row)
      PROVE  \E url \in PR, t \in Nat :
                 /\ UNCHANGED ghVars
                 /\ t \in 1 .. gh[url].updatedAt
                 /\ url \in DOMAIN pulls => pulls[url].updatedAt <= t
                 /\ DOMAIN pulls' = DOMAIN pulls \cup {url}
                 /\ pulls'[url].updatedAt = t
                 /\ \A k \in DOMAIN pulls \ {url} : pulls'[k] = pulls[k]
  <2>1. /\ job[u].row \in Row /\ job[u].prs \in Seq(Entry) /\ job[u].prs # << >>
        /\ IsSnapshotOf(job[u].row, gh[Url(u)])
    BY <1>1 DEF Inv, TypeOK, Job, JobInv, JobOK, InHand, Url, Current
  <2>2. PICK url \in PR : url = Url(u)
    <3>1. Head(job[u].prs) \in Entry
      BY <2>1, HeadTailProperties
    <3> QED
      BY <3>1 DEF Url, Current, Entry
  <2>3. PICK t \in Nat : t = job[u].row.updatedAt
    BY <2>1 DEF Row
  <2>4. t \in 1 .. gh[url].updatedAt
    BY <2>1, <2>2, <2>3 DEF IsSnapshotOf
  <2>5. url \in DOMAIN pulls => pulls[url].updatedAt <= t
    BY <1>1, <2>2, <2>3 DEF RowIsLatest, InHand
  <2>6. /\ DOMAIN pulls' = DOMAIN pulls \cup {url}
        /\ pulls'[url] = PullRow(job[u].row)
        /\ \A k \in DOMAIN pulls \ {url} : pulls'[k] = pulls[k]
    BY <1>1, <2>1, <2>2, WriteProperties DEF Inv, TypeOK
  <2>7. pulls'[url].updatedAt = t
    BY <2>3, <2>6 DEF PullRow
  <2>8. UNCHANGED ghVars
    BY <1>1 DEF Save
  <2> QED
    BY <2>4, <2>5, <2>6, <2>7, <2>8
<1>2. ASSUME NEW u \in Updater, Call(u) \/ Step(u) \/ UpdaterFault(u)
      PROVE  UNCHANGED pulls \/ (Save(u) /\ job[u].pc = "save" /\ Write(Url(u), job[u].row))
  <2>1. CASE Save(u)
    BY <2>1 DEF Save, NewPullRequest, UpdatePullRequest, dbVars
  <2>2. CASE ~Save(u)
    BY <1>2, <2>2 DEF Call, Step, UpdaterFault, FetchOrgRepos, NextRepo, Finish,
              FetchPullsRequest, FetchPullRequest, RepoDone, PullRequestByURL,
              FetchPullRequestCommits, FetchPullRequestReviews, ApiError,
              DbError, Cancel, dbVars
  <2> QED
    BY <2>1, <2>2
<1>3. ASSUME NEW p \in PR, Environment(p)
      PROVE  UNCHANGED pulls
  BY <1>3 DEF Environment, dbVars
<1>4. Crash \/ UNCHANGED vars => UNCHANGED pulls
  BY DEF Crash, vars, dbVars
<1> QED
  BY <1>1, <1>2, <1>3, <1>4 DEF Next

(* update.go:78, for Updates that do not overlap: no row is taken back to   *)
(* an earlier updated_at.                                                   *)
THEOREM RowsNeverRegress == OneAtATime => (Spec => NeverRegresses)
<1> SUFFICES ASSUME OneAtATime PROVE Spec => NeverRegresses
  OBVIOUS
<1>1. Init => Inv /\ RowIsLatest
  <2>1. Init => RowIsLatest
    BY DEF Init, RowIsLatest, NoJob, InHand
  <2> QED
    BY <2>1, GitHubAssumption, UpdateAssumption, InitInv
<1>2. Inv /\ RowIsLatest /\ [Next]_vars => Inv' /\ RowIsLatest'
  BY GitHubAssumption, UpdateAssumption, NextInv, NextRowIsLatest
<1>3. ASSUME Inv, RowIsLatest, [Next]_vars
      PROVE  [\A p \in DOMAIN pulls :
                 /\ p \in DOMAIN pulls'
                 /\ pulls'[p].updatedAt >= pulls[p].updatedAt]_pulls
  <2>1. ASSUME NEW p \in DOMAIN pulls PROVE pulls[p].updatedAt \in Nat
    BY <1>3 DEF Inv, TypeOK, StoreTypeOK
  <2>2. CASE UNCHANGED pulls
    BY <2>2
  <2>3. ASSUME NEW url \in PR, NEW t \in Nat,
               url \in DOMAIN pulls => pulls[url].updatedAt <= t,
               DOMAIN pulls' = DOMAIN pulls \cup {url},
               pulls'[url].updatedAt = t,
               \A k \in DOMAIN pulls \ {url} : pulls'[k] = pulls[k]
        PROVE  \A p \in DOMAIN pulls :
                 /\ p \in DOMAIN pulls'
                 /\ pulls'[p].updatedAt >= pulls[p].updatedAt
    BY <2>1, <2>3
  <2> QED
    BY <1>3, <2>2, <2>3, RowsAdvance
<1> QED
  BY <1>1, <1>2, <1>3, PTL DEF Spec, NeverRegresses

-----------------------------------------------------------------------------
(* A step of GitHub is one Change of the mirror's remote side.              *)
LEMMA EnvironmentChanges ==
    ASSUME GitHubAssumption, Inv, NEW p \in PR, Environment(p)
    PROVE  M!Change(p)
<1>1. /\ gh'[p].updatedAt = gh[p].updatedAt + 1
      /\ \A q \in PR \ {p} : gh'[q] = gh[q]
  BY GitHubStep DEF Inv, TypeOK, Environment
<1>3. RemoteVersion' = [RemoteVersion EXCEPT ![p] = @ + 1]
  BY <1>1 DEF RemoteVersion
<1>4. UNCHANGED StoredVersion
  BY DEF Environment, dbVars, StoredVersion
<1> QED
  BY <1>3, <1>4 DEF M!Change

(* Every step of the tracker is a step of Mirror or leaves it alone.        *)
LEMMA StepSimulation ==
    ASSUME OneAtATime, Inv, RowIsLatest, [Next]_vars
    PROVE  [M!Next]_(M!mirrorVars)
<1>1. CASE \E p \in PR : Environment(p)
  BY <1>1, GitHubAssumption, EnvironmentChanges DEF M!Next
<1>2. CASE UNCHANGED ghVars /\ UNCHANGED pulls
  BY <1>2 DEF ghVars, M!mirrorVars, RemoteVersion, StoredVersion
<1>3. ASSUME NEW url \in PR, NEW t \in Nat, UNCHANGED ghVars,
             t \in 1 .. gh[url].updatedAt,
             url \in DOMAIN pulls => pulls[url].updatedAt <= t,
             DOMAIN pulls' = DOMAIN pulls \cup {url},
             pulls'[url].updatedAt = t,
             \A k \in DOMAIN pulls \ {url} : pulls'[k] = pulls[k]
      PROVE  M!Copy(url)
  <2>1. RemoteVersion' = RemoteVersion /\ RemoteVersion[url] = gh[url].updatedAt
    BY <1>3 DEF ghVars, RemoteVersion
  <2>2. StoredVersion' = [StoredVersion EXCEPT ![url] = t]
    BY <1>3 DEF StoredVersion
  <2>3. t >= StoredVersion[url]
    BY <1>3 DEF StoredVersion
  <2> QED
    BY <1>3, <2>1, <2>2, <2>3 DEF M!Copy
<1>4. UNCHANGED ghVars \/ \E p \in PR : Environment(p)
  <2>1. ASSUME NEW u \in Updater, Call(u) \/ Step(u) \/ UpdaterFault(u)
        PROVE  UNCHANGED ghVars
    BY <2>1 DEF Call, Step, UpdaterFault, FetchOrgRepos, NextRepo, Finish,
           FetchPullsRequest, FetchPullRequest, RepoDone, PullRequestByURL,
           FetchPullRequestCommits, FetchPullRequestReviews, Save, ApiError,
           DbError, Cancel
  <2>2. Crash \/ UNCHANGED vars => UNCHANGED ghVars
    BY DEF Crash, vars, ghVars
  <2> QED
    BY <2>1, <2>2 DEF Next
<1>5. CASE UNCHANGED ghVars
  <2>1. UNCHANGED pulls \/ \E url \in PR : M!Copy(url)
    BY <1>3, RowsAdvance
  <2>2. (\E url \in PR : M!Copy(url)) => M!Next
    BY DEF M!Next
  <2> QED
    BY <1>2, <1>5, <2>1, <2>2
<1> QED
  BY <1>1, <1>4, <1>5

(* With Updates that do not overlap, the database is the mirror's stored    *)
(* side and GitHub its remote one: it holds versions that exist or existed  *)
(* and goes from one to a later one, through failures and crashes.          *)
THEOREM RefinesMirror == OneAtATime => (Spec => ImplementsMirror)
<1> SUFFICES ASSUME OneAtATime PROVE Spec => ImplementsMirror
  OBVIOUS
<1>1. Init => Inv /\ RowIsLatest
  <2>1. Init => RowIsLatest
    BY DEF Init, RowIsLatest, NoJob, InHand
  <2> QED
    BY <2>1, GitHubAssumption, UpdateAssumption, InitInv
<1>2. Inv /\ RowIsLatest /\ [Next]_vars => Inv' /\ RowIsLatest'
  BY GitHubAssumption, UpdateAssumption, NextInv, NextRowIsLatest
<1>3. Init => M!Init
  BY DEF Init, GitHubInit, StoreInit, M!Init, RemoteVersion, StoredVersion
<1>4. Inv /\ RowIsLatest /\ [Next]_vars => [M!Next]_(M!mirrorVars)
  BY StepSimulation
<1> QED
  BY <1>1, <1>2, <1>3, <1>4, PTL DEF Spec, ImplementsMirror, M!Safety
=============================================================================
