------------------------ MODULE UserInformationProofs ------------------------
(***************************************************************************)
(* A report is right about the reviews it found, and a row of reports of   *)
(* months about the pull requests merged in them, for any tables, any      *)
(* number of Updates that write meanwhile and any failed queries.          *)
(*                                                                         *)
(* FoundReviewsReported speaks of an answered request.  LookupInv is what  *)
(* holds on the way there: each review found is still to be looked up, or  *)
(* its lookup has failed, or it is in the report, and only one of these.   *)
(*                                                                         *)
(* StatsAddUp speaks of what the two loops over the lists compute          *)
(* (RepoStats).  It is proved by following both folds, that of the program *)
(* and those of EntryOf, from one element to the next.                     *)
(***************************************************************************)
EXTENDS UserInformation, StoreProofs, FiniteSetTheorems

Reported == {revs[i].key : i \in DOMAIN revs}
LookedUp == found \ (todo \cup failed)

LookupInv ==
    /\ pc \in {"idle", "reviews"} => revs = << >> /\ found = {} /\ failed = {}
    /\ pc # "lookup" => todo = {}
    /\ todo \cap failed = {}
    /\ Reported \subseteq LookedUp
    /\ \A i, j \in DOMAIN revs : revs[i].key = revs[j].key => i = j
    /\ \A k \in LookedUp : PullRepo[k[1]] \in NamedDecred => k \in Reported

-----------------------------------------------------------------------------
(* The tables.                                                              *)
StoreOK ==
    /\ DOMAIN pulls \subseteq PR
    /\ \A p \in DOMAIN pulls : pulls[p].additions \in Nat
    /\ DOMAIN reviews \subseteq Review
    /\ \A k \in DOMAIN reviews :
          /\ reviews[k] = [url |-> k[1], id |-> k[2]]
          /\ k[1] \in DOMAIN pulls

(* The variables of the request.                                            *)
RequestOK ==
    /\ pc \in {"idle", "reviews", "lookup", "answered"}
    /\ asked \in DOMAIN Requests
    /\ prs \in Seq(PullInfo)
    /\ revs \in Seq(ReviewInfo)
    /\ faults \in 0 .. MaxFaults

(* What the history variables say is in the tables.                         *)
HistoryOK ==
    /\ todo \subseteq found
    /\ failed \subseteq found
    /\ found \subseteq DOMAIN reviews
    /\ due \subseteq DOMAIN pulls
    /\ shown \subseteq PR

ReportInv == StoreOK /\ RequestOK /\ HistoryOK /\ LookupInv

(* The review rows that an Update writes carry their keys.                  *)
ReviewRowOf == {[url |-> k[1], id |-> k[2]] : k \in Review}

LEMMA RowOfKey ==
    ASSUME NEW rev \in ReviewRowOf
    PROVE  /\ ReviewKey(rev) \in Review
           /\ rev = [url |-> ReviewKey(rev)[1], id |-> ReviewKey(rev)[2]]
<1>1. PICK k \in Review : rev = [url |-> k[1], id |-> k[2]]
  BY DEF ReviewRowOf
<1>2. PICK p \in PR, n \in Nat : k = <<p, n>>
  BY <1>1, UserInformationAssumption
<1> QED
  BY <1>1, <1>2 DEF ReviewKey

LEMMA WrittenRows ==
    ASSUME NEW p \in PR, NEW row \in Versions[p]
    PROVE  /\ ReviewRows(p, row) \in Seq(ReviewRowOf)
           /\ \A i \in DOMAIN ReviewRows(p, row) :
                 ReviewKey(ReviewRows(p, row)[i])[1] = p
           /\ PullRow(row).additions \in Nat
<1>1. /\ row.reviews \in Seq(Nat)
      /\ \A i \in DOMAIN row.reviews : <<p, row.reviews[i]>> \in Review
      /\ row.additions \in Nat
  BY UserInformationAssumption
<1> DEFINE n == Len(row.reviews)
<1>2. n \in Nat /\ DOMAIN row.reviews = 1 .. n
  BY <1>1, LenProperties
<1>3. ReviewRows(p, row) = [i \in 1 .. n |-> [url |-> p, id |-> row.reviews[i]]]
  BY <1>2 DEF ReviewRows
<1>4. ASSUME NEW i \in 1 .. n
      PROVE  [url |-> p, id |-> row.reviews[i]] \in ReviewRowOf
  <2> DEFINE k == <<p, row.reviews[i]>>
  <2>1. k \in Review /\ k[1] = p /\ k[2] = row.reviews[i]
    BY <1>1, <1>2
  <2> QED
    BY <2>1 DEF ReviewRowOf
<1> HIDE DEF n
<1>5. ReviewRows(p, row) \in [1 .. n -> ReviewRowOf]
  BY <1>3, <1>4
<1>6. ReviewRows(p, row) \in Seq(ReviewRowOf)
  BY <1>2, <1>5
<1>7. \A i \in DOMAIN ReviewRows(p, row) : ReviewKey(ReviewRows(p, row)[i])[1] = p
  BY <1>3 DEF ReviewKey
<1> QED
  BY <1>1, <1>6, <1>7 DEF PullRow

(* A write keeps the tables so, and takes no row away.                      *)
LEMMA WriteKeeps ==
    ASSUME StoreOK, NEW p \in PR, NEW row \in Versions[p], Write(p, row)
    PROVE  /\ StoreOK'
           /\ DOMAIN pulls \subseteq DOMAIN pulls'
           /\ DOMAIN reviews \subseteq DOMAIN reviews'
<1>1. /\ ReviewRows(p, row) \in Seq(ReviewRowOf)
      /\ \A i \in DOMAIN ReviewRows(p, row) : ReviewKey(ReviewRows(p, row)[i])[1] = p
      /\ PullRow(row).additions \in Nat
  BY WrittenRows
<1>2. pulls' = [k \in DOMAIN pulls \cup {p} |-> IF k = p THEN PullRow(row) ELSE pulls[k]]
  BY DEF Write
<1>3. /\ DOMAIN pulls' = DOMAIN pulls \cup {p}
      /\ \A k \in DOMAIN pulls' : pulls'[k].additions \in Nat
  BY <1>1, <1>2 DEF StoreOK
<1>4. \A k \in DOMAIN reviews : reviews[k] \in ReviewRowOf /\ ReviewKey(reviews[k]) = k
  <2> SUFFICES ASSUME NEW k \in DOMAIN reviews
               PROVE  reviews[k] \in ReviewRowOf /\ ReviewKey(reviews[k]) = k
    OBVIOUS
  <2>1. k \in Review /\ reviews[k] = [url |-> k[1], id |-> k[2]]
    BY DEF StoreOK
  <2>2. PICK q \in PR, n \in Nat : k = <<q, n>>
    BY <2>1, UserInformationAssumption
  <2> QED
    BY <2>1, <2>2 DEF ReviewRowOf, ReviewKey
<1>5. /\ DOMAIN reviews \subseteq DOMAIN reviews'
      /\ \A k \in DOMAIN reviews' \ DOMAIN reviews : k[1] = p
  BY <1>1, WrittenKeys
<1>6. \A k \in DOMAIN reviews' : reviews'[k] \in ReviewRowOf /\ ReviewKey(reviews'[k]) = k
  BY <1>1, <1>4, WrittenReviews
<1>7. ASSUME NEW k \in DOMAIN reviews'
      PROVE  /\ k \in Review
             /\ reviews'[k] = [url |-> k[1], id |-> k[2]]
             /\ k[1] \in DOMAIN pulls'
  <2>1. k \in Review /\ reviews'[k] = [url |-> k[1], id |-> k[2]]
    BY <1>6, RowOfKey
  <2>2. k[1] \in DOMAIN pulls'
    BY <1>3, <1>5 DEF StoreOK
  <2> QED
    BY <2>1, <2>2
<1> QED
  BY <1>3, <1>5, <1>7 DEF StoreOK

-----------------------------------------------------------------------------
LEMMA InitHolds ==
    ASSUME Init
    PROVE  ReportInv
<1>1. StoreOK
  BY DEF Init, StoreInit, StoreOK
<1>2. RequestOK
  <2>1. 1 \in DOMAIN Requests
    <3>1. Requests \in Seq([year : Nat \ {0}, month : 1 .. 12]) /\ Requests # << >>
      BY UserInformationAssumption
    <3>2. Len(Requests) \in Nat \ {0} /\ DOMAIN Requests = 1 .. Len(Requests)
      BY <3>1, LenProperties, EmptySeq
    <3> QED
      BY <3>2
  <2>2. << >> \in Seq(PullInfo) /\ << >> \in Seq(ReviewInfo)
    BY EmptySeq
  <2> QED
    BY <2>1, <2>2, UserInformationAssumption DEF Init, RequestOK
<1>3. HistoryOK
  BY DEF Init, HistoryOK
<1>4. LookupInv
  BY DEF Init, LookupInv, Reported, LookedUp
<1> QED
  BY <1>1, <1>2, <1>3, <1>4 DEF ReportInv

(* The query for the pull requests.                                         *)
LEMMA PullsKeep ==
    ASSUME ReportInv, PullRequestsByUserDates
    PROVE  ReportInv'
<1>0. StoreOK /\ RequestOK /\ HistoryOK /\ LookupInv
  BY DEF ReportInv
<1>1. StoreOK'
  BY <1>0 DEF PullRequestsByUserDates, StoreOK, dbVars
<1>2. prs' \in Seq(PullInfo)
  <2> DEFINE S == PullsBetween(PeriodAsked)
  <2>1. PICK order \in SetToSeqs(S) :
           prs' = [i \in DOMAIN order |->
                     [url |-> order[i], repo |-> PullRepo[order[i]],
                      additions |-> pulls[order[i]].additions]]
    BY DEF PullRequestsByUserDates
  <2>2. S \subseteq DOMAIN pulls
    BY DEF PullsBetween
  <2> HIDE DEF S
  <2>3. \A p \in S : [url |-> p, repo |-> PullRepo[p], additions |-> pulls[p].additions]
                        \in PullInfo
    BY <1>0, <2>2, UserInformationAssumption DEF StoreOK, PullInfo
  <2>4. Cardinality(S) \in Nat
    <3>1. IsFiniteSet(PR) /\ S \subseteq PR
      BY <1>0, <2>2, UserInformationAssumption DEF StoreOK
    <3> QED
      BY <3>1, FS_Subset, FS_CardinalityType
  <2>5. order \in [1 .. Cardinality(S) -> S]
    BY <2>1 DEF SetToSeqs
  <2>6. prs' \in [1 .. Cardinality(S) -> PullInfo]
    BY <2>1, <2>3, <2>5
  <2> QED
    BY <2>4, <2>6
<1>3. RequestOK'
  BY <1>0, <1>2 DEF PullRequestsByUserDates, RequestOK
<1>4. due' \subseteq DOMAIN pulls /\ shown' \subseteq PR
  BY <1>0 DEF PullRequestsByUserDates, PullsBetween, HistoryOK
<1>5. HistoryOK'
  BY <1>0, <1>4 DEF PullRequestsByUserDates, HistoryOK, dbVars
<1>6. LookupInv'
  BY <1>0 DEF PullRequestsByUserDates, LookupInv, Reported, LookedUp
<1> QED
  BY <1>1, <1>3, <1>5, <1>6 DEF ReportInv

(* The query for the reviews: all it finds is still to be looked up.        *)
LEMMA ReviewsKeep ==
    ASSUME ReportInv, ReviewsByUserDates
    PROVE  ReportInv'
<1>0. StoreOK /\ RequestOK /\ HistoryOK /\ LookupInv
  BY DEF ReportInv
<1>1. StoreOK' /\ RequestOK'
  BY <1>0 DEF ReviewsByUserDates, StoreOK, RequestOK, dbVars
<1>2. HistoryOK'
  BY <1>0 DEF ReviewsByUserDates, ReviewsBetween, HistoryOK, LookupInv, dbVars
<1>3. LookupInv'
  BY <1>0 DEF ReviewsByUserDates, LookupInv, Reported, LookedUp
<1> QED
  BY <1>1, <1>2, <1>3 DEF ReportInv

(* A lookup: the row of the review's pull request is among those that       *)
(* match if its repository is named decred.                                 *)
LEMMA LookUpKeeps ==
    ASSUME ReportInv, NEW k \in Review, LookUpPullRequest(k)
    PROVE  ReportInv'
<1>0. StoreOK /\ RequestOK /\ HistoryOK /\ LookupInv
  BY DEF ReportInv
<1> DEFINE url == k[1]
           matching == Matching(PullRepo[url], PullNumber[url])
<1>1. /\ pc = "lookup" /\ k \in todo /\ todo' = todo \ {k}
      /\ UNCHANGED <<dbVars, pc, asked, prs, faults, found, failed, due, shown>>
  BY DEF LookUpPullRequest, ghostVars
<1>2. k \in DOMAIN reviews /\ reviews[k].url = url /\ url \in DOMAIN pulls /\ url \in PR
  BY <1>0, <1>1 DEF HistoryOK, StoreOK
<1>3. \/ matching = {} /\ revs' = revs
      \/ \E p \in matching :
            revs' = Append(revs, [key |-> k, repo |-> PullRepo[url],
                                  additions |-> pulls[p].additions])
  BY <1>2 DEF LookUpPullRequest
<1>4. PullRepo[url] \in NamedDecred => matching # {}
  BY <1>2 DEF Matching, LookupRepo
<1>5. \A p \in matching : pulls[p].additions \in Nat
  BY <1>0 DEF Matching, StoreOK
<1>6. PullRepo[url] \in Repo
  BY <1>2, UserInformationAssumption
<1>7. k \notin Reported /\ k \notin failed /\ k \in found
  BY <1>0, <1>1 DEF LookupInv, LookedUp, HistoryOK
<1>8. LookedUp' = LookedUp \cup {k}
  BY <1>0, <1>1, <1>7 DEF LookedUp
<1>9. StoreOK' /\ HistoryOK'
  BY <1>0, <1>1 DEF StoreOK, HistoryOK, dbVars
<1> HIDE DEF matching, url
<1>10. CASE matching = {} /\ revs' = revs
  <2>1. RequestOK'
    BY <1>0, <1>1, <1>10 DEF RequestOK
  <2>2. Reported' = Reported
    BY <1>10 DEF Reported
  <2>3. LookupInv'
    BY <1>0, <1>1, <1>4, <1>7, <1>8, <1>10, <2>2 DEF LookupInv, url
  <2> QED
    BY <1>9, <2>1, <2>3 DEF ReportInv
<1>11. ASSUME NEW p \in matching,
              revs' = Append(revs, [key |-> k, repo |-> PullRepo[url],
                                    additions |-> pulls[p].additions])
       PROVE  ReportInv'
  <2> DEFINE rev == [key |-> k, repo |-> PullRepo[url], additions |-> pulls[p].additions]
  <2>1. rev \in ReviewInfo /\ rev.key = k
    BY <1>5, <1>6 DEF ReviewInfo
  <2> HIDE DEF rev
  <2>2. revs \in Seq(ReviewInfo) /\ revs' = Append(revs, rev)
    BY <1>0, <1>11 DEF RequestOK, rev
  <2>3. /\ revs' \in Seq(ReviewInfo) /\ Len(revs') = Len(revs) + 1
        /\ \A i \in 1 .. Len(revs) : revs'[i] = revs[i]
        /\ revs'[Len(revs) + 1] = rev
    BY <2>1, <2>2, AppendProperties
  <2>4. /\ Len(revs) \in Nat /\ DOMAIN revs = 1 .. Len(revs)
        /\ DOMAIN revs' = 1 .. Len(revs) + 1
    BY <2>2, <2>3, LenProperties
  <2>5. RequestOK'
    BY <1>0, <1>1, <2>3 DEF RequestOK
  <2>6. Reported' = Reported \cup {k}
    <3>1. \A i \in DOMAIN revs' : revs'[i].key \in Reported \cup {k}
      BY <2>1, <2>3, <2>4 DEF Reported
    <3>2. \A i \in DOMAIN revs : \E j \in DOMAIN revs' : revs'[j].key = revs[i].key
      BY <2>3, <2>4
    <3>3. \E j \in DOMAIN revs' : revs'[j].key = k
      BY <2>1, <2>3, <2>4
    <3> QED
      BY <3>1, <3>2, <3>3 DEF Reported
  <2>7. ASSUME NEW i \in DOMAIN revs', NEW j \in DOMAIN revs', revs'[i].key = revs'[j].key
        PROVE  i = j
    <3>1. \A m \in 1 .. Len(revs) : revs'[m].key # k
      BY <1>7, <2>3, <2>4 DEF Reported
    <3>2. CASE i \in 1 .. Len(revs) /\ j \in 1 .. Len(revs)
      BY <1>0, <2>3, <2>4, <2>7, <3>2 DEF LookupInv
    <3>3. CASE i = Len(revs) + 1 \/ j = Len(revs) + 1
      BY <2>1, <2>3, <2>4, <2>7, <3>1, <3>3
    <3> QED
      BY <2>4, <3>2, <3>3
  <2>8. LookupInv'
    BY <1>0, <1>1, <1>8, <2>6, <2>7 DEF LookupInv
  <2> QED
    BY <1>9, <2>5, <2>8 DEF ReportInv
<1> QED
  BY <1>3, <1>10, <1>11

(* A lookup that fails costs its review.                                    *)
LEMMA LookupFailsKeeps ==
    ASSUME ReportInv, NEW k \in Review, LookupFails(k)
    PROVE  ReportInv'
<1>0. StoreOK /\ RequestOK /\ HistoryOK /\ LookupInv
  BY DEF ReportInv
<1>1. StoreOK'
  BY <1>0 DEF LookupFails, StoreOK, dbVars
<1>2. faults' \in 0 .. MaxFaults
  BY <1>0, UserInformationAssumption DEF LookupFails, Fault, RequestOK
<1>3. RequestOK'
  BY <1>0, <1>2 DEF LookupFails, RequestOK
<1>4. HistoryOK'
  BY <1>0 DEF LookupFails, HistoryOK, dbVars
<1>5. Reported' = Reported /\ LookedUp' = LookedUp
  BY <1>0 DEF LookupFails, Reported, LookedUp
<1>6. LookupInv'
  BY <1>0, <1>5 DEF LookupFails, LookupInv
<1> QED
  BY <1>1, <1>3, <1>4, <1>6 DEF ReportInv

(* The answer, and the next report.                                         *)
LEMMA AnswerKeeps ==
    ASSUME ReportInv, Answer
    PROVE  ReportInv'
<1>0. StoreOK /\ RequestOK /\ HistoryOK /\ LookupInv
  BY DEF ReportInv
<1>1. StoreOK' /\ RequestOK'
  BY <1>0 DEF Answer, StoreOK, RequestOK, dbVars
<1>2. \A i \in DOMAIN prs : prs[i].url \in PR
  <2>1. \A i \in 1 .. Len(prs) : prs[i] \in PullInfo
    BY <1>0, ElementOfSeq DEF RequestOK
  <2>2. DOMAIN prs = 1 .. Len(prs)
    BY <1>0, LenProperties DEF RequestOK
  <2> QED
    BY <2>1, <2>2 DEF PullInfo
<1>3. HistoryOK'
  BY <1>0, <1>2 DEF Answer, HistoryOK, dbVars
<1>4. LookupInv'
  BY <1>0 DEF Answer, LookupInv, Reported, LookedUp
<1> QED
  BY <1>1, <1>3, <1>4 DEF ReportInv

LEMMA NextReportKeeps ==
    ASSUME ReportInv, NextReport
    PROVE  ReportInv'
<1>0. StoreOK /\ RequestOK /\ HistoryOK /\ LookupInv
  BY DEF ReportInv
<1>1. asked' \in DOMAIN Requests
  <2>1. Len(Requests) \in Nat /\ DOMAIN Requests = 1 .. Len(Requests)
    BY UserInformationAssumption, LenProperties
  <2> QED
    BY <1>0, <2>1 DEF NextReport, RequestOK
<1>2. << >> \in Seq(PullInfo) /\ << >> \in Seq(ReviewInfo)
  BY EmptySeq
<1>3. StoreOK' /\ RequestOK'
  BY <1>0, <1>1, <1>2 DEF NextReport, Forget, StoreOK, RequestOK, dbVars
<1>4. todo = {}
  BY <1>0 DEF NextReport, LookupInv
<1>5. HistoryOK'
  BY <1>0, <1>4 DEF NextReport, Forget, HistoryOK, dbVars
<1>6. LookupInv'
  BY <1>4 DEF NextReport, Forget, LookupInv, Reported, LookedUp
<1> QED
  BY <1>3, <1>5, <1>6 DEF ReportInv

LEMMA QueryFailsKeeps ==
    ASSUME ReportInv, QueryFails
    PROVE  ReportInv'
<1>0. StoreOK /\ RequestOK /\ HistoryOK /\ LookupInv
  BY DEF ReportInv
<1>1. faults' \in 0 .. MaxFaults
  BY <1>0, UserInformationAssumption DEF QueryFails, Fault, RequestOK
<1>2. << >> \in Seq(PullInfo) /\ << >> \in Seq(ReviewInfo)
  BY EmptySeq
<1>3. StoreOK' /\ RequestOK'
  BY <1>0, <1>1, <1>2 DEF QueryFails, Forget, StoreOK, RequestOK, dbVars
<1>4. todo = {}
  BY <1>0 DEF QueryFails, LookupInv
<1>5. HistoryOK'
  BY <1>0, <1>4 DEF QueryFails, Forget, HistoryOK, dbVars
<1>6. LookupInv'
  BY <1>4 DEF QueryFails, Forget, LookupInv, Reported, LookedUp
<1> QED
  BY <1>3, <1>5, <1>6 DEF ReportInv

(* An Update takes no row away that a report has found.                     *)
LEMMA UpdateKeeps ==
    ASSUME ReportInv, NEW p \in PR, UpdateStores(p)
    PROVE  ReportInv'
<1>0. StoreOK /\ RequestOK /\ HistoryOK /\ LookupInv
  BY DEF ReportInv
<1>1. PICK row \in Versions[p] :
         /\ IF PullRequestNotFound(p)
            THEN NewPullRequest(p, row) ELSE UpdatePullRequest(p, row)
         /\ due' = {q \in due : pulls'[q].mergedAt = pulls[q].mergedAt}
  BY DEF UpdateStores
<1>2. Write(p, row)
  BY <1>1 DEF PullRequestNotFound, NewPullRequest, UpdatePullRequest
<1>3. /\ StoreOK'
      /\ DOMAIN pulls \subseteq DOMAIN pulls'
      /\ DOMAIN reviews \subseteq DOMAIN reviews'
  BY <1>0, <1>2, WriteKeeps
<1>4. UNCHANGED <<reportVars, found, failed, shown>>
  BY DEF UpdateStores
<1>5. RequestOK' /\ LookupInv'
  BY <1>0, <1>4 DEF RequestOK, LookupInv, Reported, LookedUp, reportVars
<1>6. HistoryOK'
  BY <1>0, <1>1, <1>3, <1>4 DEF HistoryOK, reportVars
<1> QED
  BY <1>3, <1>5, <1>6 DEF ReportInv

-----------------------------------------------------------------------------
LEMMA NextKeeps ==
    ASSUME ReportInv, [Next]_vars
    PROVE  ReportInv'
<1>1. CASE UNCHANGED vars
  BY <1>1 DEF vars, dbVars, reportVars, ghostVars, ReportInv, StoreOK, RequestOK, HistoryOK,
              LookupInv, Reported, LookedUp
<1>2. CASE Next
  BY <1>2, PullsKeep, ReviewsKeep, LookUpKeeps, LookupFailsKeeps, AnswerKeeps,
     NextReportKeeps, QueryFailsKeeps, UpdateKeeps DEF Next
<1> QED
  BY <1>1, <1>2

THEOREM ReportInvariance == Spec => []ReportInv
BY InitHolds, NextKeeps, PTL DEF Spec

(* The variables of a request and the tables keep their types, and every    *)
(* review row has the row of its pull request, for any Updates, failed      *)
(* queries and months.                                                      *)
THEOREM TypeCorrect == Spec => []TypeOK
<1>1. ReportInv => TypeOK
  BY DEF ReportInv, StoreOK, RequestOK, HistoryOK, TypeOK
<1> QED
  BY <1>1, ReportInvariance, PTL

(* For any tables and any Updates between its queries, a report shows each  *)
(* review it found in a repository named decred once, unless the lookup for *)
(* it failed.                                                               *)
THEOREM FoundAreReported == Spec => []FoundReviewsReported
<1>1. ASSUME ReportInv PROVE FoundReviewsReported
  <2> SUFFICES ASSUME pc = "answered", NEW k \in found \ failed,
                      PullRepo[k[1]] \in NamedDecred
               PROVE  \E i \in DOMAIN revs :
                         /\ revs[i].key = k
                         /\ \A j \in DOMAIN revs : revs[j].key = k => j = i
    BY DEF FoundReviewsReported
  <2>1. LookupInv
    BY <1>1 DEF ReportInv
  <2>2. k \in LookedUp
    BY <2>1 DEF LookupInv, LookedUp
  <2>3. PICK i \in DOMAIN revs : revs[i].key = k
    BY <2>1, <2>2 DEF LookupInv, Reported
  <2> QED
    BY <2>1, <2>3 DEF LookupInv
<1> QED
  BY <1>1, ReportInvariance, PTL

-----------------------------------------------------------------------------
(***************************************************************************)
(* Months in a row: what the client asks for, one month after the other.   *)
(* That a row of due is shown when the last of them is answered follows    *)
(* from what the reports so far have shown of it (MonthsInv): everything   *)
(* up to the end of the last month answered.                               *)
(***************************************************************************)
MonthsInARow ==
    \A i, j \in DOMAIN Requests : j = i + 1 =>
        /\ Requests[i].month < 12 => /\ Requests[j].year = Requests[i].year
                                    /\ Requests[j].month = Requests[i].month + 1
        /\ Requests[i].month = 12 => /\ Requests[j].year = Requests[i].year + 1
                                    /\ Requests[j].month = 1

DueUntil(t) == {q \in due : pulls[q].mergedAt <= t}
Listed == {prs[i].url : i \in DOMAIN prs}

MonthsInv ==
    /\ \A p \in DOMAIN pulls : pulls[p].mergedAt \in Nat
    /\ due \subseteq PullsBetween(Round)
    /\ pc # "answered" /\ asked > 1 => DueUntil(Period(Requests[asked - 1]).end) \subseteq shown
    /\ pc \in {"reviews", "lookup"} => DueUntil(PeriodAsked.end) \subseteq shown \cup Listed
    /\ pc = "answered" => DueUntil(PeriodAsked.end) \subseteq shown

LEMMA RequestProperties ==
    /\ Len(Requests) \in Nat \ {0} /\ DOMAIN Requests = 1 .. Len(Requests)
    /\ \A i \in DOMAIN Requests :
          Requests[i].year \in Nat \ {0} /\ Requests[i].month \in 1 .. 12
<1> DEFINE R == [year : Nat \ {0}, month : 1 .. 12]
<1>1. Requests \in Seq(R) /\ Requests # << >>
  BY UserInformationAssumption
<1>2. \A r \in R : r.year \in Nat \ {0} /\ r.month \in 1 .. 12
  OBVIOUS
<1> HIDE DEF R
<1>3. Len(Requests) \in Nat \ {0} /\ DOMAIN Requests = 1 .. Len(Requests)
  BY <1>1, LenProperties, EmptySeq
<1>4. \A i \in 1 .. Len(Requests) : Requests[i] \in R
  BY <1>1, ElementOfSeq
<1> QED
  BY <1>2, <1>3, <1>4

(* A date is a number of hours.                                             *)
LEMMA DateType ==
    ASSUME NEW y \in Int, NEW m \in Int, NEW d \in Int
    PROVE  Date(y, m, d) \in Int
<1> DEFINE year == y + (m - 1) \div 12
           month == ((m - 1) % 12) + 1
           leapDay == IF IsLeap(year) /\ month > 2 THEN 1 ELSE 0
<1>1. year \in Int /\ month \in 1 .. 12
  OBVIOUS
<1>2. leapDay \in Int
  OBVIOUS
<1>3. Date(y, m, d) = 24 * (DaysToYear(year) + DaysToMonth[month] + leapDay + d - 1)
  BY DEF Date
<1> HIDE DEF year, month, leapDay
<1>4. DaysToYear(year) \in Int
  BY <1>1 DEF DaysToYear
<1>5. DaysToMonth[month] \in Int
  BY <1>1 DEF DaysToMonth
<1> QED
  BY <1>2, <1>3, <1>4, <1>5

LEMMA PeriodType ==
    ASSUME NEW i \in DOMAIN Requests
    PROVE  Period(Requests[i]).start \in Int /\ Period(Requests[i]).end \in Int
<1> DEFINE y == Requests[i].year
           m == Requests[i].month
<1>1. /\ Period(Requests[i]).start = Date(y, m, 0)
      /\ Period(Requests[i]).end = Date(y, m + 1, 0)
  BY DEF Period
<1>2. y \in Int /\ m \in Int
  BY RequestProperties
<1> HIDE DEF y, m
<1>3. m + 1 \in Int /\ 0 \in Int
  BY <1>2
<1>4. Date(y, m, 0) \in Int /\ Date(y, m + 1, 0) \in Int
  BY <1>2, <1>3, DateType
<1> QED
  BY <1>1, <1>4

(* Where a month ends the next one begins, over the end of a year too.      *)
LEMMA PeriodsMeet ==
    ASSUME MonthsInARow, NEW i \in DOMAIN Requests, NEW j \in DOMAIN Requests, j = i + 1
    PROVE  Period(Requests[j]).start = Period(Requests[i]).end
<1> DEFINE y == Requests[i].year
           m == Requests[i].month
<1>1. y \in Nat \ {0} /\ m \in 1 .. 12
  BY RequestProperties
<1>2. /\ Period(Requests[i]).end = Date(y, m + 1, 0)
      /\ Period(Requests[j]).start = Date(Requests[j].year, Requests[j].month, 0)
  BY DEF Period
<1>3. CASE m < 12
  BY <1>2, <1>3 DEF MonthsInARow
<1>4. CASE m = 12
  <2>1. Period(Requests[j]).start = Date(y + 1, 1, 0)
    BY <1>2, <1>4 DEF MonthsInARow
  <2>2. Period(Requests[i]).end = Date(y, 13, 0)
    BY <1>2, <1>4
  <2> HIDE DEF y, m
  <2>3. /\ y + (13 - 1) \div 12 = y + 1 /\ ((13 - 1) % 12) + 1 = 1
        /\ (y + 1) + (1 - 1) \div 12 = y + 1 /\ ((1 - 1) % 12) + 1 = 1
    BY <1>1
  <2>4. Date(y, 13, 0) = Date(y + 1, 1, 0)
    BY <2>3 DEF Date
  <2> QED
    BY <2>1, <2>2, <2>4
<1> QED
  BY <1>1, <1>3, <1>4

-----------------------------------------------------------------------------
(* What the query for the pull requests returns is in the report.           *)
LEMMA AllPullsListed ==
    ASSUME ReportInv, PullRequestsByUserDates
    PROVE  PullsBetween(PeriodAsked) \subseteq Listed'
<1> DEFINE S == PullsBetween(PeriodAsked)
<1>1. PICK order \in SetToSeqs(S) :
         prs' = [i \in DOMAIN order |->
                   [url |-> order[i], repo |-> PullRepo[order[i]],
                    additions |-> pulls[order[i]].additions]]
  BY DEF PullRequestsByUserDates
<1>2. IsFiniteSet(S)
  <2>1. IsFiniteSet(PR) /\ S \subseteq PR
    BY UserInformationAssumption DEF PullsBetween, ReportInv, StoreOK
  <2> QED
    BY <2>1, FS_Subset
<1> HIDE DEF S
<1> DEFINE n == Cardinality(S)
<1>3. n \in Nat
  BY <1>2, FS_CardinalityType
<1>4. /\ order \in [1 .. n -> S]
      /\ \A i, j \in 1 .. n : i # j => order[i] # order[j]
  BY <1>1 DEF SetToSeqs
<1>5. Cardinality(1 .. n) = n
  <2>1. Cardinality(1 .. n) = IF 1 > n THEN 0 ELSE n - 1 + 1
    BY <1>3, FS_Interval
  <2> QED
    BY <1>3, <2>1
<1> HIDE DEF n
<1>6. order \in Injection(1 .. n, S)
  BY <1>4 DEF Injection, IsInjective
<1>7. order \in Surjection(1 .. n, S)
  BY <1>2, <1>5, <1>6, FS_Injection DEF n
<1>8. \A p \in S : \E i \in 1 .. n : order[i] = p
  BY <1>7 DEF Surjection
<1>9. ASSUME NEW p \in S PROVE p \in Listed'
  <2>1. PICK i \in 1 .. n : order[i] = p
    BY <1>8
  <2>2. DOMAIN order = 1 .. n
    BY <1>4
  <2>3. i \in DOMAIN prs' /\ prs'[i].url = p
    BY <1>1, <2>1, <2>2
  <2> QED
    BY <2>3 DEF Listed
<1> QED
  BY <1>9 DEF S

LEMMA MonthsInit ==
    ASSUME Init
    PROVE  MonthsInv
BY DEF Init, StoreInit, MonthsInv, PullsBetween, DueUntil

LEMMA MonthsFirstQuery ==
    ASSUME MonthsInARow, ReportInv, MonthsInv, PullRequestsByUserDates
    PROVE  MonthsInv'
<1>0. /\ asked \in DOMAIN Requests /\ due \subseteq DOMAIN pulls
      /\ \A p \in DOMAIN pulls : pulls[p].mergedAt \in Int
  BY DEF ReportInv, RequestOK, HistoryOK, MonthsInv
<1>1. /\ pc' = "reviews" /\ asked' = asked /\ pulls' = pulls /\ pc = "idle"
      /\ due' = IF asked = 1 THEN PullsBetween(Round) ELSE due
      /\ shown' = IF asked = 1 THEN {} ELSE shown
  BY DEF PullRequestsByUserDates, dbVars
<1>2. PullsBetween(PeriodAsked) \subseteq Listed'
  BY AllPullsListed
<1>3. due' \subseteq PullsBetween(Round)
  BY <1>1 DEF MonthsInv
<1>4. asked \in Nat /\ asked >= 1 /\ 1 \in DOMAIN Requests
  BY <1>0, RequestProperties
<1>5. ASSUME NEW q \in due', pulls[q].mergedAt <= PeriodAsked.end
      PROVE  q \in shown' \cup Listed'
  <2>1. PeriodAsked.start \in Int /\ PeriodAsked.end \in Int
    BY <1>0, PeriodType DEF PeriodAsked
  <2>2. /\ q \in DOMAIN pulls /\ PullAuthor[q] = User
        /\ Between(pulls[q].mergedAt, Round)
    BY <1>3 DEF PullsBetween
  <2>3. SUFFICES PeriodAsked.start <= pulls[q].mergedAt \/ q \in shown'
    BY <1>2, <1>5, <2>2 DEF PullsBetween, Between
  <2>4. CASE asked = 1
    <3>1. Round.start = PeriodAsked.start
      BY <2>4 DEF Round, PeriodAsked
    <3> QED
      BY <2>2, <3>1 DEF Between
  <2>5. CASE asked # 1
    <3>1. asked - 1 \in DOMAIN Requests /\ asked = (asked - 1) + 1 /\ asked > 1
      BY <1>0, <1>4, <2>5, RequestProperties
    <3>2. PeriodAsked.start = Period(Requests[asked - 1]).end
      BY <1>0, <3>1, PeriodsMeet DEF PeriodAsked
    <3>3. q \in due /\ shown' = shown
      BY <1>1, <2>5
    <3>4. DueUntil(Period(Requests[asked - 1]).end) \subseteq shown
      BY <1>1, <3>1 DEF MonthsInv
    <3>5. pulls[q].mergedAt \in Int
      BY <1>0, <2>2
    <3> QED
      BY <2>1, <3>2, <3>3, <3>4, <3>5 DEF DueUntil
  <2> QED
    BY <2>4, <2>5
<1>6. PeriodAsked' = PeriodAsked /\ Round' = Round
  BY <1>1 DEF PeriodAsked, Round
<1>7. DueUntil(PeriodAsked.end)' \subseteq shown' \cup Listed'
  BY <1>1, <1>5, <1>6 DEF DueUntil
<1>8. asked > 1 => DueUntil(Period(Requests[asked - 1]).end)' \subseteq shown'
  BY <1>1 DEF MonthsInv, DueUntil
<1>9. PullsBetween(Round)' = PullsBetween(Round)
  BY <1>1, <1>6 DEF PullsBetween
<1> QED
  BY <1>1, <1>3, <1>7, <1>8, <1>9 DEF MonthsInv

LEMMA MonthsAnswer ==
    ASSUME ReportInv, MonthsInv, Answer
    PROVE  MonthsInv'
<1>1. /\ pc = "lookup" /\ pc' = "answered" /\ pulls' = pulls /\ due' = due
      /\ asked' = asked /\ shown' = shown \cup Listed
  BY DEF Answer, Listed, dbVars
<1>2. /\ PullsBetween(Round)' = PullsBetween(Round)
      /\ DueUntil(PeriodAsked.end)' = DueUntil(PeriodAsked.end)
  BY <1>1 DEF PullsBetween, Round, PeriodAsked, DueUntil
<1> QED
  BY <1>1, <1>2 DEF MonthsInv

LEMMA MonthsNextReport ==
    ASSUME ReportInv, MonthsInv, NextReport
    PROVE  MonthsInv'
<1>1. /\ pc = "answered" /\ pc' = "idle" /\ pulls' = pulls /\ due' = due /\ shown' = shown
      /\ asked' = IF asked = Len(Requests) THEN 1 ELSE asked + 1
  BY DEF NextReport, Forget, dbVars
<1>2. PullsBetween(Round)' = PullsBetween(Round)
  BY <1>1 DEF PullsBetween, Round
<1>3. ASSUME asked' > 1
      PROVE  DueUntil(Period(Requests[asked - 1]).end)' \subseteq shown'
  <2>1. asked \in Nat
    BY RequestProperties DEF ReportInv, RequestOK
  <2>2. asked' = asked + 1 /\ asked' - 1 = asked
    BY <1>1, <1>3, <2>1
  <2>3. DueUntil(Period(Requests[asked - 1]).end)' = DueUntil(PeriodAsked.end)
    BY <1>1, <2>2 DEF DueUntil, PeriodAsked
  <2> QED
    BY <1>1, <2>3 DEF MonthsInv
<1> QED
  BY <1>1, <1>2, <1>3 DEF MonthsInv

(* An Update only ever makes less due.                                      *)
LEMMA MonthsUpdate ==
    ASSUME ReportInv, MonthsInv, NEW p \in PR, UpdateStores(p)
    PROVE  MonthsInv'
<1>1. PICK row \in Versions[p] :
         /\ IF PullRequestNotFound(p)
            THEN NewPullRequest(p, row) ELSE UpdatePullRequest(p, row)
         /\ due' = {q \in due : pulls'[q].mergedAt = pulls[q].mergedAt}
  BY DEF UpdateStores
<1>2. Write(p, row)
  BY <1>1 DEF PullRequestNotFound, NewPullRequest, UpdatePullRequest
<1>3. pulls' = [k \in DOMAIN pulls \cup {p} |-> IF k = p THEN PullRow(row) ELSE pulls[k]]
  BY <1>2 DEF Write
<1>4. row.mergedAt \in Nat
  BY UserInformationAssumption
<1>5. \A k \in DOMAIN pulls' : pulls'[k].mergedAt \in Nat
  BY <1>3, <1>4 DEF MonthsInv, PullRow
<1>6. UNCHANGED <<pc, asked, prs, shown>>
  BY DEF UpdateStores, reportVars
<1>7. \A q \in due' : q \in due /\ pulls'[q].mergedAt = pulls[q].mergedAt
  BY <1>1
<1>8. PeriodAsked' = PeriodAsked /\ Round' = Round /\ Listed' = Listed
  BY <1>6 DEF PeriodAsked, Round, Listed
<1>9. due' \subseteq PullsBetween(Round)'
  <2>1. DOMAIN pulls \subseteq DOMAIN pulls'
    BY <1>3
  <2> QED
    BY <1>7, <1>8, <2>1 DEF MonthsInv, PullsBetween
<1>10. /\ DueUntil(PeriodAsked.end)' \subseteq DueUntil(PeriodAsked.end)
       /\ DueUntil(Period(Requests[asked - 1]).end)'
             \subseteq DueUntil(Period(Requests[asked - 1]).end)
  BY <1>6, <1>7, <1>8 DEF DueUntil
<1> QED
  BY <1>5, <1>6, <1>8, <1>9, <1>10 DEF MonthsInv

(* The other steps leave the pull requests and what is due alone.           *)
LEMMA MonthsQuiet ==
    ASSUME MonthsInv, UNCHANGED <<pulls, due, shown, asked>>,
           \/ UNCHANGED <<pc, prs>>
           \/ pc = "reviews" /\ pc' = "lookup" /\ UNCHANGED prs
           \/ pc \in {"idle", "reviews"} /\ pc' = "idle"
    PROVE  MonthsInv'
<1>1. /\ PullsBetween(Round)' = PullsBetween(Round) /\ PeriodAsked' = PeriodAsked
      /\ DueUntil(PeriodAsked.end)' = DueUntil(PeriodAsked.end)
      /\ DueUntil(Period(Requests[asked - 1]).end)' = DueUntil(Period(Requests[asked - 1]).end)
      /\ prs' = prs => Listed' = Listed
  BY DEF PullsBetween, Round, PeriodAsked, DueUntil, Listed
<1> QED
  BY <1>1 DEF MonthsInv

LEMMA MonthsNext ==
    ASSUME MonthsInARow, ReportInv, MonthsInv, [Next]_vars
    PROVE  MonthsInv'
<1>1. CASE UNCHANGED vars
  BY <1>1, MonthsQuiet DEF vars, dbVars, reportVars, ghostVars
<1>2. CASE ReviewsByUserDates
  BY <1>2, MonthsQuiet DEF ReviewsByUserDates, dbVars
<1>3. ASSUME NEW k \in Review, LookUpPullRequest(k) \/ LookupFails(k)
      PROVE  MonthsInv'
  BY <1>3, MonthsQuiet DEF LookUpPullRequest, LookupFails, dbVars, ghostVars
<1>4. CASE QueryFails
  BY <1>4, MonthsQuiet DEF QueryFails, Forget, dbVars
<1> QED
  BY <1>1, <1>2, <1>3, <1>4, MonthsFirstQuery, MonthsAnswer, MonthsNextReport, MonthsUpdate
  DEF Next

(* Asked for months in a row, however many, the reports show every pull     *)
(* request that was stored as merged in them when the round began and       *)
(* stayed so.                                                               *)
THEOREM NoMergeIsLost == MonthsInARow => (Spec => []MonthsLeaveNoGap)
<1> SUFFICES ASSUME MonthsInARow
             PROVE  Spec => []MonthsLeaveNoGap
  OBVIOUS
<1>1. Init => MonthsInv
  BY MonthsInit
<1>2. ReportInv /\ MonthsInv /\ [Next]_vars => MonthsInv'
  BY MonthsNext
<1>3. MonthsInv => MonthsLeaveNoGap
  <2> SUFFICES ASSUME MonthsInv, pc = "answered", asked = Len(Requests), NEW q \in due
               PROVE  q \in shown
    BY DEF MonthsLeaveNoGap
  <2>1. Between(pulls[q].mergedAt, Round)
    BY DEF MonthsInv, PullsBetween
  <2>2. Round.end = PeriodAsked.end
    BY DEF Round, PeriodAsked
  <2>3. q \in DueUntil(PeriodAsked.end)
    BY <2>1, <2>2 DEF DueUntil, Between
  <2> QED
    BY <2>3 DEF MonthsInv
<1> QED
  BY <1>1, <1>2, <1>3, ReportInvariance, PTL DEF Spec

-----------------------------------------------------------------------------
(***************************************************************************)
(* The statistics of a report (StatsAddUp).  RepoStats and EntryOf are     *)
(* folds; that what a fold is defined by exists, whatever it does at each  *)
(* step, is an induction over the size of the sets it goes through.        *)
(***************************************************************************)
(* Induction over the natural numbers, as a fact about a set of them.       *)
LEMMA SetInduction ==
    ASSUME NEW S \in SUBSET Nat, 0 \in S, \A n \in S : n + 1 \in S
    PROVE  S = Nat
<1> DEFINE T == Nat \ S
           R == {ss \in Nat \X Nat : ss[1] < ss[2]}
<1>1. IsWellFoundedOn(R, Nat)
  BY NatLessThanWellFounded DEF OpToRel
<1>2. SUFFICES ASSUME T # {} PROVE FALSE
  OBVIOUS
<1>3. PICK m \in T : \A k \in T : ~(<<k, m>> \in R)
  BY <1>1, <1>2, WFMin
<1>4. m \in Nat \ {0} /\ m - 1 \in Nat /\ m - 1 < m /\ (m - 1) + 1 = m
  OBVIOUS
<1>5. m - 1 \notin T
  BY <1>3, <1>4
<1>6. m - 1 \in S
  BY <1>4, <1>5
<1>7. m \in S
  BY <1>4, <1>6
<1> QED
  BY <1>3, <1>7

(* The subsets of D with at most n elements.                                *)
Small(D, n) == {s \in SUBSET D : Cardinality(s) <= n}

(* it folds the subsets in F: an element that c chooses is combined with    *)
(* what the others make.                                                    *)
Folds(it, F, base, step, c) ==
    /\ it[{}] = base
    /\ \A s \in F : s # {} => it[s] = step[c[s]][it[s \ {c[s]}]]

HasFold(D, V, base, step, c) ==
    \E it \in [SUBSET D -> V] : Folds(it, SUBSET D, base, step, c)

LEMMA FoldExists ==
    ASSUME NEW D, IsFiniteSet(D), NEW V, NEW base \in V, NEW step \in [D -> [V -> V]],
           NEW c, \A s \in SUBSET D : s # {} => c[s] \in s
    PROVE  HasFold(D, V, base, step, c)
<1> DEFINE S == {n \in Nat : \E it \in [Small(D, n) -> V] : Folds(it, Small(D, n), base, step, c)}
<1>1. \A s \in SUBSET D : IsFiniteSet(s) /\ Cardinality(s) \in Nat
  BY FS_Subset, FS_CardinalityType
<1>2. \A n \in Nat : {} \in Small(D, n)
  BY FS_EmptySet DEF Small
<1>3. 0 \in S
  <2> DEFINE it == [s \in Small(D, 0) |-> base]
  <2>1. \A s \in Small(D, 0) : s = {}
    BY <1>1, FS_EmptySet DEF Small
  <2>2. it \in [Small(D, 0) -> V] /\ it[{}] = base
    BY <1>2
  <2>3. Folds(it, Small(D, 0), base, step, c)
    BY <2>1, <2>2 DEF Folds
  <2> QED
    BY <2>2, <2>3
<1>4. ASSUME NEW n \in S PROVE n + 1 \in S
  <2>1. PICK f \in [Small(D, n) -> V] : Folds(f, Small(D, n), base, step, c)
    OBVIOUS
  <2>2. \A s \in Small(D, n + 1) : s # {} =>
           /\ c[s] \in D
           /\ s \ {c[s]} \in Small(D, n)
           /\ s \ {c[s]} \in Small(D, n + 1)
    <3> SUFFICES ASSUME NEW s \in Small(D, n + 1), s # {}
                 PROVE  /\ c[s] \in D
                        /\ s \ {c[s]} \in Small(D, n)
                        /\ s \ {c[s]} \in Small(D, n + 1)
      OBVIOUS
    <3>1. s \in SUBSET D /\ c[s] \in s /\ Cardinality(s) <= n + 1
      BY DEF Small
    <3>2. IsFiniteSet(s)
      BY <1>1, <3>1
    <3>3. PICK k \in Nat : k = Cardinality(s)
      BY <1>1, <3>1
    <3>4. Cardinality(s \ {c[s]}) = k - 1
      BY <3>1, <3>2, <3>3, FS_RemoveElement
    <3>5. k <= n + 1
      BY <3>1, <3>3
    <3>6. k - 1 <= n
      BY <3>5
    <3>7. s \ {c[s]} \in SUBSET D /\ k - 1 <= n + 1
      BY <3>1, <3>6
    <3> HIDE DEF S
    <3> QED
      BY <3>1, <3>4, <3>6, <3>7 DEF Small
  <2>3. \A s \in Small(D, n) : s \in Small(D, n + 1)
    BY <1>1 DEF Small
  <2> DEFINE it == [s \in Small(D, n + 1) |->
                       IF s = {} THEN base ELSE step[c[s]][f[s \ {c[s]}]]]
  <2>4. it \in [Small(D, n + 1) -> V]
    BY <2>1, <2>2
  <2>5. \A s \in Small(D, n) : it[s] = f[s]
    BY <2>1, <2>3 DEF Folds
  <2>6. it[{}] = base
    BY <1>2
  <2>7. \A s \in Small(D, n + 1) : s # {} => it[s] = step[c[s]][it[s \ {c[s]}]]
    BY <2>2, <2>5
  <2>8. Folds(it, Small(D, n + 1), base, step, c)
    BY <2>6, <2>7 DEF Folds
  <2> HIDE DEF it
  <2>9. \E g \in [Small(D, n + 1) -> V] : Folds(g, Small(D, n + 1), base, step, c)
    BY <2>4, <2>8
  <2>10. n + 1 \in Nat
    OBVIOUS
  <2> QED
    BY <2>9, <2>10
<1>5. S = Nat
  <2> HIDE DEF S
  <2>1. S \in SUBSET Nat
    BY DEF S
  <2> QED
    BY <1>3, <1>4, <2>1, SetInduction
<1>6. Cardinality(D) \in S
  BY <1>1, <1>5
<1>7. Small(D, Cardinality(D)) = SUBSET D
  BY FS_Subset DEF Small
<1>8. PICK it \in [Small(D, Cardinality(D)) -> V] :
         Folds(it, Small(D, Cardinality(D)), base, step, c)
  BY <1>6
<1>9. it \in [SUBSET D -> V] /\ Folds(it, SUBSET D, base, step, c)
  BY <1>7, <1>8
<1> QED
  BY <1>9 DEF HasFold

-----------------------------------------------------------------------------
(* One step of the loops: the entry of a repository is touched, or begun.   *)
RepoEntry == [repository : Repo, prs : Seq(PR), merge : Nat, review : Nat]

(* The list A after add was applied to the entry of repo, a new one if      *)
(* there is none.                                                           *)
Touched(A, repo, add) ==
    IF \E i \in DOMAIN A : A[i].repository = repo
    THEN [i \in DOMAIN A |-> IF A[i].repository = repo THEN add[A[i]] ELSE A[i]]
    ELSE Append(A, add[NoStats(repo)])

WithPull(pr) ==
    [e \in RepoEntry |->
        [repository |-> e.repository, prs |-> Append(e.prs, pr.url),
         merge |-> e.merge + pr.additions, review |-> e.review]]

WithReview(rev) ==
    [e \in RepoEntry |->
        [repository |-> e.repository, prs |-> e.prs,
         merge |-> e.merge, review |-> e.review + rev.additions]]

LEMMA NoStatsType ==
    ASSUME NEW repo \in Repo
    PROVE  NoStats(repo) \in RepoEntry /\ NoStats(repo).repository = repo
<1>1. << >> \in Seq(PR)
  BY EmptySeq
<1> QED
  BY <1>1 DEF NoStats, RepoEntry

LEMMA WithPullType ==
    ASSUME NEW pr \in PullInfo
    PROVE  /\ pr.repo \in Repo
           /\ WithPull(pr) \in [RepoEntry -> RepoEntry]
           /\ \A e \in RepoEntry : WithPull(pr)[e].repository = e.repository
<1>1. pr.url \in PR /\ pr.repo \in Repo /\ pr.additions \in Nat
  BY DEF PullInfo
<1>2. ASSUME NEW e \in RepoEntry
      PROVE  [repository |-> e.repository, prs |-> Append(e.prs, pr.url),
              merge |-> e.merge + pr.additions, review |-> e.review] \in RepoEntry
  <2>1. /\ e.repository \in Repo /\ e.prs \in Seq(PR)
        /\ e.merge \in Nat /\ e.review \in Nat
    BY DEF RepoEntry
  <2>2. Append(e.prs, pr.url) \in Seq(PR)
    BY <1>1, <2>1, AppendProperties
  <2>3. e.merge + pr.additions \in Nat
    BY <1>1, <2>1
  <2> QED
    BY <2>1, <2>2, <2>3 DEF RepoEntry
<1> QED
  BY <1>1, <1>2 DEF WithPull

LEMMA WithReviewType ==
    ASSUME NEW rev \in ReviewInfo
    PROVE  /\ rev.repo \in Repo
           /\ WithReview(rev) \in [RepoEntry -> RepoEntry]
           /\ \A e \in RepoEntry : WithReview(rev)[e].repository = e.repository
<1>1. rev.repo \in Repo /\ rev.additions \in Nat
  BY DEF ReviewInfo
<1>2. ASSUME NEW e \in RepoEntry
      PROVE  [repository |-> e.repository, prs |-> e.prs,
              merge |-> e.merge, review |-> e.review + rev.additions] \in RepoEntry
  <2>1. /\ e.repository \in Repo /\ e.prs \in Seq(PR)
        /\ e.merge \in Nat /\ e.review \in Nat
    BY DEF RepoEntry
  <2>2. e.review + rev.additions \in Nat
    BY <1>1, <2>1
  <2> QED
    BY <2>1, <2>2 DEF RepoEntry
<1> QED
  BY <1>1, <1>2 DEF WithReview

(* What AddPull does to an entry, field by field.                           *)
LEMMA WithPullExcept ==
    ASSUME NEW e \in RepoEntry, NEW pr
    PROVE  [e EXCEPT !.prs = Append(@, pr.url), !.merge = @ + pr.additions]
           = [repository |-> e.repository, prs |-> Append(e.prs, pr.url),
              merge |-> e.merge + pr.additions, review |-> e.review]
<1> DEFINE X == Append(e.prs, pr.url)
           Y == e.merge + pr.additions
           f == [e EXCEPT !.prs = X]
<1>1. [e EXCEPT !.prs = Append(@, pr.url), !.merge = @ + pr.additions]
      = [e EXCEPT !.prs = X, !.merge = Y]
  BY Zenon
<1> HIDE DEF X, Y
<1>2. [e EXCEPT !.prs = X, !.merge = Y] = [f EXCEPT !.merge = Y]
  BY Zenon
<1>3. f = [repository |-> e.repository, prs |-> X, merge |-> e.merge, review |-> e.review]
  BY DEF RepoEntry
<1> HIDE DEF f
<1>4. [f EXCEPT !.merge = Y]
      = [repository |-> e.repository, prs |-> X, merge |-> Y, review |-> e.review]
  BY <1>3
<1> QED
  BY <1>1, <1>2, <1>4 DEF X, Y

LEMMA AddPullTouches ==
    ASSUME NEW A \in Seq(RepoEntry), NEW pr \in PullInfo
    PROVE  AddPull(A, pr) = Touched(A, pr.repo, WithPull(pr))
<1>1. \A e \in RepoEntry :
         [e EXCEPT !.prs = Append(@, pr.url), !.merge = @ + pr.additions]
         = WithPull(pr)[e]
  BY WithPullExcept DEF WithPull
<1>2. \A i \in DOMAIN A : A[i] \in RepoEntry
  BY LenProperties, ElementOfSeq
<1>3. NoStats(pr.repo) \in RepoEntry
  BY WithPullType, NoStatsType
<1> QED
  BY <1>1, <1>2, <1>3 DEF AddPull, WithStats, Touched

LEMMA AddReviewTouches ==
    ASSUME NEW A \in Seq(RepoEntry), NEW rev \in ReviewInfo
    PROVE  AddReview(A, rev) = Touched(A, rev.repo, WithReview(rev))
<1>1. \A e \in RepoEntry :
         [e EXCEPT !.review = @ + rev.additions] = WithReview(rev)[e]
  BY DEF WithReview, RepoEntry
<1>2. \A i \in DOMAIN A : A[i] \in RepoEntry
  BY LenProperties, ElementOfSeq
<1>3. NoStats(rev.repo) \in RepoEntry
  BY WithReviewType, NoStatsType
<1> QED
  BY <1>1, <1>2, <1>3 DEF AddReview, WithStats, Touched

(* Of the repositories in seen, and of no others, A has an entry; that of   *)
(* repo is e, or would begin as e.                                          *)
HasEntry(A, repo, seen, e) ==
    /\ repo \in seen <=> \E i \in DOMAIN A : A[i].repository = repo
    /\ repo \notin seen => e = NoStats(repo)
    /\ \A i \in DOMAIN A : A[i].repository = repo =>
          /\ A[i] = e
          /\ \A j \in DOMAIN A : A[j].repository = repo => j = i

LEMMA TouchedProperties ==
    ASSUME NEW A \in Seq(RepoEntry), NEW repo \in Repo,
           NEW add \in [RepoEntry -> RepoEntry],
           \A e \in RepoEntry : add[e].repository = e.repository
    PROVE  /\ Touched(A, repo, add) \in Seq(RepoEntry)
           /\ \A e \in RepoEntry : \A seen :
                 HasEntry(A, repo, seen, e) =>
                    HasEntry(Touched(A, repo, add), repo, seen \cup {repo}, add[e])
           /\ \A other \in Repo \ {repo} : \A e \in RepoEntry : \A seen :
                 HasEntry(A, other, seen, e) =>
                    HasEntry(Touched(A, repo, add), other, seen \cup {repo}, e)
<1>1. PICK n \in Nat : n = Len(A) /\ DOMAIN A = 1 .. n
  BY LenProperties
<1>2. \A i \in 1 .. n : A[i] \in RepoEntry
  BY <1>1, ElementOfSeq
<1>3. NoStats(repo) \in RepoEntry /\ NoStats(repo).repository = repo
  BY NoStatsType
<1> DEFINE B == Touched(A, repo, add)
<1>4. CASE \E i \in DOMAIN A : A[i].repository = repo
  <2>1. B = [i \in 1 .. n |-> IF A[i].repository = repo THEN add[A[i]] ELSE A[i]]
    BY <1>1, <1>4 DEF Touched
  <2> HIDE DEF B
  <2>2. B \in [1 .. n -> RepoEntry]
    BY <1>2, <2>1
  <2>3. B \in Seq(RepoEntry)
    BY <2>2
  <2>4. \A i \in 1 .. n : /\ B[i].repository = A[i].repository
                          /\ A[i].repository = repo => B[i] = add[A[i]]
                          /\ A[i].repository # repo => B[i] = A[i]
    BY <1>2, <2>1
  <2>5. DOMAIN B = DOMAIN A
    BY <1>1, <2>1
  <2>6. ASSUME NEW e \in RepoEntry, NEW seen, HasEntry(A, repo, seen, e)
        PROVE  HasEntry(B, repo, seen \cup {repo}, add[e])
    BY <1>1, <1>4, <2>4, <2>5, <2>6 DEF HasEntry
  <2>7. ASSUME NEW other \in Repo \ {repo}, NEW e \in RepoEntry, NEW seen,
               HasEntry(A, other, seen, e)
        PROVE  HasEntry(B, other, seen \cup {repo}, e)
    BY <1>1, <2>4, <2>5, <2>7 DEF HasEntry
  <2> QED
    BY <2>3, <2>6, <2>7 DEF B
<1>5. CASE ~ \E i \in DOMAIN A : A[i].repository = repo
  <2>1. B = Append(A, add[NoStats(repo)])
    BY <1>5 DEF Touched
  <2> HIDE DEF B
  <2>2. /\ B \in Seq(RepoEntry) /\ Len(B) = n + 1
        /\ \A i \in 1 .. n : B[i] = A[i]
        /\ B[n + 1] = add[NoStats(repo)]
    BY <1>1, <1>3, <2>1, AppendProperties
  <2>3. /\ DOMAIN B = 1 .. n + 1
        /\ \A i \in 1 .. n + 1 : i \in 1 .. n \/ i = n + 1
        /\ n + 1 \in 1 .. n + 1 /\ n + 1 \notin 1 .. n
        /\ \A i \in 1 .. n : i \in 1 .. n + 1
    BY <2>2, LenProperties
  <2>4. add[NoStats(repo)].repository = repo
    BY <1>3
  <2>5. ASSUME NEW e \in RepoEntry, NEW seen, HasEntry(A, repo, seen, e)
        PROVE  HasEntry(B, repo, seen \cup {repo}, add[e])
    <3>1. e = NoStats(repo)
      BY <1>5, <2>5 DEF HasEntry
    <3>2. \A i \in DOMAIN B : B[i].repository = repo => i = n + 1
      BY <1>1, <1>5, <2>2, <2>3
    <3> QED
      BY <2>2, <2>3, <2>4, <3>1, <3>2 DEF HasEntry
  <2>6. ASSUME NEW other \in Repo \ {repo}, NEW e \in RepoEntry, NEW seen,
               HasEntry(A, other, seen, e)
        PROVE  HasEntry(B, other, seen \cup {repo}, e)
    <3>1. \A i \in DOMAIN B : B[i].repository = other => i \in DOMAIN A /\ B[i] = A[i]
      BY <1>1, <2>2, <2>3, <2>4
    <3>2. \A i \in DOMAIN A : i \in DOMAIN B /\ B[i] = A[i]
      BY <1>1, <2>2, <2>3
    <3> QED
      BY <2>6, <3>1, <3>2 DEF HasEntry
  <2> QED
    BY <2>2, <2>5, <2>6 DEF B
<1> QED
  BY <1>4, <1>5

LEMMA AddPullType ==
    ASSUME NEW A \in Seq(RepoEntry), NEW pr \in PullInfo
    PROVE  AddPull(A, pr) \in Seq(RepoEntry)
<1>1. /\ pr.repo \in Repo
      /\ WithPull(pr) \in [RepoEntry -> RepoEntry]
      /\ \A e \in RepoEntry : WithPull(pr)[e].repository = e.repository
  BY WithPullType
<1>2. Touched(A, pr.repo, WithPull(pr)) \in Seq(RepoEntry)
  BY <1>1, TouchedProperties
<1> QED
  BY <1>2, AddPullTouches

LEMMA AddReviewType ==
    ASSUME NEW A \in Seq(RepoEntry), NEW rev \in ReviewInfo
    PROVE  AddReview(A, rev) \in Seq(RepoEntry)
<1>1. /\ rev.repo \in Repo
      /\ WithReview(rev) \in [RepoEntry -> RepoEntry]
      /\ \A e \in RepoEntry : WithReview(rev)[e].repository = e.repository
  BY WithReviewType
<1>2. Touched(A, rev.repo, WithReview(rev)) \in Seq(RepoEntry)
  BY <1>1, TouchedProperties
<1> QED
  BY <1>2, AddReviewTouches

-----------------------------------------------------------------------------
(* The loops, and what EntryOf takes from their lists, step by step.        *)
(* From the indices up to k, FoldLeft takes k first.                        *)
LEMMA LastOfPrefix ==
    ASSUME NEW n \in Nat, NEW k \in 1 .. n
    PROVE  /\ 1 .. k \in SUBSET (1 .. n) /\ 1 .. k # {}
           /\ Max(1 .. k) = k
           /\ (1 .. k) \ {Max(1 .. k)} = 1 .. k - 1
<1>1. Max(1 .. k) = k
  <2>1. k \in 1 .. k /\ \A y \in 1 .. k : k >= y
    OBVIOUS
  <2>2. \A x \in 1 .. k : (\A y \in 1 .. k : x >= y) => x = k
    OBVIOUS
  <2> QED
    BY <2>1, <2>2 DEF Max
<1>2. (1 .. k) \ {k} = 1 .. k - 1
  OBVIOUS
<1> QED
  BY <1>1, <1>2

LEMMA MaxInSet ==
    ASSUME NEW n \in Nat, NEW s \in SUBSET (1 .. n), s # {}
    PROVE  Max(s) \in s
<1>1. PICK i \in s : \A j \in s : j <= i
  BY LastIndex
<1>2. \A j \in s : i >= j
  BY <1>1
<1> QED
  BY <1>1, <1>2 DEF Max

(* it combines the elements up to the n-th, the last of them last.          *)
Indices(n) == 1 .. n

IndexFold(it, n, base, step) ==
    /\ it[{}] = base
    /\ \A s \in SUBSET Indices(n) : s # {} =>
          Max(s) \in Indices(n) /\ it[s] = step[Max(s)][it[s \ {Max(s)}]]

HasIndexFold(n, V, base, step) ==
    \E it \in [SUBSET Indices(n) -> V] : IndexFold(it, n, base, step)

LEMMA FoldOfIndices ==
    ASSUME NEW n \in Nat, NEW V, NEW base \in V, NEW step \in [Indices(n) -> [V -> V]]
    PROVE  HasIndexFold(n, V, base, step)
<1> DEFINE D == Indices(n)
           c == [s \in SUBSET D |-> Max(s)]
<1>1. \A s \in SUBSET D : s # {} => Max(s) \in s
  BY MaxInSet DEF Indices
<1>2. /\ \A s \in SUBSET D : s # {} => c[s] \in s
      /\ \A s \in SUBSET D : c[s] = Max(s)
  BY <1>1
<1>3. IsFiniteSet(D)
  BY FS_Interval DEF Indices
<1>4. step \in [D -> [V -> V]]
  OBVIOUS
<1> HIDE DEF D, c
<1>5. HasFold(D, V, base, step, c)
  BY <1>2, <1>3, <1>4, FoldExists
<1>6. PICK it \in [SUBSET D -> V] : Folds(it, SUBSET D, base, step, c)
  BY <1>5 DEF HasFold
<1>7. /\ it[{}] = base
      /\ \A s \in SUBSET D : s # {} =>
            Max(s) \in D /\ it[s] = step[Max(s)][it[s \ {Max(s)}]]
  BY <1>1, <1>2, <1>6 DEF Folds
<1>8. IndexFold(it, n, base, step)
  BY <1>7 DEF IndexFold, D
<1> QED
  BY <1>6, <1>8 DEF HasIndexFold, D

(* The steps of a FoldLeft of n elements, from what it begins with.         *)
Steps(after, n, base) == DOMAIN after = 0 .. n /\ after[0] = base

LEMMA PullsFolded ==
    ASSUME NEW ps \in Seq(PullInfo)
    PROVE  \E after :
              /\ Steps(after, Len(ps), << >>)
              /\ \A k \in 1 .. Len(ps) : after[k] = AddPull(after[k - 1], ps[k])
              /\ after[Len(ps)] = FoldLeft(AddPull, << >>, ps)
<1>1. PICK n \in Nat : n = Len(ps) /\ DOMAIN ps = 1 .. n
  BY LenProperties
<1> DEFINE V == Seq(RepoEntry)
           none == << >>
           step == [i \in Indices(n) |-> [A \in V |-> AddPull(A, ps[i])]]
<1>2. step \in [Indices(n) -> [V -> V]]
  <2>1. ASSUME NEW i \in 1 .. n, NEW A \in V PROVE AddPull(A, ps[i]) \in V
    <3>1. ps[i] \in PullInfo
      BY <1>1, ElementOfSeq
    <3> QED
      BY <3>1, AddPullType
  <2> HIDE DEF V
  <2> QED
    BY <2>1 DEF Indices
<1>3. none \in V
  BY EmptySeq
<1> HIDE DEF V, none, step
<1>4. PICK it \in [SUBSET Indices(n) -> V] : IndexFold(it, n, none, step)
  <2>1. HasIndexFold(n, V, none, step)
    BY <1>2, <1>3, FoldOfIndices
  <2> QED
    BY <2>1 DEF HasIndexFold
<1> DEFINE F(f) == [s \in SUBSET (1 .. n) |->
                       IF s = {} THEN << >> ELSE AddPull(f[s \ {Max(s)}], ps[Max(s)])]
           g == CHOOSE f : f = F(f)
           after == [k \in 0 .. n |-> g[1 .. k]]
<1>5. it = F(it)
  <2>1. ASSUME NEW s \in SUBSET Indices(n), s # {}
        PROVE  it[s] = AddPull(it[s \ {Max(s)}], ps[Max(s)])
    BY <1>4, <2>1 DEF IndexFold, step
  <2>2. it[{}] = << >>
    BY <1>4 DEF IndexFold, none
  <2> QED
    BY <2>1, <2>2 DEF Indices
<1>6. g = F(g)
  BY <1>5
<1>7. FoldLeft(AddPull, << >>, ps) = g[1 .. n]
  BY <1>1 DEF FoldLeft, MapThenFoldSet
<1> HIDE DEF g
<1>8. after[0] = << >>
  <2>1. 1 .. 0 = {} /\ {} \in SUBSET (1 .. n) /\ 0 \in 0 .. n
    OBVIOUS
  <2> QED
    BY <1>6, <2>1
<1>9. ASSUME NEW k \in 1 .. n PROVE after[k] = AddPull(after[k - 1], ps[k])
  <2>1. g[1 .. k] = AddPull(g[(1 .. k) \ {Max(1 .. k)}], ps[Max(1 .. k)])
    BY <1>6, LastOfPrefix
  <2>2. g[1 .. k] = AddPull(g[1 .. k - 1], ps[k])
    BY <2>1, LastOfPrefix
  <2>3. k \in 0 .. n /\ k - 1 \in 0 .. n
    OBVIOUS
  <2> QED
    BY <2>2, <2>3
<1>10. DOMAIN after = 0 .. n /\ after[n] = FoldLeft(AddPull, << >>, ps)
  BY <1>7
<1> HIDE DEF after
<1> QED
  BY <1>1, <1>8, <1>9, <1>10 DEF Steps

LEMMA ReviewsFolded ==
    ASSUME NEW base \in Seq(RepoEntry), NEW rs \in Seq(ReviewInfo)
    PROVE  \E after :
              /\ Steps(after, Len(rs), base)
              /\ \A k \in 1 .. Len(rs) : after[k] = AddReview(after[k - 1], rs[k])
              /\ after[Len(rs)] = FoldLeft(AddReview, base, rs)
<1>1. PICK n \in Nat : n = Len(rs) /\ DOMAIN rs = 1 .. n
  BY LenProperties
<1> DEFINE V == Seq(RepoEntry)
           step == [i \in Indices(n) |-> [A \in V |-> AddReview(A, rs[i])]]
<1>2. step \in [Indices(n) -> [V -> V]]
  <2>1. ASSUME NEW i \in 1 .. n, NEW A \in V PROVE AddReview(A, rs[i]) \in V
    <3>1. rs[i] \in ReviewInfo
      BY <1>1, ElementOfSeq
    <3> QED
      BY <3>1, AddReviewType
  <2> HIDE DEF V
  <2> QED
    BY <2>1 DEF Indices
<1>3. base \in V
  OBVIOUS
<1> HIDE DEF V, step
<1>4. PICK it \in [SUBSET Indices(n) -> V] : IndexFold(it, n, base, step)
  <2>1. HasIndexFold(n, V, base, step)
    BY <1>2, <1>3, FoldOfIndices
  <2> QED
    BY <2>1 DEF HasIndexFold
<1> DEFINE F(f) == [s \in SUBSET (1 .. n) |->
                       IF s = {} THEN base ELSE AddReview(f[s \ {Max(s)}], rs[Max(s)])]
           g == CHOOSE f : f = F(f)
           after == [k \in 0 .. n |-> g[1 .. k]]
<1>5. it = F(it)
  <2>1. ASSUME NEW s \in SUBSET Indices(n), s # {}
        PROVE  it[s] = AddReview(it[s \ {Max(s)}], rs[Max(s)])
    BY <1>4, <2>1 DEF IndexFold, step
  <2>2. it[{}] = base
    BY <1>4 DEF IndexFold
  <2> QED
    BY <2>1, <2>2 DEF Indices
<1>6. g = F(g)
  BY <1>5
<1>7. FoldLeft(AddReview, base, rs) = g[1 .. n]
  BY <1>1 DEF FoldLeft, MapThenFoldSet
<1> HIDE DEF g
<1>8. after[0] = base
  <2>1. 1 .. 0 = {} /\ {} \in SUBSET (1 .. n) /\ 0 \in 0 .. n
    OBVIOUS
  <2> QED
    BY <1>6, <2>1
<1>9. ASSUME NEW k \in 1 .. n PROVE after[k] = AddReview(after[k - 1], rs[k])
  <2>1. g[1 .. k] = AddReview(g[(1 .. k) \ {Max(1 .. k)}], rs[Max(1 .. k)])
    BY <1>6, LastOfPrefix
  <2>2. g[1 .. k] = AddReview(g[1 .. k - 1], rs[k])
    BY <2>1, LastOfPrefix
  <2>3. k \in 0 .. n /\ k - 1 \in 0 .. n
    OBVIOUS
  <2> QED
    BY <2>2, <2>3
<1>10. DOMAIN after = 0 .. n /\ after[n] = FoldLeft(AddReview, base, rs)
  BY <1>7
<1> HIDE DEF after
<1> QED
  BY <1>1, <1>8, <1>9, <1>10 DEF Steps
(* The pull requests of one repository, as EntryOf collects them.           *)
NextUrls(repo, urls, pr) ==
    IF pr.repo = repo THEN Append(urls, pr.url) ELSE urls

LEMMA UrlsFolded ==
    ASSUME NEW repo, NEW ps \in Seq(PullInfo)
    PROVE  \E after :
              /\ Steps(after, Len(ps), << >>)
              /\ \A k \in 1 .. Len(ps) : after[k] = NextUrls(repo, after[k - 1], ps[k])
              /\ after[Len(ps)] = UrlsOf(repo, ps)
<1>1. PICK n \in Nat : n = Len(ps) /\ DOMAIN ps = 1 .. n
  BY LenProperties
<1> DEFINE V == Seq(PR)
           none == << >>
           step == [i \in Indices(n) |-> [A \in V |-> NextUrls(repo, A, ps[i])]]
<1>2. step \in [Indices(n) -> [V -> V]]
  <2>1. ASSUME NEW i \in 1 .. n, NEW A \in V PROVE NextUrls(repo, A, ps[i]) \in V
    <3>1. ps[i] \in PullInfo
      BY <1>1, ElementOfSeq
    <3> QED
      BY <3>1, AppendProperties DEF PullInfo, NextUrls
  <2> HIDE DEF V
  <2> QED
    BY <2>1 DEF Indices
<1>3. none \in V
  BY EmptySeq
<1> HIDE DEF V, none, step
<1>4. PICK it \in [SUBSET Indices(n) -> V] : IndexFold(it, n, none, step)
  <2>1. HasIndexFold(n, V, none, step)
    BY <1>2, <1>3, FoldOfIndices
  <2> QED
    BY <2>1 DEF HasIndexFold
<1> DEFINE F(f) == [s \in SUBSET (1 .. n) |->
                       IF s = {} THEN << >> ELSE NextUrls(repo, f[s \ {Max(s)}], ps[Max(s)])]
           g == CHOOSE f : f = F(f)
           after == [k \in 0 .. n |-> g[1 .. k]]
<1>5. it = F(it)
  <2>1. ASSUME NEW s \in SUBSET Indices(n), s # {}
        PROVE  it[s] = NextUrls(repo, it[s \ {Max(s)}], ps[Max(s)])
    BY <1>4, <2>1 DEF IndexFold, step
  <2>2. it[{}] = << >>
    BY <1>4 DEF IndexFold, none
  <2> QED
    BY <2>1, <2>2 DEF Indices
<1>6. g = F(g)
  BY <1>5
<1>7. UrlsOf(repo, ps) = g[1 .. n]
  BY <1>1 DEF NextUrls, UrlsOf, FoldLeft, MapThenFoldSet
<1> HIDE DEF g
<1>8. after[0] = << >>
  <2>1. 1 .. 0 = {} /\ {} \in SUBSET (1 .. n) /\ 0 \in 0 .. n
    OBVIOUS
  <2> QED
    BY <1>6, <2>1
<1>9. ASSUME NEW k \in 1 .. n PROVE after[k] = NextUrls(repo, after[k - 1], ps[k])
  <2>1. g[1 .. k] = NextUrls(repo, g[(1 .. k) \ {Max(1 .. k)}], ps[Max(1 .. k)])
    BY <1>6, LastOfPrefix
  <2>2. g[1 .. k] = NextUrls(repo, g[1 .. k - 1], ps[k])
    BY <2>1, LastOfPrefix
  <2>3. k \in 0 .. n /\ k - 1 \in 0 .. n
    OBVIOUS
  <2> QED
    BY <2>2, <2>3
<1>10. DOMAIN after = 0 .. n /\ after[n] = UrlsOf(repo, ps)
  BY <1>7
<1> HIDE DEF after
<1> QED
  BY <1>1, <1>8, <1>9, <1>10 DEF Steps

-----------------------------------------------------------------------------
(* Sums over sets of indices.                                               *)
(* G sums f over the subsets of D, one element at a time in any order.      *)
Sums(G, D, f) ==
    /\ G[{}] = 0
    /\ \A T \in SUBSET D : \A x \in D \ T : G[T \cup {x}] = G[T] + f[x]

AnyOf(s) == CHOOSE x \in s : TRUE

(* The order that the fold takes does not matter.                           *)
LEMMA SumAnyOrder ==
    ASSUME NEW D, IsFiniteSet(D), NEW f \in [D -> Nat], NEW G \in [SUBSET D -> Nat],
           G[{}] = 0,
           \A s \in SUBSET D : s # {} => G[s] = f[AnyOf(s)] + G[s \ {AnyOf(s)}]
    PROVE  Sums(G, D, f)
<1> DEFINE Adds(T) == \A x \in D \ T : G[T \cup {x}] = G[T] + f[x]
           S == {n \in Nat : \A T \in SUBSET D : Cardinality(T) = n => Adds(T)}
<1>1. \A T \in SUBSET D : IsFiniteSet(T) /\ Cardinality(T) \in Nat
  BY FS_Subset, FS_CardinalityType
<1>2. \A s \in SUBSET D : s # {} => AnyOf(s) \in s
  BY DEF AnyOf
<1>3. \A T \in SUBSET D : G[T] \in Nat
  OBVIOUS
<1>4. \A x \in D : f[x] \in Nat
  OBVIOUS
<1>5. 0 \in S
  <2>1. ASSUME NEW T \in SUBSET D, Cardinality(T) = 0, NEW x \in D \ T
        PROVE  G[T \cup {x}] = G[T] + f[x]
    <3>1. T = {}
      BY <1>1, <2>1, FS_EmptySet
    <3>2. AnyOf({x}) = x
      BY <1>2
    <3>3. G[{x}] = f[x] + G[{x} \ {x}]
      BY <3>2
    <3>4. {x} \ {x} = {} /\ T \cup {x} = {x}
      BY <3>1
    <3>5. G[T \cup {x}] = f[x] + G[T]
      BY <3>1, <3>3, <3>4
    <3> QED
      BY <1>3, <1>4, <3>5
  <2> QED
    BY <2>1
<1>6. ASSUME NEW n \in S PROVE n + 1 \in S
  <2>1. ASSUME NEW T \in SUBSET D, Cardinality(T) = n + 1, NEW x \in D \ T
        PROVE  G[T \cup {x}] = G[T] + f[x]
    <3> DEFINE U == T \cup {x}
               a == AnyOf(U)
    <3>1. U \in SUBSET D /\ U # {} /\ a \in U /\ G[U] = f[a] + G[U \ {a}]
      BY <1>2
    <3> HIDE DEF a
    <3>2. CASE a = x
      <4>1. U \ {x} = T
        OBVIOUS
      <4> HIDE DEF U
      <4>2. G[U] = f[x] + G[T]
        BY <3>1, <3>2, <4>1
      <4>3. G[U] = G[T] + f[x]
        BY <1>3, <1>4, <4>2
      <4> QED
        BY <4>3 DEF U
    <3>3. CASE a # x
      <4> DEFINE R == T \ {a}
      <4>1. /\ a \in T /\ a \in D \ R /\ x \in D \ R /\ R \in SUBSET D
            /\ U \ {a} = R \cup {x} /\ R \cup {a} = T
        BY <3>1, <3>3
      <4>2. Cardinality(R) = n
        <5>1. Cardinality(R) = Cardinality(T) - 1
          BY <1>1, <4>1, FS_RemoveElement
        <5> QED
          BY <2>1, <5>1
      <4> HIDE DEF R, U
      <4>3. Adds(R)
        BY <4>1, <4>2
      <4>4. G[U \ {a}] = G[R] + f[x]
        BY <4>1, <4>3
      <4>5. G[T] = G[R] + f[a]
        BY <4>1, <4>3
      <4>6. G[R] \in Nat /\ f[a] \in Nat /\ f[x] \in Nat
        BY <1>3, <1>4, <4>1
      <4>7. G[U] = G[T] + f[x]
        BY <3>1, <4>4, <4>5, <4>6
      <4> QED
        BY <4>7 DEF U
    <3> QED
      BY <3>2, <3>3
  <2>2. n + 1 \in Nat
    OBVIOUS
  <2> QED
    BY <2>1, <2>2
<1>7. S = Nat
  <2> HIDE DEF S
  <2>1. S \in SUBSET Nat
    BY DEF S
  <2> QED
    BY <1>5, <1>6, <2>1, SetInduction
<1>8. \A T \in SUBSET D : Adds(T)
  BY <1>1, <1>7
<1> QED
  BY <1>8 DEF Sums

(* Two folds of the same f agree on the subsets of T.                       *)
AddsUp(g, f, T) ==
    /\ g[{}] = 0
    /\ \A s \in SUBSET T : s # {} => g[s] = f[AnyOf(s)] + g[s \ {AnyOf(s)}]

LEMMA SumsAgree ==
    ASSUME NEW T, IsFiniteSet(T), NEW f, NEW g, NEW G, AddsUp(g, f, T), AddsUp(G, f, T)
    PROVE  g[T] = G[T]
<1> DEFINE S == {n \in Nat : \A s \in SUBSET T : Cardinality(s) = n => g[s] = G[s]}
<1>1. \A s \in SUBSET T : IsFiniteSet(s) /\ Cardinality(s) \in Nat
  BY FS_Subset, FS_CardinalityType
<1>2. 0 \in S
  BY <1>1, FS_EmptySet DEF AddsUp
<1>3. ASSUME NEW n \in S PROVE n + 1 \in S
  <2>1. ASSUME NEW s \in SUBSET T, Cardinality(s) = n + 1 PROVE g[s] = G[s]
    <3> DEFINE r == s \ {AnyOf(s)}
    <3>1. s # {}
      <4>1. Cardinality({}) = 0 /\ n + 1 # 0
        BY FS_EmptySet
      <4> QED
        BY <2>1, <4>1
    <3>2. AnyOf(s) \in s
      BY <3>1 DEF AnyOf
    <3>3. Cardinality(r) = Cardinality(s) - 1
      BY <1>1, <3>2, FS_RemoveElement
    <3>4. r \in SUBSET T /\ Cardinality(r) = n
      BY <2>1, <3>3
    <3>5. g[r] = G[r]
      BY <3>4
    <3> QED
      BY <3>1, <3>5 DEF AddsUp
  <2>2. n + 1 \in Nat
    OBVIOUS
  <2> QED
    BY <2>1, <2>2
<1>4. S = Nat
  <2> HIDE DEF S
  <2>1. S \in SUBSET Nat
    BY DEF S
  <2> QED
    BY <1>2, <1>3, <2>1, SetInduction
<1> QED
  BY <1>1, <1>4

HasSums(D, f) ==
    \E G \in [SUBSET D -> Nat] :
        Sums(G, D, f) /\ \A T \in SUBSET D : SumFunctionOnSet(f, T) = G[T]

LEMMA SumsOf ==
    ASSUME NEW D, IsFiniteSet(D), NEW f \in [D -> Nat]
    PROVE  HasSums(D, f)
<1> DEFINE c == [s \in SUBSET D |-> AnyOf(s)]
           step == [x \in D |-> [v \in Nat |-> f[x] + v]]
           zero == 0
<1>1. /\ \A s \in SUBSET D : s # {} => c[s] \in s
      /\ \A s \in SUBSET D : s # {} => c[s] = AnyOf(s) /\ AnyOf(s) \in s
  BY DEF AnyOf
<1>2. step \in [D -> [Nat -> Nat]] /\ zero \in Nat
  OBVIOUS
<1> HIDE DEF c, step, zero
<1> DEFINE V == Nat
<1>3. HasFold(D, V, zero, step, c)
  <2>1. step \in [D -> [V -> V]] /\ zero \in V
    BY <1>2
  <2> HIDE DEF V
  <2> QED
    BY <1>1, <2>1, FoldExists
<1>4. PICK G \in [SUBSET D -> Nat] : Folds(G, SUBSET D, zero, step, c)
  BY <1>3 DEF HasFold
<1>5. G[{}] = 0
  BY <1>4 DEF Folds, zero
<1>6. ASSUME NEW s \in SUBSET D, s # {} PROVE G[s] = f[AnyOf(s)] + G[s \ {AnyOf(s)}]
  <2>1. AnyOf(s) \in D /\ G[s \ {AnyOf(s)}] \in Nat
    BY <1>1, <1>6
  <2>2. G[s] = step[AnyOf(s)][G[s \ {AnyOf(s)}]]
    BY <1>1, <1>4, <1>6 DEF Folds
  <2> QED
    BY <2>1, <2>2 DEF step
<1>7. Sums(G, D, f)
  BY <1>5, <1>6, SumAnyOrder
<1>8. ASSUME NEW T \in SUBSET D PROVE SumFunctionOnSet(f, T) = G[T]
  <2> DEFINE F(h) == [s \in SUBSET T |->
                         IF s = {} THEN 0 ELSE f[AnyOf(s)] + h[s \ {AnyOf(s)}]]
             g == CHOOSE h : h = F(h)
             H == [s \in SUBSET T |-> G[s]]
  <2>1. H = F(H)
    BY <1>5, <1>6
  <2>2. g = F(g)
    BY <2>1
  <2>3. SumFunctionOnSet(f, T) = g[T]
    BY DEF SumFunctionOnSet, FoldFunctionOnSet, MapThenFoldSet, AnyOf
  <2> HIDE DEF g
  <2>4. IsFiniteSet(T)
    BY FS_Subset
  <2>5. AddsUp(g, f, T)
    BY <2>2 DEF AddsUp
  <2>6. AddsUp(G, f, T)
    BY <1>5, <1>6 DEF AddsUp
  <2>7. g[T] = G[T]
    BY <2>4, <2>5, <2>6, SumsAgree
  <2> QED
    BY <2>3, <2>7
<1> QED
  BY <1>7, <1>8 DEF HasSums

(* The sum of one repository's additions, as the list is gone through.      *)
NextAdditions(repo, sum, x) ==
    IF x.repo = repo THEN sum + x.additions ELSE sum

LEMMA AdditionsFolded ==
    ASSUME NEW repo, NEW X, \A x \in X : x.additions \in Nat, NEW s \in Seq(X)
    PROVE  \E after :
              /\ Steps(after, Len(s), 0)
              /\ \A k \in 1 .. Len(s) :
                    after[k] = NextAdditions(repo, after[k - 1], s[k])
              /\ \A k \in 0 .. Len(s) : after[k] \in Nat
              /\ after[Len(s)] = AdditionsOf(repo, s)
<1>1. PICK n \in Nat : n = Len(s) /\ DOMAIN s = 1 .. n
  BY LenProperties
<1> DEFINE D == 1 .. n
           f == [i \in D |-> s[i].additions]
           T(k) == {i \in 1 .. k : s[i].repo = repo}
<1>2. \A i \in D : s[i].additions \in Nat
  BY <1>1, ElementOfSeq
<1>3. f \in [D -> Nat] /\ \A i \in D : f[i] = s[i].additions
  BY <1>2
<1>4. IsFiniteSet(D)
  BY FS_Interval
<1>5. AdditionsOf(repo, s) = SumFunctionOnSet(f, T(n))
  BY <1>1 DEF AdditionsOf
<1>6. \A k \in 0 .. n : T(k) \in SUBSET D
  OBVIOUS
<1>7. ASSUME NEW k \in 1 .. n
      PROVE  /\ s[k].repo = repo => T(k) = T(k - 1) \cup {k} /\ k \in D \ T(k - 1)
             /\ s[k].repo # repo => T(k) = T(k - 1)
  <2>1. \A i \in 1 .. k : i \in 1 .. k - 1 \/ i = k
    OBVIOUS
  <2>2. \A i \in 1 .. k - 1 : i \in 1 .. k /\ i # k
    OBVIOUS
  <2> QED
    BY <2>1, <2>2
<1>8. T(0) = {}
  OBVIOUS
<1> HIDE DEF f, T, D
<1>9. PICK G \in [SUBSET D -> Nat] :
         Sums(G, D, f) /\ \A R \in SUBSET D : SumFunctionOnSet(f, R) = G[R]
  <2>1. HasSums(D, f)
    BY <1>3, <1>4, SumsOf
  <2> QED
    BY <2>1 DEF HasSums
<1> DEFINE after == [k \in 0 .. n |-> G[T(k)]]
<1>10. after[0] = 0
  <2>1. 0 \in 0 .. n /\ G[{}] = 0
    BY <1>9 DEF Sums
  <2> QED
    BY <1>8, <2>1
<1>11. \A k \in 0 .. n : after[k] \in Nat
  BY <1>6, <1>9
<1>12. ASSUME NEW k \in 1 .. n PROVE after[k] = NextAdditions(repo, after[k - 1], s[k])
  <2>1. k \in 0 .. n /\ k - 1 \in 0 .. n /\ k \in D
    BY DEF D
  <2>2. after[k] = G[T(k)] /\ after[k - 1] = G[T(k - 1)] /\ T(k - 1) \in SUBSET D
    BY <1>6, <2>1
  <2> HIDE DEF after
  <2>3. CASE s[k].repo = repo
    <3>1. G[T(k)] = G[T(k - 1)] + f[k]
      BY <1>7, <1>9, <2>2, <2>3 DEF Sums
    <3> QED
      BY <1>3, <2>1, <2>2, <2>3, <3>1 DEF NextAdditions
  <2>4. CASE s[k].repo # repo
    BY <1>7, <2>2, <2>4 DEF NextAdditions
  <2> QED
    BY <2>3, <2>4
<1>13. DOMAIN after = 0 .. n /\ after[n] = AdditionsOf(repo, s)
  <2>1. n \in 0 .. n
    OBVIOUS
  <2> QED
    BY <1>5, <1>6, <1>9, <2>1
<1> HIDE DEF after
<1> QED
  BY <1>1, <1>10, <1>11, <1>12, <1>13 DEF Steps

-----------------------------------------------------------------------------
(* The repositories of the first k elements of s.                           *)
ReposUpTo(s, k) == {s[i].repo : i \in 1 .. k}

LEMMA ReposUpToNext ==
    ASSUME NEW s, NEW k \in Nat
    PROVE  ReposUpTo(s, k + 1) = ReposUpTo(s, k) \cup {s[k + 1].repo}
<1>1. 1 .. k + 1 = (1 .. k) \cup {k + 1}
  OBVIOUS
<1> QED
  BY <1>1 DEF ReposUpTo

(* After the loop over the pull requests.                                   *)
PullsEntry(repo, urls, sum) ==
    [repository |-> repo, prs |-> urls, merge |-> sum, review |-> 0]

LEMMA PullsSummed ==
    ASSUME NEW ps \in Seq(PullInfo), NEW repo \in Repo
    PROVE  /\ FoldLeft(AddPull, << >>, ps) \in Seq(RepoEntry)
           /\ PullsEntry(repo, UrlsOf(repo, ps), AdditionsOf(repo, ps)) \in RepoEntry
           /\ HasEntry(FoldLeft(AddPull, << >>, ps), repo, ReposUpTo(ps, Len(ps)),
                       PullsEntry(repo, UrlsOf(repo, ps), AdditionsOf(repo, ps)))
<1>1. PICK n \in Nat : n = Len(ps)
  BY LenProperties
<1>2. PICK A : /\ Steps(A, n, << >>)
               /\ \A k \in 1 .. n : A[k] = AddPull(A[k - 1], ps[k])
               /\ A[n] = FoldLeft(AddPull, << >>, ps)
  BY <1>1, PullsFolded
<1>3. PICK urls : /\ Steps(urls, n, << >>)
                  /\ \A k \in 1 .. n : urls[k] = NextUrls(repo, urls[k - 1], ps[k])
                  /\ urls[n] = UrlsOf(repo, ps)
  BY <1>1, UrlsFolded
<1>4. PICK sum : /\ Steps(sum, n, 0)
                 /\ \A k \in 1 .. n : sum[k] = NextAdditions(repo, sum[k - 1], ps[k])
                 /\ \A k \in 0 .. n : sum[k] \in Nat
                 /\ sum[n] = AdditionsOf(repo, ps)
  <2>1. \A x \in PullInfo : x.additions \in Nat
    BY DEF PullInfo
  <2> QED
    BY <1>1, <2>1, AdditionsFolded
<1> DEFINE E(k) == PullsEntry(repo, urls[k], sum[k])
           Good(k) == /\ A[k] \in Seq(RepoEntry)
                      /\ E(k) \in RepoEntry
                      /\ HasEntry(A[k], repo, ReposUpTo(ps, k), E(k))
           S == {k \in Nat : k <= n => Good(k)}
<1>5. Good(0)
  <2>1. A[0] = << >> /\ urls[0] = << >> /\ sum[0] = 0
    BY <1>2, <1>3, <1>4 DEF Steps
  <2>2. << >> \in Seq(RepoEntry) /\ << >> \in Seq(PR) /\ DOMAIN << >> = {}
    BY EmptySeq
  <2>3. E(0) = NoStats(repo)
    BY <2>1 DEF PullsEntry, NoStats
  <2>4. E(0) \in RepoEntry
    BY <2>3, NoStatsType
  <2>5. 1 .. 0 = {}
    OBVIOUS
  <2>6. ReposUpTo(ps, 0) = {}
    BY <2>5 DEF ReposUpTo
  <2> HIDE DEF E
  <2>7. HasEntry(A[0], repo, ReposUpTo(ps, 0), E(0))
    BY <2>1, <2>2, <2>3, <2>6 DEF HasEntry
  <2> QED
    BY <2>1, <2>2, <2>4, <2>7
<1>6. ASSUME NEW k \in Nat, k + 1 <= n, Good(k) PROVE Good(k + 1)
  <2> DEFINE pr == ps[k + 1]
  <2>1. pr \in PullInfo /\ pr.url \in PR /\ pr.repo \in Repo /\ pr.additions \in Nat
    <3>1. k + 1 \in 1 .. n
      BY <1>6
    <3>2. pr \in PullInfo
      BY <1>1, <3>1, ElementOfSeq
    <3> QED
      BY <3>2 DEF PullInfo
  <2>2. /\ A[k + 1] = AddPull(A[k], pr)
        /\ urls[k + 1] = NextUrls(repo, urls[k], pr)
        /\ sum[k + 1] = NextAdditions(repo, sum[k], pr)
    <3>1. k + 1 \in 1 .. n /\ (k + 1) - 1 = k
      BY <1>6
    <3> QED
      BY <1>2, <1>3, <1>4, <3>1
  <2>3. ReposUpTo(ps, k + 1) = ReposUpTo(ps, k) \cup {pr.repo}
    BY ReposUpToNext
  <2> HIDE DEF pr
  <2>4. A[k + 1] = Touched(A[k], pr.repo, WithPull(pr))
    BY <1>6, <2>1, <2>2, AddPullTouches
  <2>5. A[k + 1] \in Seq(RepoEntry)
    BY <1>6, <2>1, <2>4, WithPullType, TouchedProperties
  <2>6. CASE pr.repo = repo
    <3>1. E(k + 1) = WithPull(pr)[E(k)]
      <4>1. urls[k + 1] = Append(urls[k], pr.url) /\ sum[k + 1] = sum[k] + pr.additions
        BY <2>2, <2>6 DEF NextUrls, NextAdditions
      <4>2. E(k) \in RepoEntry
        BY <1>6
      <4> QED
        BY <4>1, <4>2 DEF WithPull, PullsEntry
    <3> HIDE DEF E
    <3>2. E(k + 1) \in RepoEntry
      BY <1>6, <2>1, <3>1, WithPullType
    <3>3. HasEntry(A[k + 1], repo, ReposUpTo(ps, k) \cup {repo}, WithPull(pr)[E(k)])
      <4>1. E(k) \in RepoEntry /\ A[k] \in Seq(RepoEntry)
        BY <1>6
      <4>2. HasEntry(A[k], repo, ReposUpTo(ps, k), E(k))
        BY <1>6
      <4>3. /\ WithPull(pr) \in [RepoEntry -> RepoEntry]
            /\ \A e \in RepoEntry : WithPull(pr)[e].repository = e.repository
        BY <2>1, WithPullType
      <4>4. HasEntry(Touched(A[k], repo, WithPull(pr)), repo,
                     ReposUpTo(ps, k) \cup {repo}, WithPull(pr)[E(k)])
        BY <4>1, <4>2, <4>3, TouchedProperties
      <4> QED
        BY <2>4, <2>6, <4>4
    <3> QED
      BY <2>3, <2>5, <2>6, <3>1, <3>2, <3>3
  <2>7. CASE pr.repo # repo
    <3>1. E(k + 1) = E(k)
      BY <2>2, <2>7 DEF NextUrls, NextAdditions
    <3> HIDE DEF E
    <3>2. HasEntry(A[k + 1], repo, ReposUpTo(ps, k) \cup {pr.repo}, E(k))
      <4>1. repo \in Repo \ {pr.repo} /\ E(k) \in RepoEntry /\ A[k] \in Seq(RepoEntry)
        BY <1>6, <2>7
      <4>2. HasEntry(A[k], repo, ReposUpTo(ps, k), E(k))
        BY <1>6
      <4>3. /\ WithPull(pr) \in [RepoEntry -> RepoEntry]
            /\ \A e \in RepoEntry : WithPull(pr)[e].repository = e.repository
        BY <2>1, WithPullType
      <4>4. HasEntry(Touched(A[k], pr.repo, WithPull(pr)), repo,
                     ReposUpTo(ps, k) \cup {pr.repo}, E(k))
        BY <2>1, <4>1, <4>2, <4>3, TouchedProperties
      <4> QED
        BY <2>4, <4>4
    <3> QED
      BY <1>6, <2>3, <2>5, <3>1, <3>2
  <2> QED
    BY <2>6, <2>7
<1> HIDE DEF Good
<1>7. S = Nat
  <2>1. 0 \in S
    BY <1>5
  <2>2. ASSUME NEW k \in S PROVE k + 1 \in S
    BY <1>6
  <2> HIDE DEF S
  <2>3. S \in SUBSET Nat
    BY DEF S
  <2> QED
    BY <2>1, <2>2, <2>3, SetInduction
<1>8. Good(n)
  BY <1>7
<1> QED
  BY <1>1, <1>2, <1>3, <1>4, <1>8 DEF Good

(* After the loop over the reviews, which goes on with the list ps made.    *)
FullEntry(repo, urls, merge, sum) ==
    [repository |-> repo, prs |-> urls, merge |-> merge, review |-> sum]

LEMMA ReviewsSummed ==
    ASSUME NEW base \in Seq(RepoEntry), NEW rs \in Seq(ReviewInfo), NEW repo \in Repo,
           NEW seen, NEW urls, NEW merge,
           PullsEntry(repo, urls, merge) \in RepoEntry,
           HasEntry(base, repo, seen, PullsEntry(repo, urls, merge))
    PROVE  /\ FoldLeft(AddReview, base, rs) \in Seq(RepoEntry)
           /\ HasEntry(FoldLeft(AddReview, base, rs), repo,
                       seen \cup ReposUpTo(rs, Len(rs)),
                       FullEntry(repo, urls, merge, AdditionsOf(repo, rs)))
<1>1. PICK n \in Nat : n = Len(rs)
  BY LenProperties
<1>2. PICK A : /\ Steps(A, n, base)
               /\ \A k \in 1 .. n : A[k] = AddReview(A[k - 1], rs[k])
               /\ A[n] = FoldLeft(AddReview, base, rs)
  BY <1>1, ReviewsFolded
<1>3. PICK sum : /\ Steps(sum, n, 0)
                 /\ \A k \in 1 .. n : sum[k] = NextAdditions(repo, sum[k - 1], rs[k])
                 /\ \A k \in 0 .. n : sum[k] \in Nat
                 /\ sum[n] = AdditionsOf(repo, rs)
  <2>1. \A x \in ReviewInfo : x.additions \in Nat
    BY DEF ReviewInfo
  <2> QED
    BY <1>1, <2>1, AdditionsFolded
<1> DEFINE E(k) == FullEntry(repo, urls, merge, sum[k])
           Seen(k) == seen \cup ReposUpTo(rs, k)
           Good(k) == /\ A[k] \in Seq(RepoEntry)
                      /\ E(k) \in RepoEntry
                      /\ HasEntry(A[k], repo, Seen(k), E(k))
           S == {k \in Nat : k <= n => Good(k)}
<1>4. Good(0)
  <2>1. A[0] = base /\ sum[0] = 0
    BY <1>2, <1>3 DEF Steps
  <2>2. E(0) = PullsEntry(repo, urls, merge)
    BY <2>1 DEF PullsEntry, FullEntry
  <2>3. 1 .. 0 = {}
    OBVIOUS
  <2>4. Seen(0) = seen
    BY <2>3 DEF ReposUpTo
  <2> HIDE DEF E, Seen
  <2> QED
    BY <2>1, <2>2, <2>4
<1>5. ASSUME NEW k \in Nat, k + 1 <= n, Good(k) PROVE Good(k + 1)
  <2> DEFINE rev == rs[k + 1]
  <2>1. rev \in ReviewInfo /\ rev.repo \in Repo /\ rev.additions \in Nat
    <3>1. k + 1 \in 1 .. n
      BY <1>5
    <3>2. rev \in ReviewInfo
      BY <1>1, <3>1, ElementOfSeq
    <3> QED
      BY <3>2 DEF ReviewInfo
  <2>2. A[k + 1] = AddReview(A[k], rev) /\ sum[k + 1] = NextAdditions(repo, sum[k], rev)
    <3>1. k + 1 \in 1 .. n /\ (k + 1) - 1 = k
      BY <1>5
    <3> QED
      BY <1>2, <1>3, <3>1
  <2>3. Seen(k + 1) = Seen(k) \cup {rev.repo}
    BY ReposUpToNext
  <2> HIDE DEF rev, Seen
  <2>4. /\ WithReview(rev) \in [RepoEntry -> RepoEntry]
        /\ \A e \in RepoEntry : WithReview(rev)[e].repository = e.repository
    BY <2>1, WithReviewType
  <2>5. A[k + 1] = Touched(A[k], rev.repo, WithReview(rev))
    BY <1>5, <2>1, <2>2, AddReviewTouches
  <2>6. A[k + 1] \in Seq(RepoEntry)
    BY <1>5, <2>1, <2>4, <2>5, TouchedProperties
  <2>7. CASE rev.repo = repo
    <3>1. E(k + 1) = WithReview(rev)[E(k)]
      <4>1. sum[k + 1] = sum[k] + rev.additions
        BY <2>2, <2>7 DEF NextAdditions
      <4>2. E(k) \in RepoEntry
        BY <1>5
      <4> QED
        BY <4>1, <4>2 DEF WithReview, FullEntry
    <3> HIDE DEF E
    <3>2. E(k + 1) \in RepoEntry
      BY <1>5, <2>4, <3>1
    <3>3. HasEntry(A[k + 1], repo, Seen(k) \cup {repo}, WithReview(rev)[E(k)])
      <4>1. E(k) \in RepoEntry /\ A[k] \in Seq(RepoEntry)
        BY <1>5
      <4>2. HasEntry(A[k], repo, Seen(k), E(k))
        BY <1>5
      <4>3. HasEntry(Touched(A[k], repo, WithReview(rev)), repo,
                     Seen(k) \cup {repo}, WithReview(rev)[E(k)])
        BY <2>4, <4>1, <4>2, TouchedProperties
      <4> QED
        BY <2>5, <2>7, <4>3
    <3> QED
      BY <2>3, <2>6, <2>7, <3>1, <3>2, <3>3
  <2>8. CASE rev.repo # repo
    <3>1. E(k + 1) = E(k)
      BY <2>2, <2>8 DEF NextAdditions
    <3> HIDE DEF E
    <3>2. repo \in Repo \ {rev.repo} /\ E(k) \in RepoEntry /\ A[k] \in Seq(RepoEntry)
      BY <1>5, <2>8
    <3>3. HasEntry(A[k], repo, Seen(k), E(k))
      BY <1>5
    <3>4. HasEntry(Touched(A[k], rev.repo, WithReview(rev)), repo,
                   Seen(k) \cup {rev.repo}, E(k))
      BY <2>1, <2>4, <3>2, <3>3, TouchedProperties
    <3> QED
      BY <2>3, <2>5, <2>6, <3>1, <3>2, <3>4
  <2> QED
    BY <2>7, <2>8
<1> HIDE DEF Good
<1>6. S = Nat
  <2>1. 0 \in S
    BY <1>4
  <2>2. ASSUME NEW k \in S PROVE k + 1 \in S
    BY <1>5
  <2> HIDE DEF S
  <2>3. S \in SUBSET Nat
    BY DEF S
  <2> QED
    BY <2>1, <2>2, <2>3, SetInduction
<1>7. Good(n)
  BY <1>6
<1> QED
  BY <1>1, <1>2, <1>3, <1>7 DEF Good

-----------------------------------------------------------------------------
(* A list with one entry for each of a finite set of repositories.          *)
LEMMA OneEntryEach ==
    ASSUME NEW A \in Seq(RepoEntry), NEW repos,
           \A i \in DOMAIN A : A[i].repository \in repos,
           \A repo \in repos : \E i \in DOMAIN A : A[i].repository = repo,
           \A i, j \in DOMAIN A : A[i].repository = A[j].repository => i = j
    PROVE  Len(A) = Cardinality(repos)
<1>1. PICK n \in Nat : n = Len(A) /\ DOMAIN A = 1 .. n
  BY LenProperties
<1> DEFINE f == [i \in 1 .. n |-> A[i].repository]
<1>2. f \in [1 .. n -> repos]
  BY <1>1
<1>3. \A repo \in repos : \E i \in 1 .. n : f[i] = repo
  BY <1>1
<1>4. \A i, j \in 1 .. n : f[i] = f[j] => i = j
  BY <1>1
<1> HIDE DEF f
<1> DEFINE D == 1 .. n
<1>5. IsFiniteSet(D) /\ Cardinality(D) = n
  <2>1. IsFiniteSet(D)
    BY FS_Interval
  <2>2. Cardinality(D) = IF 1 > n THEN 0 ELSE n - 1 + 1
    BY FS_Interval
  <2> QED
    BY <2>1, <2>2
<1>6. f \in Injection(D, repos) /\ f \in Surjection(D, repos)
  BY <1>2, <1>3, <1>4 DEF Injection, IsInjective, Surjection
<1> HIDE DEF D
<1>7. Cardinality(repos) = Cardinality(D)
  BY <1>5, <1>6, FS_Surjection
<1> QED
  BY <1>1, <1>5, <1>7

LEMMA StepsStay ==
    ASSUME NEW n \in Nat, NEW V, NEW after, after[0] \in V,
           \A k \in 1 .. n : after[k - 1] \in V => after[k] \in V
    PROVE  after[n] \in V
<1> DEFINE S == {k \in Nat : k <= n => after[k] \in V}
<1>1. 0 \in S
  OBVIOUS
<1>2. ASSUME NEW k \in S PROVE k + 1 \in S
  <2>1. k + 1 \in Nat /\ (k + 1) - 1 = k
    OBVIOUS
  <2>2. ASSUME k + 1 <= n PROVE after[k + 1] \in V
    <3>1. k + 1 \in 1 .. n /\ after[k] \in V
      BY <2>2
    <3> QED
      BY <2>1, <3>1
  <2> QED
    BY <2>1, <2>2
<1> HIDE DEF S
<1>3. S \in SUBSET Nat
  BY DEF S
<1>4. S = Nat
  BY <1>1, <1>2, <1>3, SetInduction
<1> QED
  BY <1>4 DEF S

LEMMA RepoStatsType ==
    ASSUME NEW ps \in Seq(PullInfo), NEW rs \in Seq(ReviewInfo)
    PROVE  /\ FoldLeft(AddPull, << >>, ps) \in Seq(RepoEntry)
           /\ RepoStats(ps, rs) \in Seq(RepoEntry)
<1> DEFINE V == Seq(RepoEntry)
           base == FoldLeft(AddPull, << >>, ps)
<1>1. base \in V
  <2>1. PICK n \in Nat : n = Len(ps)
    BY LenProperties
  <2>2. PICK A : /\ A[0] = << >>
                 /\ \A k \in 1 .. n : A[k] = AddPull(A[k - 1], ps[k])
                 /\ A[n] = base
    BY <2>1, PullsFolded DEF Steps
  <2>3. ASSUME NEW k \in 1 .. n, A[k - 1] \in V PROVE A[k] \in V
    <3>1. ps[k] \in PullInfo
      BY <2>1, ElementOfSeq
    <3>2. AddPull(A[k - 1], ps[k]) \in V
      BY <2>3, <3>1, AddPullType
    <3> QED
      BY <2>2, <3>2
  <2>4. A[0] \in V
    BY <2>2, EmptySeq
  <2> HIDE DEF V, base
  <2>5. A[n] \in V
    BY <2>3, <2>4, StepsStay
  <2> QED
    BY <2>2, <2>5
<1> HIDE DEF base
<1>2. FoldLeft(AddReview, base, rs) \in V
  <2>1. PICK n \in Nat : n = Len(rs)
    BY LenProperties
  <2>2. PICK A : /\ A[0] = base
                 /\ \A k \in 1 .. n : A[k] = AddReview(A[k - 1], rs[k])
                 /\ A[n] = FoldLeft(AddReview, base, rs)
    BY <1>1, <2>1, ReviewsFolded DEF Steps
  <2>3. ASSUME NEW k \in 1 .. n, A[k - 1] \in V PROVE A[k] \in V
    <3>1. rs[k] \in ReviewInfo
      BY <2>1, ElementOfSeq
    <3>2. AddReview(A[k - 1], rs[k]) \in V
      BY <2>3, <3>1, AddReviewType
    <3> QED
      BY <2>2, <3>2
  <2>4. A[0] \in V
    BY <1>1, <2>2
  <2> HIDE DEF V
  <2>5. A[n] \in V
    BY <2>3, <2>4, StepsStay
  <2> QED
    BY <2>2, <2>5
<1> QED
  BY <1>1, <1>2 DEF RepoStats, base

(* The answer of a report has an entry for each repository of its lists,    *)
(* that of EntryOf.                                                         *)
ReposIn(ps, rs) == {s.repo : s \in ToSet(ps) \cup ToSet(rs)}

LEMMA ReportAddsUp ==
    ASSUME prs \in Seq(PullInfo), revs \in Seq(ReviewInfo),
           stats = RepoStats(prs, revs)
    PROVE  /\ ToSet(stats) = {EntryOf(repo) : repo \in ReposIn(prs, revs)}
           /\ Len(stats) = Cardinality(ReposIn(prs, revs))
<1> DEFINE repos == ReposIn(prs, revs)
           seen == ReposUpTo(prs, Len(prs)) \cup ReposUpTo(revs, Len(revs))
<1>1. /\ DOMAIN prs = 1 .. Len(prs) /\ DOMAIN revs = 1 .. Len(revs)
      /\ \A i \in 1 .. Len(prs) : prs[i].repo \in Repo
      /\ \A i \in 1 .. Len(revs) : revs[i].repo \in Repo
  <2>1. DOMAIN prs = 1 .. Len(prs) /\ DOMAIN revs = 1 .. Len(revs)
    BY LenProperties
  <2>2. \A i \in 1 .. Len(prs) : prs[i] \in PullInfo
    BY ElementOfSeq
  <2>3. \A i \in 1 .. Len(revs) : revs[i] \in ReviewInfo
    BY ElementOfSeq
  <2> QED
    BY <2>1, <2>2, <2>3 DEF PullInfo, ReviewInfo
<1>2. repos = seen
  BY <1>1 DEF ToSet, ReposUpTo, ReposIn
<1>3. repos \subseteq Repo
  BY <1>1, <1>2 DEF ReposUpTo
<1>4. stats \in Seq(RepoEntry)
  BY RepoStatsType
<1>5. ASSUME NEW repo \in Repo
      PROVE  HasEntry(stats, repo, repos, EntryOf(repo))
  <2> DEFINE base == FoldLeft(AddPull, << >>, prs)
             urls == UrlsOf(repo, prs)
             merge == AdditionsOf(repo, prs)
             before == ReposUpTo(prs, Len(prs))
  <2>1. /\ base \in Seq(RepoEntry)
        /\ PullsEntry(repo, urls, merge) \in RepoEntry
        /\ HasEntry(base, repo, before, PullsEntry(repo, urls, merge))
    BY PullsSummed
  <2>2. stats = FoldLeft(AddReview, base, revs)
    BY DEF RepoStats
  <2>3. EntryOf(repo) = FullEntry(repo, urls, merge, AdditionsOf(repo, revs))
    BY DEF EntryOf, FullEntry
  <2>4. repos = before \cup ReposUpTo(revs, Len(revs))
    BY <1>2
  <2> HIDE DEF base, urls, merge, before, repos
  <2> QED
    BY <2>1, <2>2, <2>3, <2>4, ReviewsSummed
<1>6. /\ \A i \in DOMAIN stats : stats[i].repository \in Repo
      /\ ToSet(stats) = {stats[i] : i \in DOMAIN stats}
  <2>1. \A i \in 1 .. Len(stats) : stats[i] \in RepoEntry
    BY <1>4, ElementOfSeq
  <2>2. DOMAIN stats = 1 .. Len(stats)
    BY <1>4, LenProperties
  <2> QED
    BY <2>1, <2>2 DEF RepoEntry, ToSet
<1> HIDE DEF repos, seen
<1>7. /\ \A i \in DOMAIN stats : /\ stats[i].repository \in repos
                                /\ stats[i] = EntryOf(stats[i].repository)
      /\ \A repo \in repos : \E i \in DOMAIN stats : /\ stats[i].repository = repo
                                                     /\ stats[i] = EntryOf(repo)
      /\ \A i, j \in DOMAIN stats : stats[i].repository = stats[j].repository => i = j
  BY <1>3, <1>5, <1>6 DEF HasEntry
<1>8. ToSet(stats) = {EntryOf(repo) : repo \in repos}
  BY <1>6, <1>7
<1>9. Len(stats) = Cardinality(repos)
  BY <1>4, <1>7, OneEntryEach
<1> QED
  BY <1>8, <1>9 DEF repos

-----------------------------------------------------------------------------
(* The statistics are made from the two lists, which stay until the next    *)
(* report.                                                                  *)
StatsInv == ReportInv /\ (pc = "answered" => stats = RepoStats(prs, revs))

LEMMA NextStats ==
    ASSUME StatsInv, [Next]_vars
    PROVE  StatsInv'
<1>1. ReportInv'
  BY NextKeeps DEF StatsInv
<1>2. ASSUME pc' = "answered" PROVE stats' = RepoStats(prs, revs)'
  <2>1. CASE Answer
    BY <2>1 DEF Answer
  <2>2. CASE UNCHANGED reportVars
    BY <1>2, <2>2 DEF StatsInv, reportVars
  <2>3. CASE \E p \in PR : UpdateStores(p)
    BY <2>2, <2>3 DEF UpdateStores
  <2>4. CASE UNCHANGED vars
    BY <2>2, <2>4 DEF vars
  <2>5. CASE PullRequestsByUserDates \/ ReviewsByUserDates \/ NextReport \/ QueryFails
    BY <1>2, <2>5 DEF PullRequestsByUserDates, ReviewsByUserDates, NextReport,
       QueryFails, Forget
  <2>6. CASE \E k \in Review : LookUpPullRequest(k) \/ LookupFails(k)
    BY <1>2, <2>6 DEF LookUpPullRequest, LookupFails
  <2> QED
    BY <2>1, <2>3, <2>4, <2>5, <2>6 DEF Next
<1> QED
  BY <1>1, <1>2 DEF StatsInv

(* For any lists, Updates, failed queries and months, the answer of a       *)
(* report has one entry for each repository with a pull request or a        *)
(* review, with all of its pull requests in their order and the sums of     *)
(* what they and its reviews added.                                         *)
THEOREM ReportsAddUp == Spec => []StatsAddUp
<1>1. Init => StatsInv
  BY InitHolds DEF Init, StatsInv
<1>2. StatsInv /\ [Next]_vars => StatsInv'
  BY NextStats
<1>3. ASSUME StatsInv PROVE StatsAddUp
  <2>1. prs \in Seq(PullInfo) /\ revs \in Seq(ReviewInfo)
    BY <1>3 DEF StatsInv, ReportInv, RequestOK
  <2> QED
    BY <1>3, <2>1, ReportAddsUp DEF StatsInv, StatsAddUp, ReposIn
<1> QED
  BY <1>1, <1>2, <1>3, PTL DEF Spec
=============================================================================
