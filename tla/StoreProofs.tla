----------------------------- MODULE StoreProofs -----------------------------
(***************************************************************************)
(* What gorm's saving of rows one after the other does to a table, for any *)
(* rows.                                                                   *)
(***************************************************************************)
EXTENDS Store, SequenceTheorems, WellFoundedInduction, TLAPS

(* Of the indices that have a property, one is the last.                    *)
LEMMA LastIndex ==
    ASSUME NEW n \in Nat, NEW I \in SUBSET (1 .. n), I # {}
    PROVE  \E i \in I : \A j \in I : j <= i
<1> DEFINE T == {m \in Nat : n - m \in I}
           R == {ss \in Nat \X Nat : ss[1] < ss[2]}
<1>0. IsWellFoundedOn(R, Nat)
  BY NatLessThanWellFounded DEF OpToRel
<1>1. T \subseteq Nat /\ T # {}
  <2>1. PICK i \in I : TRUE
    OBVIOUS
  <2>2. n - i \in T
    OBVIOUS
  <2> QED
    BY <2>2
<1>2. PICK m \in T : \A k \in T : ~(<<k, m>> \in R)
  BY <1>0, <1>1, WFMin
<1>3. ASSUME NEW k \in T PROVE m <= k
  <2>1. ~(<<k, m>> \in R)
    BY <1>2
  <2>2. k \in Nat /\ m \in Nat
    OBVIOUS
  <2>3. ~(k < m)
    BY <2>1, <2>2
  <2> QED
    BY <2>2, <2>3
<1>4. \A j \in I : n - j \in T
  OBVIOUS
<1>5. n - m \in I
  OBVIOUS
<1> QED
  BY <1>3, <1>4, <1>5

-----------------------------------------------------------------------------
(* Saving rows one after the other leaves each key with the last row that   *)
(* has it.                                                                  *)
LEMMA SavedCommits ==
    ASSUME NEW S, NEW table, NEW rows \in Seq(S),
           \A k \in DOMAIN table : table[k] \in S /\ CommitKey(table[k]) = k
    PROVE  \A k \in DOMAIN SaveAll(table, rows, CommitKey) :
              /\ SaveAll(table, rows, CommitKey)[k] \in S
              /\ CommitKey(SaveAll(table, rows, CommitKey)[k]) = k
<1> DEFINE keys == {CommitKey(rows[i]) : i \in DOMAIN rows}
           last(k) == CHOOSE i \in DOMAIN rows :
                         /\ CommitKey(rows[i]) = k
                         /\ \A j \in DOMAIN rows : CommitKey(rows[j]) = k => j <= i
           T == [k \in DOMAIN table \cup keys |->
                    IF k \in keys THEN rows[last(k)] ELSE table[k]]
<1>1. SaveAll(table, rows, CommitKey) = T
  BY DEF SaveAll
<1>2. Len(rows) \in Nat /\ DOMAIN rows = 1 .. Len(rows)
  BY LenProperties
<1>3. ASSUME NEW k \in keys
      PROVE  last(k) \in DOMAIN rows /\ CommitKey(rows[last(k)]) = k
  <2> DEFINE I == {i \in 1 .. Len(rows) : CommitKey(rows[i]) = k}
  <2>1. I # {} /\ I \in SUBSET (1 .. Len(rows))
    BY <1>2
  <2>2. PICK i \in I : \A j \in I : j <= i
    BY <1>2, <2>1, LastIndex
  <2>3. \E i1 \in DOMAIN rows :
           /\ CommitKey(rows[i1]) = k
           /\ \A j \in DOMAIN rows : CommitKey(rows[j]) = k => j <= i1
    BY <1>2, <2>2
  <2> QED
    BY <2>3
<1> HIDE DEF last
<1>4. ASSUME NEW k \in keys PROVE rows[last(k)] \in S
  BY <1>2, <1>3, ElementOfSeq
<1>5. ASSUME NEW k \in DOMAIN T PROVE T[k] \in S /\ CommitKey(T[k]) = k
  <2> HIDE DEF keys
  <2>1. CASE k \in keys
    BY <1>3, <1>4, <2>1
  <2>2. CASE k \notin keys
    BY <2>2
  <2> QED
    BY <2>1, <2>2
<1> QED
  BY <1>1, <1>5

(* The same of the reviews.                                                 *)
LEMMA SavedReviews ==
    ASSUME NEW S, NEW table, NEW rows \in Seq(S),
           \A k \in DOMAIN table : table[k] \in S /\ ReviewKey(table[k]) = k
    PROVE  \A k \in DOMAIN SaveAll(table, rows, ReviewKey) :
              /\ SaveAll(table, rows, ReviewKey)[k] \in S
              /\ ReviewKey(SaveAll(table, rows, ReviewKey)[k]) = k
<1> DEFINE keys == {ReviewKey(rows[i]) : i \in DOMAIN rows}
           last(k) == CHOOSE i \in DOMAIN rows :
                         /\ ReviewKey(rows[i]) = k
                         /\ \A j \in DOMAIN rows : ReviewKey(rows[j]) = k => j <= i
           T == [k \in DOMAIN table \cup keys |->
                    IF k \in keys THEN rows[last(k)] ELSE table[k]]
<1>1. SaveAll(table, rows, ReviewKey) = T
  BY DEF SaveAll
<1>2. Len(rows) \in Nat /\ DOMAIN rows = 1 .. Len(rows)
  BY LenProperties
<1>3. ASSUME NEW k \in keys
      PROVE  last(k) \in DOMAIN rows /\ ReviewKey(rows[last(k)]) = k
  <2> DEFINE I == {i \in 1 .. Len(rows) : ReviewKey(rows[i]) = k}
  <2>1. I # {} /\ I \in SUBSET (1 .. Len(rows))
    BY <1>2
  <2>2. PICK i \in I : \A j \in I : j <= i
    BY <1>2, <2>1, LastIndex
  <2>3. \E i1 \in DOMAIN rows :
           /\ ReviewKey(rows[i1]) = k
           /\ \A j \in DOMAIN rows : ReviewKey(rows[j]) = k => j <= i1
    BY <1>2, <2>2
  <2> QED
    BY <2>3
<1> HIDE DEF last
<1>4. ASSUME NEW k \in keys PROVE rows[last(k)] \in S
  BY <1>2, <1>3, ElementOfSeq
<1>5. ASSUME NEW k \in DOMAIN T PROVE T[k] \in S /\ ReviewKey(T[k]) = k
  <2> HIDE DEF keys
  <2>1. CASE k \in keys
    BY <1>3, <1>4, <2>1
  <2>2. CASE k \notin keys
    BY <2>2
  <2> QED
    BY <2>1, <2>2
<1> QED
  BY <1>1, <1>5

(* A write leaves in the review table the old rows and the new ones, each   *)
(* under its key.                                                           *)
LEMMA WrittenKeys ==
    ASSUME NEW url, NEW row, Write(url, row)
    PROVE  /\ DOMAIN reviews \subseteq DOMAIN reviews'
           /\ \A k \in DOMAIN reviews' \ DOMAIN reviews :
                 \E i \in DOMAIN ReviewRows(url, row) : ReviewKey(ReviewRows(url, row)[i]) = k
BY DEF Write, SaveAll

LEMMA WrittenReviews ==
    ASSUME NEW url, NEW row, NEW T, Write(url, row), ReviewRows(url, row) \in Seq(T),
           \A k \in DOMAIN reviews : reviews[k] \in T /\ ReviewKey(reviews[k]) = k
    PROVE  \A k \in DOMAIN reviews' : reviews'[k] \in T /\ ReviewKey(reviews'[k]) = k
<1> DEFINE rows == ReviewRows(url, row)
<1>1. reviews' = SaveAll(reviews, rows, ReviewKey)
  BY DEF Write
<1>2. rows \in Seq(T)
  OBVIOUS
<1> HIDE DEF rows
<1>3. \A k \in DOMAIN SaveAll(reviews, rows, ReviewKey) :
         /\ SaveAll(reviews, rows, ReviewKey)[k] \in T
         /\ ReviewKey(SaveAll(reviews, rows, ReviewKey)[k]) = k
  BY <1>2, SavedReviews
<1> QED
  BY <1>1, <1>3

(* The new reviews are all there, under the keys of the pull request.       *)
LEMMA WrittenReviewKeys ==
    ASSUME NEW url, NEW row, Write(url, row)
    PROVE  /\ \A i \in DOMAIN row.reviews : <<url, row.reviews[i]>> \in DOMAIN reviews'
           /\ \A k \in DOMAIN reviews' \ DOMAIN reviews : k[1] = url
<1>1. ASSUME NEW i \in DOMAIN row.reviews
      PROVE  <<url, row.reviews[i]>> \in DOMAIN reviews'
  <2>1. /\ i \in DOMAIN ReviewRows(url, row)
        /\ ReviewKey(ReviewRows(url, row)[i]) = <<url, row.reviews[i]>>
    BY DEF ReviewRows, ReviewKey
  <2>2. \A m \in DOMAIN ReviewRows(url, row) :
           ReviewKey(ReviewRows(url, row)[m]) \in DOMAIN reviews'
    BY DEF Write, SaveAll
  <2> QED
    BY <2>1, <2>2
<1>2. ASSUME NEW k \in DOMAIN reviews' \ DOMAIN reviews
      PROVE  k[1] = url
  <2>1. PICK i \in DOMAIN ReviewRows(url, row) : ReviewKey(ReviewRows(url, row)[i]) = k
    BY WrittenKeys
  <2>2. ReviewRows(url, row)[i].url = url
    BY DEF ReviewRows
  <2> QED
    BY <2>1, <2>2 DEF ReviewKey
<1> QED
  BY <1>1, <1>2

(* A write with commits leaves one row of them, the last one's; those of    *)
(* other pull requests stay as they were.                                   *)
LEMMA WrittenCommits ==
    ASSUME NEW url, NEW row, Write(url, row), NEW S,
           row.commits \in Seq(S), row.commits # << >>
    PROVE  /\ DOMAIN commits' = DOMAIN commits \cup {url}
           /\ commits'[url].url = url
           /\ commits'[url].sha = row.commits[Len(row.commits)]
           /\ \A k \in DOMAIN commits \ {url} : commits'[k] = commits[k]
<1> DEFINE n == Len(row.commits)
           rows == CommitRows(url, row)
           keys == {CommitKey(rows[i]) : i \in DOMAIN rows}
           last(k) == CHOOSE i \in DOMAIN rows :
                         /\ CommitKey(rows[i]) = k
                         /\ \A j \in DOMAIN rows : CommitKey(rows[j]) = k => j <= i
<1>1. n \in Nat \ {0} /\ DOMAIN row.commits = 1 .. n
  BY EmptySeq, LenProperties
<1>2. /\ DOMAIN rows = 1 .. n
      /\ \A i \in 1 .. n : rows[i] = [url |-> url, sha |-> row.commits[i]]
  BY <1>1 DEF CommitRows
<1>3. commits' = [k \in DOMAIN commits \cup keys |->
                    IF k \in keys THEN rows[last(k)] ELSE commits[k]]
  BY DEF Write, SaveAll
<1> HIDE DEF n, rows
<1>4. \A i \in 1 .. n : CommitKey(rows[i]) = url
  BY <1>2 DEF CommitKey
<1>5. keys = {url}
  <2>1. 1 \in 1 .. n
    BY <1>1
  <2> QED
    BY <1>2, <1>4, <2>1
<1>6. last(url) = n
  <2> DEFINE P(i) == /\ CommitKey(rows[i]) = url
                     /\ \A j \in DOMAIN rows : CommitKey(rows[j]) = url => j <= i
  <2>1. n \in DOMAIN rows /\ P(n)
    BY <1>1, <1>2, <1>4
  <2>2. \A i \in DOMAIN rows : P(i) => i = n
    BY <1>1, <1>2, <1>4, <2>1
  <2> HIDE DEF P
  <2>3. (CHOOSE i \in DOMAIN rows : P(i)) = n
    BY <2>1, <2>2
  <2> QED
    BY <2>3 DEF P
<1> HIDE DEF keys, last
<1>7. commits'[url] = rows[n]
  BY <1>3, <1>5, <1>6
<1>8. rows[n] = [url |-> url, sha |-> row.commits[n]]
  BY <1>1, <1>2
<1> QED
  BY <1>3, <1>5, <1>7, <1>8 DEF n
=============================================================================
