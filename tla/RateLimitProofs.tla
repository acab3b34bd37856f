--------------------------- MODULE RateLimitProofs ---------------------------
(***************************************************************************)
(* The bound on refused requests, for any number of callers and any quota. *)
(*                                                                         *)
(* FewRejected is not inductive: a refusal must have been paid for.        *)
(* NoOvercommit is what pays: it counts a request from the moment the      *)
(* cache is decremented for it until it is refused, so a refusal only      *)
(* moves one unit from the requests in flight to those refused.  It is     *)
(* inductive together with TypeOK, which says that the callers inside      *)
(* RateLimit are one at a time: the one that reads the quota is itself not *)
(* in flight, which leaves at most all the others.                         *)
(***************************************************************************)
EXTENDS RateLimit, FiniteSetTheorems, TLAPS

Inv == TypeOK /\ NoOvercommit /\ FewRejected

-----------------------------------------------------------------------------
(***************************************************************************)
(* The number of requests in flight.                                       *)
(***************************************************************************)

(* The set of requests in flight is finite, and leaves out a caller that is *)
(* not sending: then all the others are the most it can be.                 *)
LEMMA InFlightBounded ==
    ASSUME RateLimitAssumption
    PROVE  /\ IsFiniteSet(InFlight)
           /\ Cardinality(InFlight) \in Nat
           /\ Cardinality(Caller) \in Nat \ {0}
           /\ \A c \in Caller : pc[c] # "send" =>
                 Cardinality(InFlight) <= Cardinality(Caller) - 1
<1>1. InFlight \in SUBSET Caller
  BY DEF InFlight
<1>2. IsFiniteSet(InFlight) /\ Cardinality(InFlight) \in Nat
  BY <1>1, FS_Subset, FS_CardinalityType DEF RateLimitAssumption
<1>3. Cardinality(Caller) \in Nat \ {0}
  BY FS_CardinalityType, FS_EmptySet DEF RateLimitAssumption
<1>4. ASSUME NEW c \in Caller, pc[c] # "send"
      PROVE  Cardinality(InFlight) <= Cardinality(Caller) - 1
  <2>1. InFlight \in SUBSET (Caller \ {c})
    BY <1>4 DEF InFlight
  <2>2. /\ IsFiniteSet(Caller \ {c})
        /\ Cardinality(Caller \ {c}) = Cardinality(Caller) - 1
    BY FS_RemoveElement DEF RateLimitAssumption
  <2> QED
    BY <2>1, <2>2, FS_Subset
<1> QED
  BY <1>2, <1>3, <1>4

(* A caller that joins the requests in flight makes them one more, one that *)
(* leaves them one less.                                                    *)
LEMMA InFlightChange ==
    ASSUME RateLimitAssumption, NEW c \in Caller
    PROVE  /\ c \notin InFlight /\ InFlight' = InFlight \cup {c} =>
                 Cardinality(InFlight)' = Cardinality(InFlight) + 1
           /\ c \in InFlight /\ InFlight' = InFlight \ {c} =>
                 Cardinality(InFlight)' = Cardinality(InFlight) - 1
<1>1. IsFiniteSet(InFlight)
  BY InFlightBounded
<1> QED
  BY <1>1, FS_AddElement, FS_RemoveElement

(* A caller that leaves RateLimit joins the requests in flight, unless it   *)
(* goes back for its second call.                                           *)
LEMMA ReleaseInFlight ==
    ASSUME RateLimitAssumption, TypeOK, NEW c \in Caller, pc[c] = "check" \/ pc[c] = "reply",
           Release(c)
    PROVE  \/ Cardinality(InFlight)' = Cardinality(InFlight)
           \/ Cardinality(InFlight)' = Cardinality(InFlight) + 1
<1>1. CASE need[c] = 1
  <2>1. pc' = [pc EXCEPT ![c] = "send"]
    BY <1>1 DEF Release
  <2>2. c \notin InFlight
    BY DEF InFlight
  <2>3. InFlight' = InFlight \cup {c}
    BY <2>1 DEF TypeOK, InFlight
  <2> QED
    BY <2>2, <2>3, InFlightChange
<1>2. CASE need[c] # 1
  <2>1. pc' = [pc EXCEPT ![c] = "lock"]
    BY <1>2 DEF Release
  <2>2. InFlight' = InFlight
    BY <2>1 DEF TypeOK, InFlight
  <2> QED
    BY <2>2
<1> QED
  BY <1>1, <1>2

-----------------------------------------------------------------------------
(***************************************************************************)
(* The steps.                                                              *)
(***************************************************************************)

(* The invariant holds at the start.                                        *)
LEMMA InitInv == ASSUME RateLimitAssumption, Init PROVE Inv
<1>1. TypeOK
  BY DEF RateLimitAssumption, Init, TypeOK
<1>2. InFlight = {}
  BY DEF Init, InFlight
<1>3. Cardinality(InFlight) = 0 /\ Cardinality(Caller) \in Nat \ {0}
  BY <1>2, FS_EmptySet, InFlightBounded
<1> QED
  BY <1>1, <1>3 DEF RateLimitAssumption, Init, Inv, NoOvercommit, FewRejected, Slack

(* Callers enter RateLimit one at a time and leave it once.                 *)
LEMMA NextTypeOK ==
    ASSUME RateLimitAssumption, TypeOK, [Next]_vars PROVE TypeOK'
<1> USE DEF RateLimitAssumption, TypeOK
<1>1. ASSUME NEW c \in Caller, Call(c) PROVE TypeOK'
  BY <1>1 DEF Call
<1>2. ASSUME NEW c \in Caller, Acquire(c) PROVE TypeOK'
  BY <1>2 DEF Acquire
<1>3. ASSUME NEW c \in Caller, TakeCached(c) PROVE TypeOK'
  BY <1>3 DEF TakeCached, Release
<1>4. ASSUME NEW c \in Caller, RequestQuota(c) PROVE TypeOK'
  BY <1>4 DEF RequestQuota
<1>5. ASSUME NEW c \in Caller, OtherReply(c) PROVE TypeOK'
  BY <1>5 DEF OtherReply
<1>6. ASSUME NEW c \in Caller, LoadFails(c) PROVE TypeOK'
  BY <1>6 DEF LoadFails, Release
<1>7. ASSUME NEW c \in Caller, LoadQuota(c) PROVE TypeOK'
  BY <1>7 DEF LoadQuota, Release
<1>8. ASSUME NEW c \in Caller, Sleep(c) PROVE TypeOK'
  BY <1>8 DEF Sleep
<1>9. ASSUME NEW c \in Caller, Wake(c) PROVE TypeOK'
  BY <1>9 DEF Wake
<1>10. ASSUME NEW c \in Caller, Send(c) PROVE TypeOK'
  BY <1>10 DEF Send
<1>11. CASE ResetWindow
  BY <1>11 DEF ResetWindow
<1>12. CASE UNCHANGED vars
  BY <1>12 DEF vars
<1> QED
  BY <1>1, <1>2, <1>3, <1>4, <1>5, <1>6, <1>7, <1>8, <1>9, <1>10, <1>11, <1>12
  DEF Next

(* What is counted, sent and refused stays within the quota and the slack.  *)
LEMMA NextInv == ASSUME RateLimitAssumption, Inv, [Next]_vars PROVE Inv'
<1> DEFINE N == Cardinality(InFlight)
           K == Cardinality(Caller)
           Bounded(c) == /\ cached + N + rejected <= quota + (K - 1 + leaked)
                         /\ pc[c] = "reply" /\ reply > 0 =>
                               reply + N + rejected <= quota + (K - 1 + leaked)
                         /\ rejected <= K - 1 + leaked
<1>1. TypeOK /\ TypeOK'
  BY NextTypeOK DEF Inv
<1>2. N \in Nat /\ K \in Nat \ {0}
  BY InFlightBounded
<1>3. \A c \in Caller : Bounded(c)
  BY DEF Inv, NoOvercommit, FewRejected, Slack
<1>4. SUFFICES ASSUME NEW d \in Caller PROVE Bounded(d)'
  BY <1>1, RateLimitAssumption DEF Inv, NoOvercommit, FewRejected, Slack, RateLimitAssumption
<1>5. Bounded(d)
  BY <1>3
<1> USE <1>1, <1>2, <1>5 DEF TypeOK
<1>6. ASSUME NEW c \in Caller, Call(c) PROVE Bounded(d)'
  <2>1. InFlight' = InFlight
    BY <1>6 DEF Call, InFlight
  <2> QED
    BY <1>6, <2>1 DEF Call
<1>7. ASSUME NEW c \in Caller, Acquire(c) PROVE Bounded(d)'
  <2>1. InFlight' = InFlight
    BY <1>7 DEF Acquire, InFlight
  <2> QED
    BY <1>7, <2>1 DEF Acquire
<1>8. ASSUME NEW c \in Caller, TakeCached(c) PROVE Bounded(d)'
  <2>1. N' = N \/ N' = N + 1
    BY <1>8, ReleaseInFlight DEF TakeCached
  <2> QED
    BY <1>8, <2>1 DEF TakeCached, Release
<1>9. ASSUME NEW c \in Caller, RequestQuota(c) PROVE Bounded(d)'
  <2>1. InFlight' = InFlight
    BY <1>9 DEF RequestQuota, InFlight
  <2>2. N <= K - 1
    BY <1>9, InFlightBounded DEF RequestQuota
  <2> QED
    BY <1>9, <2>1, <2>2 DEF RequestQuota
<1>10. ASSUME NEW c \in Caller, OtherReply(c) PROVE Bounded(d)'
  <2>1. InFlight' = InFlight
    BY <1>10 DEF OtherReply, InFlight
  <2> QED
    BY <1>10, <2>1 DEF OtherReply
<1>11. ASSUME NEW c \in Caller, LoadFails(c) PROVE Bounded(d)'
  <2>1. N' = N \/ N' = N + 1
    BY <1>11, ReleaseInFlight DEF LoadFails
  <2> QED
    BY <1>11, <2>1 DEF LoadFails, Release
<1>12. ASSUME NEW c \in Caller, LoadQuota(c) PROVE Bounded(d)'
  <2>1. N' = N \/ N' = N + 1
    BY <1>12, ReleaseInFlight DEF LoadQuota
  <2>2. reply + N + rejected <= quota + (K - 1 + leaked)
    BY <1>3, <1>12 DEF LoadQuota
  <2>3. pc'[d] # "reply"
    BY <1>12 DEF LoadQuota, Release
  <2> QED
    BY <1>12, <2>1, <2>2, <2>3 DEF LoadQuota, Release
<1>13. ASSUME NEW c \in Caller, Sleep(c) PROVE Bounded(d)'
  <2>1. InFlight' = InFlight
    BY <1>13 DEF Sleep, InFlight
  <2> QED
    BY <1>13, <2>1 DEF Sleep
<1>14. ASSUME NEW c \in Caller, Wake(c) PROVE Bounded(d)'
  <2>1. InFlight' = InFlight
    BY <1>14 DEF Wake, InFlight
  <2> QED
    BY <1>14, <2>1 DEF Wake
<1>15. ASSUME NEW c \in Caller, Send(c) PROVE Bounded(d)'
  <2>1. c \in InFlight /\ InFlight' = InFlight \ {c}
    BY <1>15 DEF Send, InFlight
  <2>2. N' = N - 1
    BY <2>1, InFlightChange
  <2>3. N >= 1
    BY <1>2, <2>1, FS_EmptySet, InFlightBounded
  <2> USE <2>2, <2>3
  <2>4. CASE quota > 0
    BY <1>15, <2>4 DEF Send
  <2>5. CASE quota = 0
    BY <1>15, <2>5 DEF Send
  <2> QED
    BY <2>4, <2>5
<1>16. CASE ResetWindow
  <2>1. InFlight' = InFlight
    BY <1>16 DEF ResetWindow, InFlight
  <2> QED
    BY <1>16, <2>1, RateLimitAssumption DEF ResetWindow, RateLimitAssumption
<1>17. CASE UNCHANGED vars
  <2>1. InFlight' = InFlight
    BY <1>17 DEF vars, InFlight
  <2> QED
    BY <1>17, <2>1 DEF vars
<1> QED
  BY <1>6, <1>7, <1>8, <1>9, <1>10, <1>11, <1>12, <1>13, <1>14, <1>15, <1>16,
     <1>17 DEF Next

-----------------------------------------------------------------------------
(***************************************************************************)
(* The theorems.                                                           *)
(***************************************************************************)

(* RateLimit's mutual exclusion, and a counter that never goes below zero.  *)
THEOREM TypeCorrect == Spec => []TypeOK
<1>1. Init => TypeOK
  BY RateLimitAssumption, InitInv DEF Inv
<1>2. TypeOK /\ [Next]_vars => TypeOK'
  BY RateLimitAssumption, NextTypeOK
<1> QED
  BY <1>1, <1>2, PTL DEF Spec

(* However many callers share the Client, what it has counted, sent and had *)
(* refused exceeds GitHub's quota by at most the slack.                     *)
THEOREM QuotaAccounted == Spec => []NoOvercommit
<1>1. Init => Inv
  BY RateLimitAssumption, InitInv
<1>2. Inv /\ [Next]_vars => Inv'
  BY RateLimitAssumption, NextInv
<1>3. Inv => NoOvercommit
  BY DEF Inv
<1> QED
  BY <1>1, <1>2, <1>3, PTL DEF Spec

(* So GitHub refuses at most one request for each other caller and each     *)
(* failed load.                                                             *)
THEOREM NeverOvercommits == Spec => []FewRejected
<1>1. Init => Inv
  BY RateLimitAssumption, InitInv
<1>2. Inv /\ [Next]_vars => Inv'
  BY RateLimitAssumption, NextInv
<1>3. Inv => FewRejected
  BY DEF Inv
<1> QED
  BY <1>1, <1>2, <1>3, PTL DEF Spec

(* An Update that has the Client for itself is refused nothing, unless a    *)
(* load of the quota failed.                                                *)
THEOREM AloneIsNeverRefused ==
    Cardinality(Caller) = 1 => (Spec => [](leaked = 0 => rejected = 0))
<1> SUFFICES ASSUME Cardinality(Caller) = 1
             PROVE  Spec => [](leaked = 0 => rejected = 0)
  OBVIOUS
<1>1. TypeOK /\ FewRejected => (leaked = 0 => rejected = 0)
  BY DEF TypeOK, FewRejected, Slack
<1> QED
  BY <1>1, TypeCorrect, NeverOvercommits, PTL
=============================================================================
