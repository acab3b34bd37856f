------------------------------ MODULE RateLimit ------------------------------
(***************************************************************************)
(* Client.RateLimit of src/api/ratelimit.go: the gate every request to     *)
(* GitHub goes through.  It keeps a copy of the quota GitHub grants,       *)
(* counts it down by one per call, and asks for a new copy when it is used *)
(* up, sleeping while GitHub has none left.  The mutex is held throughout, *)
(* sleep included.  The request itself is sent after RateLimit returned,   *)
(* and whatever error RateLimit returned is ignored by all its callers.    *)
(***************************************************************************)
EXTENDS Naturals, FiniteSets

CONSTANTS
    Caller,     \* the goroutines that share the Client
    Nobody,     \* no caller
    Limit,      \* the requests GitHub grants per window
    MaxLeaked   \* bound: failed loads between two answers of GitHub

ASSUME RateLimitAssumption ==
    /\ IsFiniteSet(Caller)
    /\ Caller # {}
    /\ Nobody \notin Caller
    /\ Limit \in Nat \ {0}
    /\ MaxLeaked \in Nat

VARIABLES
    holder,     \* who has rateLimitMtx
    cached,     \* a.rateLimit.Remaining
    reply,      \* core.Remaining of the holder's last answer
    pc,         \* pc[c]: where c is
    need,       \* need[c]: calls of RateLimit left before c sends
    quota,      \* what GitHub has left in this window
    \* History, since GitHub last told its quota:
    rejected,   \* requests GitHub refused for lack of quota
    leaked      \* calls that returned an error and so counted nothing

vars == <<holder, cached, reply, pc, need, quota, rejected, leaked>>

Init ==
    /\ holder = Nobody
    /\ cached = 0
    /\ reply = 0
    /\ pc = [c \in Caller |-> "idle"]
    /\ need = [c \in Caller |-> 0]
    /\ quota \in 0 .. Limit
    /\ rejected = 0
    /\ leaked = 0

-----------------------------------------------------------------------------
(* c prepares a request.  FetchOrgRepos calls RateLimit twice for its one   *)
(* request, the other functions once.                                       *)
Call(c) ==
    /\ pc[c] = "idle"
    /\ pc' = [pc EXCEPT ![c] = "lock"]
    /\ \E n \in {1, 2} : need' = [need EXCEPT ![c] = n]
    /\ UNCHANGED <<holder, cached, reply, quota, rejected, leaked>>

(* Mutant: the mutex is not taken.                                          *)
AcquireNothing(c) ==
    /\ pc[c] = "lock"
    /\ holder' = c
    /\ pc' = [pc EXCEPT ![c] = "check"]
    /\ UNCHANGED <<cached, reply, need, quota, rejected, leaked>>

Acquire(c) ==
    /\ pc[c] = "lock"
    /\ holder = Nobody
    /\ holder' = c
    /\ pc' = [pc EXCEPT ![c] = "check"]
    /\ UNCHANGED <<cached, reply, need, quota, rejected, leaked>>

(* The deferred Unlock; c goes on to its second call or to its request.     *)
Release(c) ==
    /\ holder' = Nobody
    /\ need' = [need EXCEPT ![c] = @ - 1]
    /\ pc' = [pc EXCEPT ![c] = IF need[c] = 1 THEN "send" ELSE "lock"]

TakeCached(c) ==
    /\ pc[c] = "check"
    /\ cached # 0
    /\ cached' = cached - 1
    /\ Release(c)
    /\ UNCHANGED <<reply, quota, rejected, leaked>>

(* The cache is used up, and GitHub is asked.  Asking is free.              *)
RequestQuota(c) ==
    /\ pc[c] = "check"
    /\ cached = 0
    /\ reply' = quota
    /\ rejected' = 0
    /\ leaked' = 0
    /\ pc' = [pc EXCEPT ![c] = "reply"]
    /\ UNCHANGED <<holder, cached, need, quota>>

(* The answer is a JSON object of another kind, such as an error: without   *)
(* the fields looked for, it decodes to no quota and a reset in 1970.       *)
OtherReply(c) ==
    /\ pc[c] = "check"
    /\ cached = 0
    /\ reply' = 0
    /\ pc' = [pc EXCEPT ![c] = "reply"]
    /\ UNCHANGED <<holder, cached, need, quota, rejected, leaked>>

(* The request fails or its answer does not decode: RateLimit returns the   *)
(* error, nothing is counted, and the caller sends its request.             *)
LoadFails(c) ==
    /\ pc[c] = "check"
    /\ cached = 0
    /\ leaked < MaxLeaked
    /\ leaked' = leaked + 1
    /\ Release(c)
    /\ UNCHANGED <<cached, reply, quota, rejected>>

(* Mutant: the call that loads the quota is not counted itself.             *)
LoadQuotaUncounted(c) ==
    /\ pc[c] = "reply"
    /\ reply # 0
    /\ cached' = reply
    /\ Release(c)
    /\ UNCHANGED <<reply, quota, rejected, leaked>>

LoadQuota(c) ==
    /\ pc[c] = "reply"
    /\ reply # 0
    /\ cached' = reply - 1
    /\ Release(c)
    /\ UNCHANGED <<reply, quota, rejected, leaked>>

Sleep(c) ==
    /\ pc[c] = "reply"
    /\ reply = 0
    /\ pc' = [pc EXCEPT ![c] = "sleep"]
    /\ UNCHANGED <<holder, cached, reply, need, quota, rejected, leaked>>

(* Mutants: the sleeper returns instead of asking again; it looks at the    *)
(* old answer again.                                                        *)
WakeAndReturn(c) ==
    /\ pc[c] = "sleep"
    /\ Release(c)
    /\ UNCHANGED <<cached, reply, quota, rejected, leaked>>

WakeToOldReply(c) ==
    /\ pc[c] = "sleep"
    /\ pc' = [pc EXCEPT ![c] = "reply"]
    /\ UNCHANGED <<holder, cached, reply, need, quota, rejected, leaked>>

(* The sleep is over, by the local clock: GitHub's window need not be.      *)
Wake(c) ==
    /\ pc[c] = "sleep"
    /\ pc' = [pc EXCEPT ![c] = "check"]
    /\ UNCHANGED <<holder, cached, reply, need, quota, rejected, leaked>>

(* The request reaches GitHub.                                              *)
Send(c) ==
    /\ pc[c] = "send"
    /\ pc' = [pc EXCEPT ![c] = "idle"]
    /\ IF quota > 0
       THEN quota' = quota - 1 /\ UNCHANGED rejected
       ELSE rejected' = rejected + 1 /\ UNCHANGED quota
    /\ UNCHANGED <<holder, cached, reply, need, leaked>>

ResetWindow ==
    /\ quota < Limit
    /\ quota' = Limit
    /\ UNCHANGED <<holder, cached, reply, pc, need, rejected, leaked>>

Next ==
    \/ \E c \in Caller :
          \/ Call(c) \/ Acquire(c) \/ TakeCached(c) \/ RequestQuota(c)
          \/ OtherReply(c) \/ LoadFails(c) \/ LoadQuota(c) \/ Sleep(c)
          \/ Wake(c) \/ Send(c)
    \/ ResetWindow

Spec == Init /\ [][Next]_vars

(***************************************************************************)
(* Fairness: a goroutine that can go on does; the mutex is not granted to  *)
(* others for ever while one waits (sync.Mutex hands over in arrival order *)
(* after 1ms); windows end; and GitHub, asked again and again, gives its   *)
(* quota again and again.                                                  *)
(***************************************************************************)
Fairness ==
    /\ \A c \in Caller :
          /\ SF_vars(Acquire(c))
          /\ SF_vars(RequestQuota(c))
          /\ WF_vars(TakeCached(c))
          /\ WF_vars(LoadQuota(c))
          /\ WF_vars(Sleep(c))
          /\ WF_vars(Wake(c))
          /\ WF_vars(Send(c))
    /\ WF_vars(ResetWindow)

FairSpec == Spec /\ Fairness

-----------------------------------------------------------------------------
(***************************************************************************)
(* Properties.                                                             *)
(***************************************************************************)

(* The lock is held by the caller inside RateLimit, and by nobody else.     *)
TypeOK ==
    /\ holder \in Caller \cup {Nobody}
    /\ cached \in Nat
    /\ reply \in Nat
    /\ pc \in [Caller -> {"idle", "lock", "check", "reply", "sleep", "send"}]
    /\ \A c \in Caller : pc[c] \in {"check", "reply", "sleep"} <=> holder = c
    /\ need \in [Caller -> 0 .. 2]
    /\ \A c \in Caller : pc[c] \notin {"idle", "send"} => need[c] \in {1, 2}
    /\ quota \in 0 .. Limit
    /\ rejected \in Nat
    /\ leaked \in 0 .. MaxLeaked

InFlight == {c \in Caller : pc[c] = "send"}

(* The most that the tracker may ask of GitHub beyond what GitHub granted:  *)
(* what the other callers had in flight when the quota was read, and the    *)
(* calls that failed.                                                       *)
Slack == Cardinality(Caller) - 1 + leaked

(* The requests counted but not yet sent, those that can still be counted   *)
(* (the cache, or the answer about to become the cache) and those refused   *)
(* exceed GitHub's quota by no more than that.                              *)
NoOvercommit ==
    /\ cached + Cardinality(InFlight) + rejected <= quota + Slack
    /\ \A c \in Caller : pc[c] = "reply" /\ reply > 0 =>
          reply + Cardinality(InFlight) + rejected <= quota + Slack

(* GitHub refuses no more requests than that between two answers it gives   *)
(* about its quota: one Update alone is never refused.                      *)
FewRejected == rejected <= Slack

(* A caller that waits for the mutex gets to send its request: no window    *)
(* without quota, sleeping holder or failed load blocks it for ever.        *)
CallerProceeds == \A c \in Caller : pc[c] = "lock" ~> pc[c] = "send"
=============================================================================
