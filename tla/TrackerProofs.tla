---------------------------- MODULE TrackerProofs ----------------------------
(***************************************************************************)
(* The throttle, the two counters and the database handle, for any number  *)
(* of connections, listeners and signals and any threshold.                *)
(*                                                                         *)
(* ThrottleHolds is not inductive: the handlers let through were compared  *)
(* with the counter one by one, and it counts others as well.  Ranked says *)
(* what their comparisons are worth together: of any set of handlers       *)
(* counted, the last one to enter saw a counter at least as high as the    *)
(* set is large.  It needs that the counter is exact, SlotsAccounted.      *)
(*                                                                         *)
(* For RunningMethodsHaveDB, EarlyDone says that the handlers Stop waits   *)
(* for cannot come back (the listeners are closed and they were within the *)
(* threshold, so their connections are not kept) and are through when Wait *)
(* is released, and StartInv where the handle is open.                     *)
(***************************************************************************)
EXTENDS KeyPairProofs, FiniteSetTheorems

Handling == [pc : {"none", "accepted", "entered", "inside",
                   "method", "done", "leaving"},
             current : Nat]
CountedAt == {"entered", "inside", "method", "done", "leaving"}
AdmittedAt == {"inside", "method", "done"}

Ranked ==
    \A S \in SUBSET Counted :
        S # {} => \E c \in S : conn[c].current >= Cardinality(S)

AdmittedWithin == \A c \in Admitted : conn[c].current <= Threshold

EarlyDone ==
    /\ stop \in {"waiting", "released", "returned", "panicked"} => listening = {}
    /\ stop \in {"no", "closing"} => early = {}
    /\ \A c \in early : conn[c].pc \notin {"accepted", "entered"}
    /\ \A c \in early : conn[c].pc = "leaving" => conn[c].current <= Threshold
    /\ stop \in {"released", "returned", "panicked"} =>
          \A c \in early : conn[c].pc \notin AdmittedAt

Starting == {"config", "rotator", "validate", "api", "database", "setup", "rpc"}

StartInv ==
    /\ main \in Starting => serving = {} /\ listening = {}
    /\ main \in Starting \cup {"serving"} => stop = "no"
    /\ main \in {"setup", "rpc", "serving"} => db = "open"
    /\ main = "stopping" /\ stop \notin {"returned", "panicked"} => db = "open"
    /\ early # {} => db = "open" \/ stop \in {"returned", "panicked"}

RPCInv == RPCTypeOK /\ SlotsAccounted /\ Ranked /\ AdmittedWithin /\ EarlyDone

Inv == TypeOK /\ RPCInv /\ StartInv

-----------------------------------------------------------------------------
(* The sets of handlers and goroutines counted are finite.                  *)
LEMMA CountedFinite ==
    ASSUME RPCServerAssumption
    PROVE  /\ IsFiniteSet(Counted) /\ Cardinality(Counted) \in Nat
           /\ IsFiniteSet(Admitted) /\ Cardinality(Admitted) \in Nat
           /\ \A S \in SUBSET Listener :
                 IsFiniteSet(S) /\ Cardinality(S) \in Nat
<1>1. Counted \subseteq Conn /\ Admitted \subseteq Conn
  BY DEF Counted, Admitted
<1>2. IsFiniteSet(Counted) /\ IsFiniteSet(Admitted)
  BY <1>1, FS_Subset DEF RPCServerAssumption
<1>3. \A S \in SUBSET Listener : IsFiniteSet(S)
  BY FS_Subset DEF RPCServerAssumption
<1> QED
  BY <1>2, <1>3, FS_CardinalityType

(* What a step of one handler does to the sets.                             *)
LEMMA ConnChange ==
    ASSUME conn \in [Conn -> Handling], NEW c \in Conn, NEW k \in Handling,
           conn' = [conn EXCEPT ![c] = k]
    PROVE  /\ conn' \in [Conn -> Handling]
           /\ conn'[c] = k
           /\ \A d \in Conn \ {c} : conn'[d] = conn[d]
           /\ Counted' = IF k.pc \in CountedAt THEN Counted \cup {c} ELSE Counted \ {c}
           /\ Admitted' = IF k.pc \in AdmittedAt THEN Admitted \cup {c} ELSE Admitted \ {c}
<1>1. /\ conn' \in [Conn -> Handling]
      /\ conn'[c] = k
      /\ \A d \in Conn \ {c} : conn'[d] = conn[d]
  OBVIOUS
<1>2. \A d \in Conn : d \in Counted' <=> conn'[d].pc \in CountedAt
  BY DEF Counted, CountedAt
<1>3. \A d \in Conn : d \in Admitted' <=> conn'[d].pc \in AdmittedAt
  BY DEF Admitted, AdmittedAt
<1>4. \A d \in Conn : d \in Counted <=> conn[d].pc \in CountedAt
  BY DEF Counted, CountedAt
<1>5. \A d \in Conn : d \in Admitted <=> conn[d].pc \in AdmittedAt
  BY DEF Admitted, AdmittedAt
<1>6. Counted \subseteq Conn /\ Admitted \subseteq Conn
      /\ Counted' \subseteq Conn /\ Admitted' \subseteq Conn
  BY DEF Counted, Admitted
<1>7. Counted' = IF k.pc \in CountedAt THEN Counted \cup {c} ELSE Counted \ {c}
  BY <1>1, <1>2, <1>4, <1>6
<1>8. Admitted' = IF k.pc \in AdmittedAt THEN Admitted \cup {c} ELSE Admitted \ {c}
  BY <1>1, <1>3, <1>5, <1>6
<1> QED
  BY <1>1, <1>7, <1>8

(* Ranked stays when no handler is added.                                   *)
LEMMA RankedKept ==
    ASSUME Ranked, Counted' \subseteq Counted,
           \A d \in Counted' : conn'[d].current = conn[d].current
    PROVE  Ranked'
<1> SUFFICES ASSUME NEW S \in SUBSET Counted', S # {}
             PROVE  \E c \in S : conn'[c].current >= Cardinality(S)
  BY DEF Ranked
<1>1. PICK c \in S : conn[c].current >= Cardinality(S)
  BY DEF Ranked
<1> QED
  BY <1>1

(* And when one is that sees how many there are with it.                    *)
LEMMA RankedJoin ==
    ASSUME Ranked, IsFiniteSet(Counted'), NEW c \in Conn,
           Counted' = Counted \cup {c},
           conn'[c].current = Cardinality(Counted'),
           \A d \in Counted \ {c} : conn'[d].current = conn[d].current
    PROVE  Ranked'
<1> SUFFICES ASSUME NEW S \in SUBSET Counted', S # {}
             PROVE  \E d \in S : conn'[d].current >= Cardinality(S)
  BY DEF Ranked
<1>1. CASE c \in S
  <2>1. /\ IsFiniteSet(S) /\ Cardinality(S) <= Cardinality(Counted')
    BY FS_Subset
  <2>2. Cardinality(S) \in Nat /\ Cardinality(Counted') \in Nat
    BY <2>1, FS_CardinalityType
  <2>3. conn'[c].current >= Cardinality(S)
    BY <2>1, <2>2
  <2> QED
    BY <1>1, <2>3
<1>2. CASE c \notin S
  <2>1. S \in SUBSET Counted
    BY <1>2
  <2>2. PICK d \in S : conn[d].current >= Cardinality(S)
    BY <2>1 DEF Ranked
  <2>3. conn'[d].current = conn[d].current
    BY <1>2, <2>1
  <2> QED
    BY <2>2, <2>3
<1> QED
  BY <1>1, <1>2

(* The handlers let through are some of those counted, and each saw a       *)
(* counter within the threshold.                                            *)
LEMMA ThrottleFollows ==
    ASSUME RPCServerAssumption, RPCInv
    PROVE  ThrottleHolds
<1>1. Admitted \in SUBSET Counted
  BY DEF Admitted, Counted
<1>2. CASE Admitted = {}
  BY <1>2, FS_EmptySet DEF ThrottleHolds, RPCServerAssumption
<1>3. CASE Admitted # {}
  <2>1. PICK c \in Admitted : conn[c].current >= Cardinality(Admitted)
    BY <1>1, <1>3 DEF RPCInv, Ranked
  <2>2. conn[c].current <= Threshold
    BY DEF RPCInv, AdmittedWithin
  <2>3. conn[c].current \in Nat /\ Cardinality(Admitted) \in Nat /\ Threshold \in Nat
    BY CountedFinite DEF RPCInv, RPCTypeOK, RPCServerAssumption, Admitted
  <2> QED
    BY <2>1, <2>2, <2>3 DEF ThrottleHolds
<1> QED
  BY <1>2, <1>3

-----------------------------------------------------------------------------
(* A handler that moves on keeps its "current" and is counted; whether it   *)
(* has been let through is a matter of its position.                        *)
At(c, p) == [pc |-> p, current |-> conn[c].current]

(* What a move does to the sets.                                            *)
LEMMA PcStep ==
    ASSUME conn \in [Conn -> Handling], NEW c \in Conn, NEW p \in CountedAt,
           conn' = [conn EXCEPT ![c].pc = p]
    PROVE  /\ At(c, p) \in Handling /\ conn' = [conn EXCEPT ![c] = At(c, p)]
           /\ At(c, p).pc = p /\ At(c, p).current = conn[c].current
           /\ conn' \in [Conn -> Handling]
           /\ Counted' = Counted \cup {c}
           /\ Admitted' = IF p \in AdmittedAt THEN Admitted \cup {c} ELSE Admitted \ {c}
<1>1. PICK q, n : conn[c] = [pc |-> q, current |-> n]
  BY DEF Handling
<1>2. [conn[c] EXCEPT !.pc = p] = [pc |-> p, current |-> n]
  BY <1>1
<1>3. conn' = [conn EXCEPT ![c] = At(c, p)]
  BY <1>1, <1>2 DEF At
<1>4. At(c, p) \in Handling
  BY DEF At, Handling, CountedAt
<1>5. At(c, p).pc = p /\ At(c, p).current = conn[c].current
  BY DEF At
<1>6. /\ conn' \in [Conn -> Handling]
      /\ Counted' = IF At(c, p).pc \in CountedAt THEN Counted \cup {c} ELSE Counted \ {c}
      /\ Admitted' = IF At(c, p).pc \in AdmittedAt THEN Admitted \cup {c} ELSE Admitted \ {c}
  BY <1>3, <1>4, ConnChange
<1> QED
  BY <1>3, <1>4, <1>5, <1>6

(* The parts of the invariant that no counter enters into, for a step of a  *)
(* handler that is not let in anew.                                         *)
LEMMA HandlerMoves ==
    ASSUME RPCInv, NEW c \in Conn, NEW k \in Handling,
           conn' = [conn EXCEPT ![c] = k],
           k.pc \in CountedAt => c \in Counted /\ k.current = conn[c].current,
           k.pc \in AdmittedAt => k.current <= Threshold,
           c \in early => /\ k.pc \notin {"accepted", "entered"}
                          /\ k.pc = "leaving" => k.current <= Threshold
                          /\ k.pc \in AdmittedAt => conn[c].pc \in AdmittedAt,
           UNCHANGED <<listening, early>>,
           stop' = stop \/ (stop = "waiting" /\ stop' = "released" /\ Admitted' = {})
    PROVE  Ranked' /\ AdmittedWithin' /\ EarlyDone'
<1>0. conn \in [Conn -> Handling] /\ early \subseteq Conn
  BY DEF RPCInv, RPCTypeOK, Handling
<1>1. /\ conn'[c] = k
      /\ \A d \in Conn \ {c} : conn'[d] = conn[d]
      /\ Counted' = IF k.pc \in CountedAt THEN Counted \cup {c} ELSE Counted \ {c}
      /\ Admitted' = IF k.pc \in AdmittedAt THEN Admitted \cup {c} ELSE Admitted \ {c}
  BY <1>0, ConnChange
<1>2. Counted \subseteq Conn /\ Admitted \subseteq Conn
  BY DEF Counted, Admitted
<1>3. Ranked'
  <2>1. Counted' \subseteq Counted
    BY <1>1
  <2>2. \A d \in Counted' : conn'[d].current = conn[d].current
    BY <1>1, <1>2
  <2> QED
    BY <2>1, <2>2, RankedKept DEF RPCInv
<1>4. AdmittedWithin'
  <2> SUFFICES ASSUME NEW d \in Admitted'
               PROVE  conn'[d].current <= Threshold
    BY DEF AdmittedWithin
  <2>1. CASE d = c
    BY <1>1, <2>1
  <2>2. CASE d # c
    BY <1>1, <1>2, <2>2 DEF RPCInv, AdmittedWithin
  <2> QED
    BY <2>1, <2>2
<1>5. EarlyDone'
  <2>1. /\ stop' \in {"waiting", "released", "returned", "panicked"} => listening' = {}
        /\ stop' \in {"no", "closing"} => early' = {}
    BY DEF RPCInv, EarlyDone
  <2>2. \A d \in early : conn'[d].pc \notin {"accepted", "entered"}
    BY <1>0, <1>1 DEF RPCInv, EarlyDone
  <2>3. \A d \in early : conn'[d].pc = "leaving" => conn'[d].current <= Threshold
    BY <1>0, <1>1 DEF RPCInv, EarlyDone
  <2>4. ASSUME stop' \in {"released", "returned", "panicked"}, NEW d \in early
        PROVE  conn'[d].pc \notin AdmittedAt
    <3>1. CASE stop' = stop
      <4>1. conn[d].pc \notin AdmittedAt
        BY <2>4, <3>1 DEF RPCInv, EarlyDone
      <4> QED
        BY <1>0, <1>1, <4>1
    <3>2. CASE Admitted' = {}
      BY <1>0, <3>2 DEF Admitted, AdmittedAt
    <3> QED
      BY <3>1, <3>2
  <2> QED
    BY <2>1, <2>2, <2>3, <2>4 DEF EarlyDone
<1> QED
  BY <1>3, <1>4, <1>5

(* A handler's own steps.  The deferred calls give back what Admit and      *)
(* Request took; the others leave the counters and the sets alone.          *)
LEMMA HandlerKeeps ==
    ASSUME RPCServerAssumption, RPCInv, NEW c \in Conn, HandlerAlone(c) \/ HandlerWaits(c)
    PROVE  RPCInv'
<1>1. /\ conn \in [Conn -> Handling] /\ early \subseteq Conn
      /\ conn[c].current \in Nat /\ conn[c].pc \in {"none"} \cup {"accepted"} \cup CountedAt
      /\ active \in Nat /\ wg \in Nat
  BY DEF RPCInv, RPCTypeOK, Handling, CountedAt
<1>2. /\ c \in Counted <=> conn[c].pc \in CountedAt
      /\ c \in Admitted <=> conn[c].pc \in AdmittedAt
  BY DEF Counted, Admitted, CountedAt, AdmittedAt
<1>3. /\ IsFiniteSet(Counted) /\ Cardinality(Counted) \in Nat
      /\ IsFiniteSet(Admitted) /\ Cardinality(Admitted) \in Nat
      /\ IsFiniteSet(serving) /\ Cardinality(serving) \in Nat
  BY CountedFinite DEF RPCInv, RPCTypeOK
<1>4. /\ active = Cardinality(Counted)
      /\ wg = Cardinality(serving) + Cardinality(Admitted)
  BY DEF RPCInv, SlotsAccounted
<1>5. c \in early => conn[c].pc # "entered"
  BY DEF RPCInv, EarlyDone
<1>6. c \in Admitted => conn[c].current <= Threshold
  BY DEF RPCInv, AdmittedWithin
<1>7. c \in early /\ conn[c].pc = "leaving" => conn[c].current <= Threshold
  BY DEF RPCInv, EarlyDone
<1>a. CASE TurnAway(c)
  <2>1. conn' = [conn EXCEPT ![c].pc = "leaving"] /\ "leaving" \in CountedAt
    BY <1>a DEF TurnAway, CountedAt
  <2>2. /\ At(c, "leaving") \in Handling /\ conn' = [conn EXCEPT ![c] = At(c, "leaving")]
        /\ At(c, "leaving").pc = "leaving" /\ At(c, "leaving").current = conn[c].current
        /\ conn' \in [Conn -> Handling]
        /\ Counted' = Counted \cup {c}
        /\ Admitted' = IF "leaving" \in AdmittedAt THEN Admitted \cup {c} ELSE Admitted \ {c}
    BY <1>1, <2>1, PcStep
  <2>3. conn[c].pc = "entered"
    BY <1>a DEF TurnAway
  <2>4. conn' \in [Conn -> Handling] /\ Counted' = Counted /\ Admitted' = Admitted
    BY <1>2, <2>1, <2>2, <2>3 DEF CountedAt, AdmittedAt
  <2>5. Ranked' /\ AdmittedWithin' /\ EarlyDone'
    BY <1>2, <1>5, <2>1, <2>2, <2>3, <1>a, HandlerMoves DEF TurnAway, CountedAt, AdmittedAt
  <2> QED
    BY <2>4, <2>5, <1>a DEF TurnAway, RPCInv, RPCTypeOK, SlotsAccounted, Handling
<1>b. CASE Admit(c)
  <2>1. conn' = [conn EXCEPT ![c].pc = "inside"] /\ "inside" \in CountedAt
    BY <1>b DEF Admit, CountedAt
  <2>2. /\ At(c, "inside") \in Handling /\ conn' = [conn EXCEPT ![c] = At(c, "inside")]
        /\ At(c, "inside").pc = "inside" /\ At(c, "inside").current = conn[c].current
        /\ conn' \in [Conn -> Handling]
        /\ Counted' = Counted \cup {c}
        /\ Admitted' = IF "inside" \in AdmittedAt THEN Admitted \cup {c} ELSE Admitted \ {c}
    BY <1>1, <2>1, PcStep
  <2>3. conn[c].pc = "entered" /\ conn[c].current <= Threshold
    BY <1>1, <1>b DEF Admit, TooMany, RPCServerAssumption
  <2>4. conn' \in [Conn -> Handling] /\ Counted' = Counted /\ Admitted' = Admitted \cup {c}
    BY <1>2, <2>1, <2>2, <2>3 DEF CountedAt, AdmittedAt
  <2>5. Ranked' /\ AdmittedWithin' /\ EarlyDone'
    BY <1>2, <1>5, <2>1, <2>2, <2>3, <1>b, HandlerMoves DEF Admit, CountedAt, AdmittedAt
  <2>6. Cardinality(Admitted') = Cardinality(Admitted) + 1
    BY <1>2, <1>3, <2>3, <2>4, FS_AddElement DEF AdmittedAt
  <2>7. SlotsAccounted' /\ wg' \in Nat
    BY <1>1, <1>3, <1>4, <2>4, <2>6, <1>b DEF Admit, SlotsAccounted
  <2> QED
    BY <2>4, <2>5, <2>7, <1>b DEF Admit, RPCInv, RPCTypeOK, Handling
<1>c. CASE InvalidRequest(c) \/ CallMethod(c) \/ MethodEnds(c)
  <2>0. PICK p \in {"method", "done"} : conn' = [conn EXCEPT ![c].pc = p]
    BY <1>c DEF InvalidRequest, CallMethod, MethodEnds
  <2>1. p \in CountedAt /\ p \in AdmittedAt
    BY DEF CountedAt, AdmittedAt
  <2>2. /\ At(c, p) \in Handling /\ conn' = [conn EXCEPT ![c] = At(c, p)]
        /\ At(c, p).pc = p /\ At(c, p).current = conn[c].current
        /\ conn' \in [Conn -> Handling]
        /\ Counted' = Counted \cup {c}
        /\ Admitted' = IF p \in AdmittedAt THEN Admitted \cup {c} ELSE Admitted \ {c}
    BY <1>1, <2>0, <2>1, PcStep
  <2>3. /\ conn[c].pc \in {"inside", "method"}
        /\ UNCHANGED <<listening, serving, active, wg, stop, early>>
    BY <1>c DEF InvalidRequest, CallMethod, MethodEnds
  <2>4. conn' \in [Conn -> Handling] /\ Counted' = Counted /\ Admitted' = Admitted
    BY <1>2, <2>1, <2>2, <2>3 DEF CountedAt, AdmittedAt
  <2>5. Ranked' /\ AdmittedWithin' /\ EarlyDone'
    <3>1. c \in Counted /\ c \in Admitted
      BY <1>2, <2>3 DEF CountedAt, AdmittedAt
    <3> QED
      BY <1>6, <2>0, <2>2, <2>3, <3>1, HandlerMoves DEF AdmittedAt
  <2> QED
    BY <2>3, <2>4, <2>5 DEF RPCInv, RPCTypeOK, SlotsAccounted, Handling
<1>d. CASE Done(c)
  <2>1. conn' = [conn EXCEPT ![c].pc = "leaving"] /\ "leaving" \in CountedAt
    BY <1>d DEF Done, CountedAt
  <2>2. /\ At(c, "leaving") \in Handling /\ conn' = [conn EXCEPT ![c] = At(c, "leaving")]
        /\ At(c, "leaving").pc = "leaving" /\ At(c, "leaving").current = conn[c].current
        /\ conn' \in [Conn -> Handling]
        /\ Counted' = Counted \cup {c}
        /\ Admitted' = IF "leaving" \in AdmittedAt THEN Admitted \cup {c} ELSE Admitted \ {c}
    BY <1>1, <2>1, PcStep
  <2>3. conn[c].pc = "done"
    BY <1>d DEF Done
  <2>4. conn' \in [Conn -> Handling] /\ Counted' = Counted /\ Admitted' = Admitted \ {c}
    BY <1>2, <2>1, <2>2, <2>3 DEF CountedAt, AdmittedAt
  <2>6. Cardinality(Admitted') = Cardinality(Admitted) - 1
    BY <1>2, <1>3, <2>3, <2>4, FS_RemoveElement DEF AdmittedAt
  <2>7. /\ IsFiniteSet(Admitted') /\ Cardinality(Admitted') \in Nat
    BY <1>3, <2>4, FS_RemoveElement, FS_CardinalityType
  <2>8. SlotsAccounted' /\ wg' \in Nat
    BY <1>1, <1>3, <1>4, <2>4, <2>6, <2>7, <1>d DEF Done, WgDone, SlotsAccounted
  <2>9. stop' = stop \/ (stop = "waiting" /\ stop' = "released" /\ Admitted' = {})
    <3>1. wg = 1 => Admitted' = {}
      <4> HAVE wg = 1
      <4>1. Cardinality(Admitted') = 0
        BY <1>3, <1>4, <2>6, <2>7
      <4> QED
        BY <2>7, <4>1, FS_EmptySet
    <3> QED
      BY <3>1, <1>d DEF Done, WgDone
  <2>11. conn[c].current <= Threshold
    BY <1>2, <1>6, <2>3 DEF AdmittedAt
  <2>5. Ranked' /\ AdmittedWithin' /\ EarlyDone'
    BY <1>2, <2>1, <2>2, <2>3, <2>9, <2>11, <1>d, HandlerMoves
       DEF Done, CountedAt, AdmittedAt
  <2>10. stop' \in {"no", "closing", "waiting", "released", "returned", "panicked"}
    BY <2>9 DEF RPCInv, RPCTypeOK
  <2> QED
    BY <2>4, <2>5, <2>8, <2>10, <1>d DEF Done, RPCInv, RPCTypeOK, Handling
<1>e. CASE Leave(c)
  <2>1. PICK k \in Handling : /\ conn' = [conn EXCEPT ![c] = k]
                              /\ k.pc = "none" \/ (k.pc = "accepted" /\ TooMany(c))
    <3>1. NoConn \in Handling /\ NoConn.pc = "none"
      BY DEF NoConn, Handling
    <3>2. Waiting \in Handling /\ Waiting.pc = "accepted"
      BY DEF Waiting, Handling
    <3>3. conn' = [conn EXCEPT ![c] = IF TooMany(c) THEN Waiting ELSE NoConn]
      BY <1>e DEF Leave
    <3>4. CASE TooMany(c)
      BY <3>2, <3>3, <3>4
    <3>5. CASE ~TooMany(c)
      BY <3>1, <3>3, <3>5
    <3> QED
      BY <3>4, <3>5
  <2>2. conn[c].pc = "leaving"
    BY <1>e DEF Leave
  <2>3. c \in early => k.pc = "none"
    BY <1>1, <1>7, <2>1, <2>2 DEF TooMany, RPCServerAssumption
  <2>4. conn' \in [Conn -> Handling] /\ Counted' = Counted \ {c} /\ Admitted' = Admitted
    <3>1. /\ conn' \in [Conn -> Handling]
          /\ Counted' = IF k.pc \in CountedAt THEN Counted \cup {c} ELSE Counted \ {c}
          /\ Admitted' = IF k.pc \in AdmittedAt THEN Admitted \cup {c} ELSE Admitted \ {c}
      BY <1>1, <2>1, ConnChange
    <3>2. k.pc \notin CountedAt /\ k.pc \notin AdmittedAt /\ c \notin Admitted
      BY <1>2, <2>1, <2>2 DEF CountedAt, AdmittedAt
    <3> QED
      BY <3>1, <3>2
  <2>5. Ranked' /\ AdmittedWithin' /\ EarlyDone'
    <3>1. k.pc \notin CountedAt /\ k.pc \notin AdmittedAt /\ k.pc # "leaving"
      BY <2>1 DEF CountedAt, AdmittedAt
    <3>2. UNCHANGED <<listening, stop, early>>
      BY <1>e DEF Leave
    <3> QED
      BY <2>1, <2>3, <3>1, <3>2, HandlerMoves
  <2>6. Cardinality(Counted') = Cardinality(Counted) - 1
    BY <1>2, <1>3, <2>2, <2>4, FS_RemoveElement DEF CountedAt
  <2>7. IsFiniteSet(Counted') /\ Cardinality(Counted') \in Nat
    BY <1>3, <2>4, FS_RemoveElement, FS_CardinalityType
  <2>8. SlotsAccounted' /\ active' \in Nat
    BY <1>1, <1>3, <1>4, <2>4, <2>6, <2>7, <1>e DEF Leave, SlotsAccounted
  <2> QED
    BY <2>4, <2>5, <2>8, <1>e DEF Leave, RPCInv, RPCTypeOK, Handling
<1> QED
  BY <1>a, <1>b, <1>c, <1>d, <1>e DEF HandlerAlone, HandlerWaits

(* What clients do: a handler that enters sees the counter with itself.     *)
LEMMA ClientKeeps ==
    ASSUME RPCServerAssumption, RPCInv, NEW c \in Conn,
           Accept(c) \/ Hangup(c) \/ Request(c)
    PROVE  RPCInv'
<1>1. /\ conn \in [Conn -> Handling] /\ early \subseteq Conn
      /\ active \in Nat /\ active = Cardinality(Counted)
      /\ IsFiniteSet(Counted)
  BY CountedFinite DEF RPCInv, RPCTypeOK, SlotsAccounted, Handling
<1>2. /\ conn[c].pc \in {"none", "accepted"} /\ c \notin Counted /\ c \notin Admitted
      /\ UNCHANGED <<listening, serving, wg, stop, early>>
  BY DEF Accept, Hangup, Request, Counted, Admitted
<1>3. CASE Accept(c) \/ Hangup(c)
  <2>1. PICK k \in Handling : /\ conn' = [conn EXCEPT ![c] = k]
                              /\ k.pc = "none" \/ (k.pc = "accepted" /\ early = {})
    <3>1. CASE Accept(c)
      <4>1. conn' = [conn EXCEPT ![c] = Waiting]
        BY <3>1 DEF Accept
      <4>2. Waiting \in Handling /\ Waiting.pc = "accepted"
        BY DEF Waiting, Handling
      <4>3. early = {}
        BY <3>1 DEF Accept, RPCInv, RPCTypeOK, EarlyDone
      <4> QED
        BY <4>1, <4>2, <4>3
    <3>2. CASE Hangup(c)
      <4>1. conn' = [conn EXCEPT ![c] = NoConn]
        BY <3>2 DEF Hangup
      <4>2. NoConn \in Handling /\ NoConn.pc = "none"
        BY DEF NoConn, Handling
      <4> QED
        BY <4>1, <4>2
    <3> QED
      BY <1>3, <3>1, <3>2
  <2>2. k.pc \notin CountedAt /\ k.pc \notin AdmittedAt
    BY <2>1 DEF CountedAt, AdmittedAt
  <2>3. conn' \in [Conn -> Handling] /\ Counted' = Counted /\ Admitted' = Admitted
    <3>1. /\ conn' \in [Conn -> Handling]
          /\ Counted' = IF k.pc \in CountedAt THEN Counted \cup {c} ELSE Counted \ {c}
          /\ Admitted' = IF k.pc \in AdmittedAt THEN Admitted \cup {c} ELSE Admitted \ {c}
      BY <1>1, <2>1, ConnChange
    <3> QED
      BY <1>2, <2>2, <3>1
  <2>4. /\ c \in early => k.pc \notin {"accepted", "entered"}
        /\ k.pc # "leaving"
    BY <2>1
  <2>5. Ranked' /\ AdmittedWithin' /\ EarlyDone'
    BY <1>2, <2>1, <2>2, <2>4, HandlerMoves
  <2>6. active' = active
    BY <1>3 DEF Accept, Hangup
  <2> QED
    BY <1>2, <2>3, <2>5, <2>6 DEF RPCInv, RPCTypeOK, SlotsAccounted, Handling
<1>4. CASE Request(c)
  <2> DEFINE k == [pc |-> "entered", current |-> active + 1]
  <2>1. /\ active' = active + 1 /\ conn[c].pc = "accepted"
        /\ conn' = [conn EXCEPT ![c] = k]
    BY <1>4 DEF Request
  <2>2. /\ k \in Handling /\ k.pc = "entered" /\ k.current = active + 1
        /\ k.pc \in CountedAt /\ k.pc \notin AdmittedAt
    BY <1>1 DEF Handling, CountedAt, AdmittedAt
  <2> HIDE DEF k
  <2>3. /\ conn' \in [Conn -> Handling]
        /\ conn'[c] = k
        /\ \A d \in Conn \ {c} : conn'[d] = conn[d]
        /\ Counted' = IF k.pc \in CountedAt THEN Counted \cup {c} ELSE Counted \ {c}
        /\ Admitted' = IF k.pc \in AdmittedAt THEN Admitted \cup {c} ELSE Admitted \ {c}
    BY <1>1, <2>1, <2>2, ConnChange
  <2>4. Counted' = Counted \cup {c} /\ Admitted' = Admitted
    BY <1>2, <2>2, <2>3
  <2>5. IsFiniteSet(Counted') /\ Cardinality(Counted') = active + 1
    BY <1>1, <1>2, <2>4, FS_AddElement
  <2>6. Counted \subseteq Conn /\ Admitted \subseteq Conn
    BY DEF Counted, Admitted
  <2>7. Ranked'
    <3>1. \A d \in Counted \ {c} : conn'[d].current = conn[d].current
      BY <2>3, <2>6
    <3>2. conn'[c].current = Cardinality(Counted')
      BY <2>2, <2>3, <2>5
    <3> QED
      BY <2>4, <2>5, <3>1, <3>2, RankedJoin DEF RPCInv
  <2>8. AdmittedWithin'
    BY <1>2, <2>3, <2>4, <2>6 DEF RPCInv, AdmittedWithin
  <2>9. EarlyDone'
    <3>1. c \notin early
      BY <2>1 DEF RPCInv, EarlyDone
    <3>2. \A d \in early : conn'[d] = conn[d]
      BY <1>1, <2>3, <3>1
    <3> QED
      BY <1>2, <3>2 DEF RPCInv, EarlyDone
  <2>10. SlotsAccounted'
    BY <1>2, <2>1, <2>4, <2>5 DEF RPCInv, SlotsAccounted
  <2>11. RPCTypeOK'
    <3>1. active' \in Nat
      BY <1>1, <2>1
    <3> QED
      BY <1>2, <2>3, <3>1 DEF RPCInv, RPCTypeOK, Handling
  <2> QED
    BY <2>7, <2>8, <2>9, <2>10, <2>11 DEF RPCInv
<1> QED
  BY <1>3, <1>4

(* The goroutine of a listener ends.                                        *)
LEMMA ServeKeeps ==
    ASSUME RPCServerAssumption, RPCInv, NEW l \in Listener, ServeReturns(l)
    PROVE  RPCInv'
<1>1. /\ serving' = serving \ {l} /\ l \in serving /\ l \notin listening
      /\ UNCHANGED <<listening, conn, active, early>>
      /\ WgDone
  BY DEF ServeReturns
<1>2. Counted' = Counted /\ Admitted' = Admitted
  BY <1>1 DEF Counted, Admitted
<1>3. /\ IsFiniteSet(serving) /\ Cardinality(serving) \in Nat
      /\ IsFiniteSet(Admitted) /\ Cardinality(Admitted) \in Nat
      /\ wg = Cardinality(serving) + Cardinality(Admitted)
  BY CountedFinite DEF RPCInv, RPCTypeOK, SlotsAccounted
<1>4. Cardinality(serving') = Cardinality(serving) - 1 /\ Cardinality(serving') \in Nat
  BY <1>1, <1>3, FS_RemoveElement, FS_CardinalityType
<1>5. SlotsAccounted' /\ wg' \in Nat
  BY <1>1, <1>2, <1>3, <1>4 DEF RPCInv, SlotsAccounted, WgDone
<1>6. stop' = stop \/ (stop = "waiting" /\ stop' = "released" /\ Admitted = {})
  <2>1. wg = 1 => Admitted = {}
    BY <1>3, <1>4, FS_EmptySet
  <2> QED
    BY <1>1, <2>1 DEF WgDone
<1>7. Ranked' /\ AdmittedWithin'
  BY <1>1, <1>2 DEF RPCInv, Ranked, AdmittedWithin
<1>8. EarlyDone'
  <2>1. Admitted = {} => \A c \in early : conn[c].pc \notin AdmittedAt
    BY DEF RPCInv, RPCTypeOK, Admitted, AdmittedAt
  <2> QED
    BY <1>1, <1>6, <2>1 DEF RPCInv, EarlyDone
<1> QED
  BY <1>1, <1>5, <1>6, <1>7, <1>8 DEF RPCInv, RPCTypeOK

(* Stop: those it waits for have come in while the listeners were open.     *)
LEMMA StopKeeps ==
    ASSUME RPCServerAssumption, RPCInv, StopStep
    PROVE  RPCInv'
<1>1. /\ UNCHANGED <<serving, conn, active, wg>>
      /\ Counted' = Counted /\ Admitted' = Admitted
  BY DEF StopStep, CloseListener, Wait, WaitReturns, Counted, Admitted
<1>2. Ranked' /\ AdmittedWithin' /\ SlotsAccounted'
  BY <1>1 DEF RPCInv, Ranked, AdmittedWithin, SlotsAccounted
<1>3. Admitted \subseteq Conn /\ \A c \in Admitted : conn[c].pc \in AdmittedAt
  BY DEF Admitted, AdmittedAt
<1>4. RPCTypeOK'
  BY <1>1, <1>3 DEF RPCInv, RPCTypeOK, StopStep, CloseListener, Wait, WaitReturns
<1>5. EarlyDone'
  <2>1. CASE \E l \in Listener : CloseListener(l)
    BY <2>1 DEF RPCInv, EarlyDone, CloseListener
  <2>2. CASE Wait
    <3>1. /\ listening' = {} /\ early' = Admitted
          /\ stop' = IF wg = 0 THEN "returned" ELSE "waiting"
      BY <2>2 DEF Wait
    <3>2. \A c \in Admitted : conn[c].pc \notin {"accepted", "entered"}
      BY <1>3 DEF AdmittedAt
    <3>3. wg = 0 => Admitted = {}
      <4>1. /\ Cardinality(serving) \in Nat /\ IsFiniteSet(Admitted)
            /\ Cardinality(Admitted) \in Nat
            /\ wg = Cardinality(serving) + Cardinality(Admitted)
        BY CountedFinite DEF RPCInv, RPCTypeOK, SlotsAccounted
      <4> QED
        BY <4>1, FS_EmptySet
    <3>4. \A c \in Admitted : conn[c].pc # "leaving"
      BY <1>3 DEF AdmittedAt
    <3> QED
      BY <1>1, <3>1, <3>2, <3>3, <3>4 DEF EarlyDone
  <2>3. CASE WaitReturns
    BY <2>3 DEF RPCInv, EarlyDone, WaitReturns
  <2> QED
    BY <2>1, <2>2, <2>3 DEF StopStep
<1> QED
  BY <1>2, <1>4, <1>5 DEF RPCInv

(* The start of the server, whose goroutines are the first it counts.       *)
LEMMA NewServerKeeps ==
    ASSUME RPCServerAssumption, RPCInv, serving = {}, stop = "no",
           NEW opened \in SUBSET Listener, NewServer(opened)
    PROVE  RPCInv'
<1>1. /\ UNCHANGED <<conn, active, stop, early>>
      /\ listening' = opened /\ serving' = opened
      /\ wg' = wg + Cardinality(opened)
      /\ Counted' = Counted /\ Admitted' = Admitted
  BY DEF NewServer, Counted, Admitted
<1>2. Cardinality(opened) \in Nat /\ Cardinality(Admitted) \in Nat
      /\ Cardinality(serving) = 0
  BY CountedFinite, FS_EmptySet
<1>3. SlotsAccounted' /\ wg' \in Nat
  <2>1. active = Cardinality(Counted) /\ wg = Cardinality(Admitted)
    BY <1>2 DEF RPCInv, SlotsAccounted
  <2>2. active' = Cardinality(Counted')
    BY <1>1, <2>1
  <2>3. wg' = Cardinality(serving') + Cardinality(Admitted') /\ wg' \in Nat
    BY <1>1, <1>2, <2>1
  <2> QED
    BY <2>2, <2>3 DEF SlotsAccounted
<1>4. Ranked' /\ AdmittedWithin' /\ EarlyDone'
  BY <1>1 DEF RPCInv, Ranked, AdmittedWithin, EarlyDone
<1> QED
  BY <1>1, <1>3, <1>4 DEF RPCInv, RPCTypeOK

(* Steps that do not touch the server.                                      *)
LEMMA ServerUntouched ==
    ASSUME RPCInv, UNCHANGED rpcVars
    PROVE  RPCInv'
BY DEF RPCInv, RPCTypeOK, SlotsAccounted, Ranked, AdmittedWithin, EarlyDone,
       Counted, Admitted, rpcVars

(* A process that begins has no handlers.                                   *)
LEMMA ResetKeeps ==
    ASSUME RPCReset
    PROVE  RPCInv'
<1>1. Counted' = {} /\ Admitted' = {}
  BY DEF RPCReset, Counted, Admitted, NoConn
<1>2. conn' \in [Conn -> Handling]
  BY DEF RPCReset, NoConn, Handling
<1>3. RPCTypeOK'
  BY <1>2 DEF RPCReset, RPCTypeOK, Handling
<1>4. SlotsAccounted'
  BY <1>1, FS_EmptySet DEF RPCReset, SlotsAccounted
<1>5. Ranked' /\ AdmittedWithin' /\ EarlyDone'
  BY <1>1 DEF RPCReset, Ranked, AdmittedWithin, EarlyDone
<1> QED
  BY <1>3, <1>4, <1>5 DEF RPCInv

-----------------------------------------------------------------------------
(* Inv holds at the start.                                                  *)
LEMMA InitInv ==
    ASSUME RPCServerAssumption, TrackerAssumption, Init, KeyInv
    PROVE  Inv
<1>1. Counted = {} /\ Admitted = {}
  BY DEF Init, RPCInit, Counted, Admitted, NoConn
<1>2. conn \in [Conn -> Handling]
  BY DEF Init, RPCInit, NoConn, Handling
<1>3. RPCTypeOK
  BY <1>2 DEF Init, RPCInit, RPCTypeOK, Handling
<1>4. SlotsAccounted
  BY <1>1, FS_EmptySet DEF Init, RPCInit, SlotsAccounted
<1>5. Ranked /\ AdmittedWithin /\ EarlyDone
  BY <1>1 DEF Init, RPCInit, Ranked, AdmittedWithin, EarlyDone
<1>6. TypeOK
  <2>1. sent \in 0 .. MaxInterrupts
    BY DEF Init, TrackerAssumption
  <2>2. {rotator, interrupt, signaled, cancelled} \subseteq BOOLEAN
    BY DEF Init
  <2>3. /\ main = "config" /\ status = "running" /\ db = "none" /\ listener = "starting"
    BY DEF Init
  <2> QED
    BY <1>3, <2>1, <2>2, <2>3 DEF TypeOK, KeyInv
<1>7. StartInv
  BY DEF Init, RPCInit, StartInv
<1> QED
  BY <1>3, <1>4, <1>5, <1>6, <1>7 DEF Inv, RPCInv

(* Every step keeps Inv.                                                    *)
LEMMA NextInv ==
    ASSUME RPCServerAssumption, TrackerAssumption, Inv, KeyInv', [Next]_vars
    PROVE  Inv'
<1>0. KeyPairTypeOK' /\ starts' \in 1 .. MaxStarts /\ served' \subseteq 1 .. starts'
  BY DEF KeyInv
<1>1. TypeOK /\ RPCInv /\ StartInv
  BY DEF Inv
<1>2. CASE MainStep
  <2>1. CASE ParseConfig \/ InitLogRotator \/ ValidateConfig \/ NewAPIServer \/ NewDB \/ Setup
    <3>1. UNCHANGED rpcVars
      BY <2>1 DEF ParseConfig, InitLogRotator, ValidateConfig, NewAPIServer, NewDB, Setup
    <3>2. RPCInv'
      BY <1>1, <3>1, ServerUntouched
    <3>3. TypeOK'
      BY <1>0, <1>1, <2>1, <3>2 DEF TypeOK, RPCInv, ParseConfig, InitLogRotator, ValidateConfig,
         NewAPIServer, NewDB, Setup, Exit, signalVars
    <3>4. StartInv'
      BY <1>1, <2>1, <3>1 DEF TypeOK, RPCInv, EarlyDone, StartInv, Starting, rpcVars,
         ParseConfig, InitLogRotator, ValidateConfig, NewAPIServer, NewDB, Setup, Exit
    <3> QED
      BY <3>2, <3>3, <3>4 DEF Inv
  <2>2. CASE OpeningKeyPair \/ MakeListeners \/ NoRPCServer
    <3>1. /\ main = "rpc" /\ serving = {} /\ stop = "no" /\ early = {} /\ db = "open"
          /\ UNCHANGED <<stop, early>>
      BY <1>1, <2>2 DEF OpeningKeyPair, MakeListeners, NoRPCServer, StartInv, Starting,
         RPCInv, EarlyDone, NewServer, rpcVars
    <3>2. RPCInv'
      <4>1. CASE MakeListeners
        <5>1. PICK opened \in SUBSET Listener : NewServer(opened)
          BY <4>1 DEF MakeListeners
        <5> QED
          BY <1>1, <3>1, <5>1, NewServerKeeps
      <4>2. CASE OpeningKeyPair \/ NoRPCServer
        BY <1>1, <4>2, ServerUntouched DEF OpeningKeyPair, NoRPCServer
      <4> QED
        BY <2>2, <4>1, <4>2
    <3>3. TypeOK'
      BY <1>0, <1>1, <2>2, <3>2 DEF TypeOK, RPCInv, OpeningKeyPair, MakeListeners,
         NoRPCServer, Exit, signalVars
    <3>4. StartInv'
      BY <1>1, <2>2, <3>1 DEF StartInv, Starting, OpeningKeyPair, MakeListeners,
         NoRPCServer, Exit, rpcVars
    <3> QED
      BY <3>2, <3>3, <3>4 DEF Inv
  <2>3. CASE Shutdown
    <3>1. /\ main = "serving" /\ stop = "no" /\ db = "open" /\ early = {}
      BY <1>1, <2>3 DEF Shutdown, StartInv, Starting, RPCInv, EarlyDone
    <3>2. Counted' = Counted /\ Admitted' = Admitted
      BY <2>3 DEF Shutdown, Counted, Admitted
    <3>3. RPCInv'
      BY <1>1, <2>3, <3>1, <3>2 DEF Shutdown, RPCInv, RPCTypeOK, SlotsAccounted, Ranked,
         AdmittedWithin, EarlyDone
    <3>4. TypeOK'
      BY <1>0, <1>1, <2>3, <3>3 DEF TypeOK, RPCInv, Shutdown, signalVars
    <3>5. StartInv'
      BY <2>3, <3>1 DEF StartInv, Starting, Shutdown
    <3> QED
      BY <3>3, <3>4, <3>5 DEF Inv
  <2>4. CASE Stopping
    <3>1. RPCInv'
      BY <1>1, <2>4, StopKeeps DEF Stopping
    <3>2. TypeOK'
      BY <1>0, <1>1, <2>4, <3>1 DEF TypeOK, RPCInv, Stopping, signalVars
    <3>3. StartInv'
      BY <1>1, <2>4 DEF StartInv, Starting, Stopping, StopStep, CloseListener, Wait,
         WaitReturns
    <3> QED
      BY <3>1, <3>2, <3>3 DEF Inv
  <2>5. CASE CloseDB \/ Return
    <3>1. UNCHANGED rpcVars
      BY <2>5 DEF CloseDB, Return
    <3>2. RPCInv'
      BY <1>1, <3>1, ServerUntouched
    <3>3. TypeOK'
      BY <1>0, <1>1, <2>5, <3>2 DEF TypeOK, RPCInv, CloseDB, Return, Exit, signalVars
    <3>4. StartInv'
      BY <1>1, <2>5, <3>1 DEF StartInv, Starting, rpcVars, CloseDB, Return, Exit
    <3> QED
      BY <3>2, <3>3, <3>4 DEF Inv
  <2> QED
    BY <1>2, <2>1, <2>2, <2>3, <2>4, <2>5 DEF MainStep
<1>3. CASE SignalStep \/ Interrupt
  <2>1. UNCHANGED <<rpcVars, db>> /\ (main' = main \/ main' = "exit")
    BY <1>3 DEF SignalStep, Interrupt, Notify, ReceiveSignal, DrainSignal, CancelContext, Exit
  <2>2. RPCInv'
    BY <1>1, <2>1, ServerUntouched
  <2>3. TypeOK'
    <3>1. RPCTypeOK'
      BY <2>2 DEF RPCInv
    <3>2. CASE SignalStep
      BY <1>0, <1>1, <3>1, <3>2 DEF TypeOK, SignalStep, Notify, ReceiveSignal, DrainSignal,
         CancelContext, Exit, Running
    <3>3. CASE Interrupt
      <4>1. sent' \in 0 .. MaxInterrupts
        BY <1>1, <3>3 DEF TypeOK, Interrupt, TrackerAssumption
      <4>2. {rotator, interrupt, signaled, cancelled}' \subseteq BOOLEAN
        <5>1. interrupt' \in BOOLEAN
          BY <1>1, <3>3 DEF TypeOK, Interrupt
        <5> QED
          BY <1>1, <3>3, <5>1 DEF TypeOK, Interrupt
      <4>3. /\ main' \in {main, "exit"} /\ status' \in {status, "killed"}
            /\ (main' = "exit") = (status' # "running")
        BY <1>1, <3>3 DEF TypeOK, Interrupt, Exit, Running
      <4>4. db' = db /\ listener' = listener
        BY <3>3 DEF Interrupt
      <4> QED
        BY <1>0, <1>1, <3>1, <4>1, <4>2, <4>3, <4>4 DEF TypeOK
    <3> QED
      BY <1>3, <3>2, <3>3
  <2>4. StartInv'
    BY <1>1, <2>1 DEF StartInv, Starting, rpcVars
  <2> QED
    BY <2>2, <2>3, <2>4 DEF Inv
<1>4. ASSUME NEW c \in Conn, Client(c) \/ Alone(c) \/ Waits(c)
      PROVE  Inv'
  <2>1. RPCInv'
    BY <1>1, <1>4, ClientKeeps, HandlerKeeps DEF Client, Alone, Waits
  <2>2. TypeOK'
    BY <1>0, <1>1, <1>4, <2>1 DEF TypeOK, RPCInv, Client, Alone, Waits, signalVars
  <2>3. /\ UNCHANGED <<main, db, listening, serving, early>>
        /\ stop' = stop \/ (stop = "waiting" /\ stop' = "released")
    BY <1>4 DEF Client, Alone, Waits, Accept, Hangup, Request, HandlerAlone,
       HandlerWaits, TurnAway, Admit, InvalidRequest, CallMethod, MethodEnds,
       Done, WgDone, Leave
  <2>4. StartInv'
    BY <1>1, <2>3 DEF StartInv, Starting
  <2> QED
    BY <2>1, <2>2, <2>4 DEF Inv
<1>5. ASSUME NEW l \in Listener, Serve(l)
      PROVE  Inv'
  <2>1. RPCInv'
    BY <1>1, <1>5, ServeKeeps DEF Serve
  <2>2. TypeOK'
    BY <1>0, <1>1, <1>5, <2>1 DEF TypeOK, RPCInv, Serve, signalVars
  <2>3. StartInv'
    BY <1>1, <1>5 DEF StartInv, Starting, Serve, ServeReturns, WgDone
  <2> QED
    BY <2>1, <2>2, <2>3 DEF Inv
<1>6. CASE Crash \/ Restart
  <2>1. /\ MemoryLost /\ sent' = sent
        /\ \/ main' = "exit" /\ status' = "killed"
           \/ main' = "config" /\ status' = "running"
    BY <1>6 DEF Crash, Restart, Exit
  <2>2. RPCInv'
    BY <2>1, ResetKeeps DEF MemoryLost
  <2>3. TypeOK'
    <3>1. {rotator, interrupt, signaled, cancelled}' \subseteq BOOLEAN
      BY <2>1 DEF MemoryLost
    <3>2. db' = "none" /\ listener' = "starting" /\ sent' \in 0 .. MaxInterrupts
      BY <1>1, <2>1 DEF MemoryLost, TypeOK
    <3> QED
      BY <1>0, <2>1, <2>2, <3>1, <3>2 DEF TypeOK, RPCInv
  <2>4. StartInv'
    BY <2>1 DEF StartInv, Starting, MemoryLost, RPCReset
  <2> QED
    BY <2>2, <2>3, <2>4 DEF Inv
<1>7. CASE UNCHANGED vars
  <2>1. RPCInv'
    BY <1>1, <1>7, ServerUntouched DEF vars
  <2>2. TypeOK'
    BY <1>0, <1>1, <1>7, <2>1 DEF TypeOK, RPCInv, vars, signalVars
  <2>3. StartInv'
    BY <1>1, <1>7 DEF StartInv, Starting, vars, rpcVars
  <2> QED
    BY <2>1, <2>2, <2>3 DEF Inv
<1> QED
  BY <1>2, <1>3, <1>4, <1>5, <1>6, <1>7 DEF Next

(* The handlers Stop waits for are through before the handle is closed.     *)
LEMMA RunningMethodsFollow ==
    ASSUME Inv
    PROVE  RunningMethodsHaveDB
<1> SUFFICES ASSUME NEW c \in early, conn[c].pc = "method"
             PROVE  db = "open"
  BY DEF RunningMethodsHaveDB
<1>1. stop \notin {"released", "returned", "panicked"}
  BY DEF Inv, RPCInv, EarlyDone, AdmittedAt
<1> QED
  BY <1>1 DEF Inv, StartInv

-----------------------------------------------------------------------------
(* Inv is inductive.                                                        *)
THEOREM Invariance == Spec => []Inv
<1>1. Init /\ KeyInv => Inv
  BY InitInv, RPCServerAssumption, TrackerAssumption
<1>2. Inv /\ KeyInv' /\ [Next]_vars => Inv'
  BY NextInv, RPCServerAssumption, TrackerAssumption
<1> QED
  BY <1>1, <1>2, KeyInvariance, PTL DEF Spec

(* TypeOK: every variable of the process and its server is of its type.     *)
THEOREM TypeCorrect == Spec => []TypeOK
<1>1. Inv => TypeOK
  BY DEF Inv
<1> QED
  BY <1>1, Invariance, PTL

(* ThrottleHolds: opts.MaxPOSTClients is never exceeded, for any number of  *)
(* clients and whatever becomes of their requests.                          *)
THEOREM ThrottleAlwaysHolds == Spec => []ThrottleHolds
<1>1. Inv => ThrottleHolds
  BY ThrottleFollows, RPCServerAssumption DEF Inv
<1> QED
  BY <1>1, Invariance, PTL

(* SlotsAccounted: the throttle's counter and Server.wg are exact.          *)
THEOREM CountersExact == Spec => []SlotsAccounted
<1>1. Inv => SlotsAccounted
  BY DEF Inv, RPCInv
<1> QED
  BY <1>1, Invariance, PTL

(* RunningMethodsHaveDB: the database is closed on no method that Stop      *)
(* found running, for any number of clients, listeners and signals.         *)
THEOREM DatabaseStaysOpen == Spec => []RunningMethodsHaveDB
<1> QED
  BY RunningMethodsFollow, Invariance, PTL
=============================================================================
