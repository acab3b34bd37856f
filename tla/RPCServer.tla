------------------------------ MODULE RPCServer ------------------------------
(***************************************************************************)
(* The JSON-RPC server of src/jsonrpc/server.go: listeners, the handler    *)
(* goroutine net/http starts for each request, the throttle, and Stop.     *)
(*                                                                         *)
(* conn[c] is a connection, or a stream of one, and the handler of its     *)
(* request.  A response says "Connection: close", so that there is one     *)
(* request, unless it is the 429 of the throttle, which is sent before     *)
(* that header is set.  What the client sent and what the methods do is    *)
(* left open: any request may be unauthorized or malformed, and any call   *)
(* may return, fail or panic.                                              *)
(***************************************************************************)
EXTENDS Integers, FiniteSets

CONSTANTS
    Listener,   \* the listeners of the configuration's addresses
    Conn,       \* the connections there can be at once
    Threshold   \* opts.MaxPOSTClients

ASSUME RPCServerAssumption ==
    /\ IsFiniteSet(Listener) /\ IsFiniteSet(Conn)
    /\ Listener # {}
    /\ Threshold \in Nat

VARIABLES
    listening,  \* the listeners not closed yet
    serving,    \* the listeners whose goroutine is in httpServer.Serve
    conn,       \* conn[c]: where the handler of c is, and its local "current"
    active,     \* the throttle's counter
    wg,         \* the counter of Server.wg
    stop,       \* where the goroutine that calls Stop is
    early       \* history: the handlers that wg counted when Stop waited

rpcVars == <<listening, serving, conn, active, wg, stop, early>>

NoConn == [pc |-> "none", current |-> 0]
Waiting == [pc |-> "accepted", current |-> 0]

(* Handlers that the throttle counts, that it let through, that wg counts.  *)
Counted == {c \in Conn : conn[c].pc \in {"entered", "inside", "method", "done", "leaving"}}
Admitted == {c \in Conn : conn[c].pc \in {"inside", "method", "done"}}

RPCInit ==
    /\ listening = {}
    /\ serving = {}
    /\ conn = [c \in Conn |-> NoConn]
    /\ active = 0
    /\ wg = 0
    /\ stop = "no"
    /\ early = {}

(* The process begins anew.                                                 *)
RPCReset ==
    /\ listening' = {}
    /\ serving' = {}
    /\ conn' = [c \in Conn |-> NoConn]
    /\ active' = 0
    /\ wg' = 0
    /\ stop' = "no"
    /\ early' = {}

(* Mutant: the listeners' goroutines are not counted.                       *)
NewServerUncounted(opened) ==
    /\ listening' = opened
    /\ serving' = opened
    /\ UNCHANGED <<conn, active, wg, stop, early>>

(* NewServer: one goroutine for each listener, counted before it starts.    *)
NewServer(opened) ==
    /\ listening' = opened
    /\ serving' = opened
    /\ wg' = wg + Cardinality(opened)
    /\ UNCHANGED <<conn, active, stop, early>>

-----------------------------------------------------------------------------
(***************************************************************************)
(* WaitGroup.  The Done that brings the counter to zero releases the       *)
(* goroutine in Wait, which panics if it finds the counter above zero      *)
(* again when it wakes up ("WaitGroup is reused before previous Wait has   *)
(* returned").                                                             *)
(***************************************************************************)
WgDone ==
    /\ wg' = wg - 1
    /\ stop' = IF wg = 1 /\ stop = "waiting" THEN "released" ELSE stop

-----------------------------------------------------------------------------
(***************************************************************************)
(* A client.                                                               *)
(***************************************************************************)
Accept(c) ==
    /\ conn[c].pc = "none"
    /\ listening # {}
    /\ conn' = [conn EXCEPT ![c] = Waiting]
    /\ UNCHANGED <<listening, serving, active, wg, stop, early>>

(* The client closes a connection on which there is no request.             *)
Hangup(c) ==
    /\ conn[c].pc = "accepted"
    /\ conn' = [conn EXCEPT ![c] = NoConn]
    /\ UNCHANGED <<listening, serving, active, wg, stop, early>>

(***************************************************************************)
(* throttled.  Requests that are turned away count as active as well,      *)
(* until they have been answered.                                          *)
(***************************************************************************)
TooMany(c) == conn[c].current - 1 >= Threshold

(* Mutant: the counter is read before it is incremented.                    *)
RequestReadFirst(c) ==
    \/ /\ conn[c].pc = "accepted"
       /\ conn' = [conn EXCEPT ![c] = [pc |-> "read", current |-> active + 1]]
       /\ UNCHANGED <<listening, serving, active, wg, stop, early>>
    \/ /\ conn[c].pc = "read"
       /\ active' = active + 1
       /\ conn' = [conn EXCEPT ![c].pc = "entered"]
       /\ UNCHANGED <<listening, serving, wg, stop, early>>

Request(c) ==
    /\ conn[c].pc = "accepted"
    /\ active' = active + 1
    /\ conn' = [conn EXCEPT ![c] = [pc |-> "entered", current |-> active']]
    /\ UNCHANGED <<listening, serving, wg, stop, early>>

(* Mutant: the return comes before the decrement is deferred.               *)
TurnAwayUncounted(c) ==
    /\ conn[c].pc = "entered"
    /\ conn' = [conn EXCEPT ![c] = NoConn]
    /\ UNCHANGED <<listening, serving, active, wg, stop, early>>

(* 429 Too Many Requests, or 401 Unauthorized.                              *)
TurnAway(c) ==
    /\ conn[c].pc = "entered"
    /\ conn' = [conn EXCEPT ![c].pc = "leaving"]
    /\ UNCHANGED <<listening, serving, active, wg, stop, early>>

(* The request is within the threshold and authorized.                      *)
Admit(c) ==
    /\ conn[c].pc = "entered"
    /\ ~TooMany(c)
    /\ wg' = wg + 1
    /\ conn' = [conn EXCEPT ![c].pc = "inside"]
    /\ UNCHANGED <<listening, serving, active, stop, early>>

(* postClientRPC: a body that cannot be read, is too large or is no request *)
(* and a method or parameters that are unknown are answered with an error;  *)
(* otherwise the method is called.                                          *)
InvalidRequest(c) ==
    /\ conn[c].pc = "inside"
    /\ conn' = [conn EXCEPT ![c].pc = "done"]
    /\ UNCHANGED <<listening, serving, active, wg, stop, early>>

CallMethod(c) ==
    /\ conn[c].pc = "inside"
    /\ conn' = [conn EXCEPT ![c].pc = "method"]
    /\ UNCHANGED <<listening, serving, active, wg, stop, early>>

(* The method returns a result or an error, which is written to the client, *)
(* or it panics, and net/http recovers and drops the connection.  The       *)
(* deferred calls run in both cases.                                        *)
MethodEnds(c) ==
    /\ conn[c].pc = "method"
    /\ conn' = [conn EXCEPT ![c].pc = "done"]
    /\ UNCHANGED <<listening, serving, active, wg, stop, early>>

(* The deferred calls, in order.  After a 429 the connection is kept, until *)
(* the client closes it or sends another request on it.                     *)
Done(c) ==
    /\ conn[c].pc = "done"
    /\ WgDone
    /\ conn' = [conn EXCEPT ![c].pc = "leaving"]
    /\ UNCHANGED <<listening, serving, active, early>>

Leave(c) ==
    /\ conn[c].pc = "leaving"
    /\ active' = active - 1
    /\ conn' = [conn EXCEPT ![c] = IF TooMany(c) THEN Waiting ELSE NoConn]
    /\ UNCHANGED <<listening, serving, wg, stop, early>>

-----------------------------------------------------------------------------
(***************************************************************************)
(* Stop closes the listeners one after the other and waits.  It does not   *)
(* close the connections, nor cancel the contexts of their requests.       *)
(***************************************************************************)
CloseListener(l) ==
    /\ stop = "closing"
    /\ l \in listening
    /\ listening' = listening \ {l}
    /\ UNCHANGED <<serving, conn, active, wg, stop, early>>

(* Mutant: Stop does not wait if no listener's goroutine is left.           *)
WaitForServeOnly ==
    /\ stop = "closing"
    /\ listening = {}
    /\ stop' = IF serving = {} THEN "returned" ELSE "waiting"
    /\ early' = Admitted
    /\ UNCHANGED <<listening, serving, conn, active, wg>>

Wait ==
    /\ stop = "closing"
    /\ listening = {}
    /\ stop' = IF wg = 0 THEN "returned" ELSE "waiting"
    /\ early' = Admitted
    /\ UNCHANGED <<listening, serving, conn, active, wg>>

WaitReturns ==
    /\ stop = "released"
    /\ stop' = IF wg = 0 THEN "returned" ELSE "panicked"
    /\ UNCHANGED <<listening, serving, conn, active, wg, early>>

(* Serve's Accept fails once the listener is closed.                        *)
ServeReturns(l) ==
    /\ l \in serving \ listening
    /\ serving' = serving \ {l}
    /\ WgDone
    /\ UNCHANGED <<listening, conn, active, early>>

(* What the handler of a request does by itself, and where it waits: for    *)
(* the client to send the body, for the method to end, for the client to    *)
(* take the answer.                                                         *)
HandlerAlone(c) == TurnAway(c) \/ Admit(c) \/ Done(c) \/ Leave(c)
HandlerWaits(c) == InvalidRequest(c) \/ CallMethod(c) \/ MethodEnds(c)

StopStep ==
    \/ \E l \in Listener : CloseListener(l)
    \/ Wait
    \/ WaitReturns

-----------------------------------------------------------------------------
(***************************************************************************)
(* Properties.                                                             *)
(***************************************************************************)
RPCTypeOK ==
    /\ listening \subseteq serving
    /\ serving \subseteq Listener
    /\ conn \in [Conn -> [pc : {"none", "accepted", "entered", "inside",
                               "method", "done", "leaving"},
                         current : Nat]]
    /\ active \in Nat
    /\ wg \in Nat
    /\ stop \in {"no", "closing", "waiting", "released", "returned", "panicked"}
    /\ early \subseteq Conn

(* However requests come, are turned away, fail and panic, no more than     *)
(* Threshold of them are let through at the same time.                      *)
ThrottleHolds == Cardinality(Admitted) <= Threshold

(* No slot is lost and none is freed twice: both counters say how many      *)
(* goroutines there are between their increments and their decrements.      *)
SlotsAccounted ==
    /\ active = Cardinality(Counted)
    /\ wg = Cardinality(serving) + Cardinality(Admitted)
=============================================================================
