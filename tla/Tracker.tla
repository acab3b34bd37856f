------------------------------- MODULE Tracker -------------------------------
(***************************************************************************)
(* The life of the github-tracker process: main and run of                 *)
(* src/github-tracker.go, the signal goroutines of src/signal.go, the      *)
(* database handle, the TLS key pair and the JSON-RPC server.  The process *)
(* may be killed at any moment and started again; the files of the key     *)
(* pair are what is left of it.                                            *)
(***************************************************************************)
EXTENDS RPCServer, KeyPair

CONSTANTS
    MaxInterrupts,  \* bound: interrupt signals sent
    MaxStarts       \* bound: how often the process is started

ASSUME TrackerAssumption ==
    /\ MaxInterrupts \in Nat
    /\ MaxStarts \in Nat \ {0}

VARIABLES
    main,       \* where run is; "exit" when the process is gone
    status,     \* how it exited
    rotator,    \* logRotator is not nil
    db,         \* the database handle of the server
    listener,   \* where shutdownListener is
    interrupt,  \* the signal in interruptChannel, which holds one
    sent,       \* how many interrupts have been sent
    signaled,   \* shutdownSignaled has been closed
    cancelled,  \* run's context has been cancelled
    starts,     \* how often the process has been started
    served      \* history: the key pairs it has served with

signalVars == <<listener, interrupt, sent, signaled, cancelled>>
lifeVars == <<starts, served>>
vars == <<rpcVars, keyPairVars, main, status, rotator, db, signalVars, lifeVars>>

Init ==
    /\ RPCInit
    /\ KeyPairInit
    /\ main = "config"
    /\ status = "running"
    /\ rotator = FALSE
    /\ db = "none"
    /\ listener = "starting"
    /\ interrupt = FALSE
    /\ sent = 0
    /\ signaled = FALSE
    /\ cancelled = FALSE
    /\ starts = 1
    /\ served = {}

Running == main # "exit"

(***************************************************************************)
(* main exits with status 1 when run returns an error other than           *)
(* context.Canceled.                                                       *)
(***************************************************************************)
Exit(how) == main' = "exit" /\ status' = how

-----------------------------------------------------------------------------
(***************************************************************************)
(* loadConfig.  Its first part ends the process itself when the command    *)
(* line is wrong ("failed") or only asks for help; when the configuration  *)
(* file is, it returns an error, which run logs before there is a log      *)
(* rotator to write to.                                                    *)
(***************************************************************************)
ParseConfig ==
    /\ main = "config"
    /\ \/ main' = "rotator" /\ UNCHANGED status
       \/ \E how \in {"ok", "failed", "panicked"} : Exit(how)
    /\ UNCHANGED <<rpcVars, rotator, db, signalVars, keyPairVars, lifeVars>>

InitLogRotator ==
    /\ main = "rotator"
    /\ \/ main' = "validate" /\ rotator' = TRUE /\ UNCHANGED status
       \/ Exit("failed") /\ UNCHANGED rotator
    /\ UNCHANGED <<rpcVars, db, signalVars, keyPairVars, lifeVars>>

(* A root certificate that is not PEM is dereferenced as nil.               *)
ValidateConfig ==
    /\ main = "validate"
    /\ \/ main' = "api" /\ UNCHANGED status
       \/ \E how \in {"ok", "panicked"} : Exit(how)
    /\ UNCHANGED <<rpcVars, rotator, db, signalVars, keyPairVars, lifeVars>>

(***************************************************************************)
(* The rest of the start.  server.NewServer cannot fail.  When the         *)
(* configuration or the JSON-RPC server fails, run returns ctx.Err(),      *)
(* which is nil or Canceled; when the database does, it returns the error. *)
(***************************************************************************)
NewAPIServer ==
    /\ main = "api"
    /\ main' = "database"
    /\ UNCHANGED <<rpcVars, status, rotator, db, signalVars, keyPairVars, lifeVars>>

NewDB ==
    /\ main = "database"
    /\ \/ main' = "setup" /\ db' = "open" /\ UNCHANGED status
       \/ Exit("failed") /\ UNCHANGED db
    /\ UNCHANGED <<rpcVars, rotator, signalVars, keyPairVars, lifeVars>>

Setup ==
    /\ main = "setup"
    /\ \/ main' = "rpc" /\ UNCHANGED status
       \/ Exit("failed")
    /\ UNCHANGED <<rpcVars, rotator, db, signalVars, keyPairVars, lifeVars>>

(***************************************************************************)
(* startJSONRPCServer: the key pair (the one generated by the n-th start   *)
(* is n), then the listeners.  An address that cannot be listened on is    *)
(* skipped, but one must be left, and the configuration must have an       *)
(* rpcuser and an rpcpass.                                                 *)
(***************************************************************************)
OpeningKeyPair ==
    /\ main = "rpc"
    /\ KeyPairStep(starts)
    /\ UNCHANGED <<rpcVars, main, status, rotator, db, signalVars, lifeVars>>

MakeListeners ==
    /\ main = "rpc"
    /\ opening = "opened"
    /\ \E opened \in SUBSET Listener \ {{}} : NewServer(opened)
    /\ main' = "serving"
    /\ served' = served \cup {keyPair}
    /\ UNCHANGED <<keyPairVars, status, rotator, db, signalVars, starts>>

NoRPCServer ==
    /\ main = "rpc"
    /\ opening \in {"opened", "failed"}
    /\ Exit("ok")
    /\ db' = "closed"
    /\ UNCHANGED <<rpcVars, keyPairVars, rotator, signalVars, lifeVars>>

(* run waits for the cancellation only here: a signal that comes during the *)
(* start is acted upon once it is over.                                     *)
Shutdown ==
    /\ main = "serving"
    /\ cancelled
    /\ main' = "stopping"
    /\ stop' = "closing"
    /\ UNCHANGED <<listening, serving, conn, active, wg, early, status,
                   rotator, db, signalVars, keyPairVars, lifeVars>>

Stopping ==
    /\ main = "stopping"
    /\ StopStep
    /\ UNCHANGED <<main, status, rotator, db, signalVars, keyPairVars, lifeVars>>

(* The deferred calls: Stop is over, the database is closed.  They run when *)
(* Stop panics, too.                                                        *)
CloseDB ==
    /\ main = "stopping"
    /\ stop \in {"returned", "panicked"}
    /\ db = "open"
    /\ db' = "closed"
    /\ UNCHANGED <<rpcVars, main, status, rotator, signalVars, keyPairVars, lifeVars>>

Return ==
    /\ main = "stopping"
    /\ db = "closed"
    /\ Exit(IF stop = "panicked" THEN "panicked" ELSE "ok")
    /\ UNCHANGED <<rpcVars, rotator, db, signalVars, keyPairVars, lifeVars>>

MainStep ==
    \/ ParseConfig \/ InitLogRotator \/ ValidateConfig
    \/ NewAPIServer \/ NewDB \/ Setup
    \/ OpeningKeyPair \/ MakeListeners \/ NoRPCServer
    \/ Shutdown \/ Stopping \/ CloseDB \/ Return

-----------------------------------------------------------------------------
(***************************************************************************)
(* Signals.  Until shutdownListener has called signal.Notify, an interrupt *)
(* kills the process; after that it is dropped if one is already waiting   *)
(* in the channel.                                                         *)
(***************************************************************************)
Interrupt ==
    /\ Running
    /\ sent < MaxInterrupts
    /\ sent' = sent + 1
    /\ IF listener = "starting"
       THEN Exit("killed") /\ UNCHANGED interrupt
       ELSE interrupt' = TRUE /\ UNCHANGED <<main, status>>
    /\ UNCHANGED <<rpcVars, rotator, db, listener, signaled, cancelled, keyPairVars, lifeVars>>

Notify ==
    /\ Running
    /\ listener = "starting"
    /\ listener' = "listening"
    /\ UNCHANGED <<rpcVars, main, status, rotator, db, interrupt, sent,
                   signaled, cancelled, keyPairVars, lifeVars>>

(* Mutant: the first signal is logged like the others.                      *)
ReceiveSignalLogged ==
    /\ Running
    /\ listener = "listening"
    /\ interrupt
    /\ interrupt' = FALSE
    /\ IF rotator
       THEN listener' = "draining" /\ UNCHANGED <<main, status, signaled>>
       ELSE Exit("panicked") /\ UNCHANGED <<listener, signaled>>
    /\ UNCHANGED <<rpcVars, rotator, db, sent, cancelled, keyPairVars, lifeVars>>

(* The first signal is logged (and a nil logRotator dereferenced, if        *)
(* loadConfig has not come that far) and closes shutdownSignaled; the       *)
(* others are only logged.                                                  *)
ReceiveSignal ==
    /\ Running
    /\ listener = "listening"
    /\ interrupt
    /\ interrupt' = FALSE
    /\ IF rotator
       THEN listener' = "draining" /\ signaled' = TRUE /\ UNCHANGED <<main, status>>
       ELSE Exit("panicked") /\ UNCHANGED <<listener, signaled>>
    /\ UNCHANGED <<rpcVars, rotator, db, sent, cancelled, keyPairVars, lifeVars>>

DrainSignal ==
    /\ Running
    /\ listener = "draining"
    /\ interrupt
    /\ interrupt' = FALSE
    /\ UNCHANGED <<rpcVars, main, status, rotator, db, listener, sent,
                   signaled, cancelled, keyPairVars, lifeVars>>

CancelContext ==
    /\ Running
    /\ signaled
    /\ ~cancelled
    /\ cancelled' = TRUE
    /\ UNCHANGED <<rpcVars, main, status, rotator, db, listener, interrupt,
                   sent, signaled, keyPairVars, lifeVars>>

-----------------------------------------------------------------------------
Client(c) ==
    /\ Running
    /\ Accept(c) \/ Hangup(c) \/ Request(c)
    /\ UNCHANGED <<main, status, rotator, db, signalVars, keyPairVars, lifeVars>>

Alone(c) ==
    /\ Running
    /\ HandlerAlone(c)
    /\ UNCHANGED <<main, status, rotator, db, signalVars, keyPairVars, lifeVars>>

Waits(c) ==
    /\ Running
    /\ HandlerWaits(c)
    /\ UNCHANGED <<main, status, rotator, db, signalVars, keyPairVars, lifeVars>>

Serve(l) ==
    /\ Running
    /\ ServeReturns(l)
    /\ UNCHANGED <<main, status, rotator, db, signalVars, keyPairVars, lifeVars>>

SignalStep == Notify \/ ReceiveSignal \/ DrainSignal \/ CancelContext

(***************************************************************************)
(* The process is killed, and started again by whoever runs it: what it    *)
(* had in its memory is gone.                                              *)
(***************************************************************************)
MemoryLost ==
    /\ RPCReset
    /\ keyPair' = 0
    /\ opening' = "stat"
    /\ rotator' = FALSE
    /\ db' = "none"
    /\ listener' = "starting"
    /\ interrupt' = FALSE
    /\ signaled' = FALSE
    /\ cancelled' = FALSE

Crash ==
    /\ Running
    /\ Exit("killed")
    /\ MemoryLost
    /\ UNCHANGED <<fileVars, sent, lifeVars>>

Restart ==
    /\ ~Running
    /\ starts < MaxStarts
    /\ starts' = starts + 1
    /\ main' = "config"
    /\ status' = "running"
    /\ MemoryLost
    /\ UNCHANGED <<fileVars, sent, served>>

Next ==
    \/ MainStep
    \/ SignalStep
    \/ Interrupt
    \/ Crash
    \/ Restart
    \/ \E c \in Conn : Client(c) \/ Alone(c) \/ Waits(c)
    \/ \E l \in Listener : Serve(l)

Spec == Init /\ [][Next]_vars

(***************************************************************************)
(* Goroutines that can run do.  Nothing is assumed of clients, methods and *)
(* signals: a handler that waits for one of them may do so for ever.       *)
(***************************************************************************)
FairSpec ==
    /\ Spec
    /\ WF_vars(MainStep)
    /\ WF_vars(ReceiveSignal) /\ WF_vars(CancelContext)
    /\ \A c \in Conn : WF_vars(Alone(c))
    /\ \A l \in Listener : WF_vars(Serve(l))

-----------------------------------------------------------------------------
(***************************************************************************)
(* Properties.                                                             *)
(***************************************************************************)

(* Every variable is of its type, the server's and the key pair's included, *)
(* and the process has an exit status exactly when it is gone.              *)
TypeOK ==
    /\ RPCTypeOK
    /\ KeyPairTypeOK
    /\ main \in {"config", "rotator", "validate", "api", "database", "setup", "rpc", "serving",
                 "stopping", "exit"}
    /\ status \in {"running", "ok", "failed", "panicked", "killed"}
    /\ (main = "exit") = (status # "running")
    /\ db \in {"none", "open", "closed"}
    /\ listener \in {"starting", "listening", "draining"}
    /\ {rotator, interrupt, signaled, cancelled} \subseteq BOOLEAN
    /\ sent \in 0 .. MaxInterrupts
    /\ starts \in 1 .. MaxStarts
    /\ served \subseteq 1 .. starts

(* The handle is closed on no method that was running when the shutdown     *)
(* began: run's deferred Stop comes before its deferred Close, and Stop     *)
(* waits for all of them, however many were let in while it closed the      *)
(* listeners.                                                               *)
RunningMethodsHaveDB ==
    \A c \in early : conn[c].pc = "method" => db = "open"

(* A client that has copied the certificate once needs no other: every      *)
(* tracker that comes to serve does so with the pair of those before it,    *)
(* which is in the files, however starts fail and processes are killed.     *)
CertificateLasts ==
    \A p \in served : certFile = Whole(p) /\ keyFile = Whole(p)

(* Files that a start can use (no key, or one with its certificate) are     *)
(* made unusable by the writing of the key only: no crash or failed write   *)
(* anywhere else keeps the next start from opening a pair.                  *)
Usable == keyFile = Absent \/ Matching
OnlyKeyWriteLocksOut ==
    [][Usable /\ ~Usable' => opening \in {"key", "remove"}]_fileVars

(* No handler waits for ever: clients send the bodies of their requests     *)
(* and take the answers (net/http ends a request after ReadTimeout over     *)
(* HTTP/1 only, and there is no WriteTimeout), and methods end              *)
(* (UpdateReturns of Update, with what that assumes).                       *)
RequestsEnd ==
    \A c \in Conn : []<>(conn[c].pc # "inside") /\ []<>(conn[c].pc # "method")

(* Once an interrupt is in the channel the process comes to its end,        *)
(* whatever state it was starting in and whatever requests are running, if  *)
(* each of those ends: nobody waits for somebody who waits for him.         *)
InterruptEndsProcess ==
    RequestsEnd => (interrupt \/ signaled ~> ~Running)

-----------------------------------------------------------------------------
(* server.go:173, "Stop gracefully shuts down the rpc server by stopping    *)
(* and disconnecting all clients.  This blocks until shutdown completes":   *)
(* when it is over, no request is being served, and it did not panic.       *)
StopBlocks ==
    stop \in {"returned", "panicked"} => stop = "returned" /\ Admitted = {}

(* log.go:37, "Loggers can not be used before the log rotator has been      *)
(* initialized with a log file": no process ends in the panic of a logger   *)
(* that has none.                                                           *)
LoggersInitialized == status = "panicked" => rotator
=============================================================================
