------------------------------- MODULE Startup -------------------------------
(***************************************************************************)
(* The life of the process: cmd/ratify-gatekeeper-provider/main.go starts  *)
(* the manager (internal/manager/manager.go) and the HTTP server           *)
(* (internal/httpserver/server.go) beside each other.  Three goroutines    *)
(* meet: the main one, which builds the server and then waits for a        *)
(* signal; the one that serves; the manager with the certificate rotator.  *)
(* The rotator, the API server, the signals and net/http are external.     *)
(***************************************************************************)
EXTENDS Naturals, FiniteSets

CONSTANTS
  Options,         \* command lines: records address, tls, rotation, crd, mutation
  VerifyTimeout, MutateTimeout,
  MaxKeys,         \* bound on the keys of a request
  MaxRequests,     \* bound on requests in flight
  MaxSignals,      \* bound on signals
  MaxNow           \* bound on the clock, and on the deadlines of what is accepted

ASSUME TimesAssumption == VerifyTimeout \in Nat /\ MutateTimeout \in Nat
ASSUME MaxKeysAssumption == MaxKeys \in Nat

VARIABLES
  opts,      \* what parse returned
  main,      \* the main goroutine
  serving,   \* the goroutine of Run that serves
  mgr,       \* the manager's goroutine
  ready,     \* certRotatorReady is closed: the certificates are on disk
  exit,      \* how the process ended, "none" while it runs
  signals,   \* how many were sent
  quit,      \* one waits in Run's channel
  requests,  \* requests in flight: records op, keys (how many), arrived
  failed,    \* history: a call on the outside has failed
  now, closing  \* the clock, and when Shutdown was called

vars == <<opts, main, serving, mgr, ready, exit, signals, quit, requests, failed, now, closing>>
others == <<opts, ready, requests, now, closing>>

Running == exit = "none"
Listening == serving \in {"tls", "plain"}

Init ==
  /\ opts \in Options
  /\ main = "start" /\ serving = "none" /\ mgr = "none"
  /\ ready = FALSE /\ exit = "none" /\ signals = 0 /\ quit = FALSE
  /\ requests = {} /\ failed = FALSE
  /\ now = 0 /\ closing = 0

-----------------------------------------------------------------------------
(* The main goroutine. *)
startRatify ==
  /\ Running /\ main = "start"
  /\ IF opts.address
     THEN main' = "newServer" /\ mgr' = "new" /\ UNCHANGED exit
     ELSE exit' = "panic" /\ UNCHANGED <<main, mgr>>
  /\ UNCHANGED <<serving, signals, quit, failed, others>>

(* Without the CRD manager the configuration is loaded here, which may fail. *)
newServer ==
  /\ Running /\ main = "newServer"
  /\ \/ main' = "run" /\ UNCHANGED <<exit, failed>>
     \/ ~opts.crd /\ exit' = "panic" /\ failed' = TRUE /\ UNCHANGED main
  /\ UNCHANGED <<serving, mgr, signals, quit, others>>

Run ==
  /\ Running /\ main = "run"
  /\ main' = "notify" /\ serving' = "config"
  /\ UNCHANGED <<mgr, exit, signals, quit, failed, others>>

Notify ==
  /\ Running /\ main = "notify"
  /\ main' = "wait"
  /\ UNCHANGED <<serving, mgr, exit, signals, quit, failed, others>>

(* Shutdown closes the listener at once; what is in flight goes on. *)
Shutdown ==
  /\ Running /\ main = "wait" /\ quit
  /\ main' = "shutdown" /\ quit' = FALSE /\ closing' = now
  /\ serving' = IF Listening THEN "ended" ELSE serving
  /\ UNCHANGED <<opts, mgr, ready, exit, signals, requests, failed, now>>

(* The bug of giving up at once. *)
ShutdownDeadline_None == closing
ShutdownDeadline == closing + VerifyTimeout

Timeout(op) == IF op = "verify" THEN VerifyTimeout ELSE MutateTimeout

(* A handler takes its keys in turn, and for each of them may wait in the
   singleflight group for a leader that has a later deadline than its own: one
   timeout per key is how long it can stay (VerifyServer, BoundedDuration). *)
LongestStay(op, keys) == keys * Timeout(op)
LatestEnd(r) == r.arrived + LongestStay(r.op, r.keys)
Due == \E r \in requests : now >= LatestEnd(r)

(* The bug of also waiting for the goroutine that serves. *)
Drained_Joins ==
  /\ Running /\ main = "shutdown" /\ requests = {} /\ serving = "ended"
  /\ exit' = "done"
  /\ UNCHANGED <<main, serving, mgr, signals, quit, failed, others>>

(* main returns when the connections are drained; main panics when they are not
   by the deadline.  A request at the end of its stay is answered before that. *)
Drained ==
  /\ Running /\ main = "shutdown" /\ requests = {}
  /\ exit' = "done"
  /\ UNCHANGED <<main, serving, mgr, signals, quit, failed, others>>

GiveUp ==
  /\ Running /\ main = "shutdown" /\ requests # {}
  /\ now >= ShutdownDeadline /\ ~Due
  /\ exit' = "panic"
  /\ UNCHANGED <<main, serving, mgr, signals, quit, failed, others>>

-----------------------------------------------------------------------------
(* The goroutine that serves: each step of it goes on, or fails and ends it. *)
startConfigWatcher ==
  /\ Running /\ serving = "config"
  /\ \/ serving' = "scheme" /\ UNCHANGED failed
     \/ ~opts.crd /\ serving' = "ended" /\ failed' = TRUE
  /\ UNCHANGED <<main, mgr, exit, signals, quit, others>>

(* The bug of not waiting for the rotator. *)
awaitRotator_Skips ==
  /\ Running /\ serving = "scheme"
  /\ serving' = IF opts.tls THEN "certs" ELSE "bind"
  /\ UNCHANGED <<main, mgr, exit, signals, quit, failed, others>>

(* The bug of receiving from the channel even when there is none. *)
awaitRotator_NilChannel ==
  /\ Running /\ serving = "scheme"
  /\ opts.tls => ready
  /\ serving' = IF opts.tls THEN "certs" ELSE "bind"
  /\ UNCHANGED <<main, mgr, exit, signals, quit, failed, others>>

(* TLS when both files are named, and then not before the rotator is ready. *)
awaitRotator ==
  /\ Running /\ serving = "scheme"
  /\ (opts.tls /\ opts.rotation) => ready
  /\ serving' = IF opts.tls THEN "certs" ELSE "bind"
  /\ UNCHANGED <<main, mgr, exit, signals, quit, failed, others>>

(* The rotator writes the files; without it somebody else has. *)
FilesExist == opts.rotation => ready

startCertWatcher ==
  /\ Running /\ serving = "certs"
  /\ \/ FilesExist /\ serving' = "bindTLS" /\ UNCHANGED failed
     \/ ~FilesExist /\ serving' = "ended" /\ UNCHANGED failed
     \/ FilesExist /\ serving' = "ended" /\ failed' = TRUE
  /\ UNCHANGED <<main, mgr, exit, signals, quit, others>>

(* A server that was shut down does not listen; the address may be taken. *)
ListenAndServe ==
  /\ Running /\ serving \in {"bind", "bindTLS"}
  /\ \/ /\ main # "shutdown"
        /\ serving' = (IF serving = "bind" THEN "plain" ELSE "tls")
        /\ UNCHANGED failed
     \/ main = "shutdown" /\ serving' = "ended" /\ UNCHANGED failed
     \/ main # "shutdown" /\ serving' = "ended" /\ failed' = TRUE
  /\ UNCHANGED <<main, mgr, exit, signals, quit, others>>

-----------------------------------------------------------------------------
(* The manager: a call that fails ends the process. *)
ManagerStep(from, to) ==
  /\ Running /\ mgr = from
  /\ \/ mgr' = to /\ UNCHANGED <<exit, failed>>
     \/ exit' = "one" /\ failed' = TRUE /\ UNCHANGED mgr
  /\ UNCHANGED <<main, serving, signals, quit, others>>

newManager == ManagerStep("new", "rotator")

setupCertRotator ==
  IF opts.rotation THEN ManagerStep("rotator", "controllers")
  ELSE /\ Running /\ mgr = "rotator" /\ mgr' = "controllers"
       /\ UNCHANGED <<main, serving, exit, signals, quit, failed, others>>

setupCRDControllers ==
  IF opts.crd THEN ManagerStep("controllers", "start")
  ELSE /\ Running /\ mgr = "controllers" /\ mgr' = "start"
       /\ UNCHANGED <<main, serving, exit, signals, quit, failed, others>>

(* SetupSignalHandler and then mgr.Start, which returns when it is cancelled, or
   with an error at any time. *)
startManager ==
  /\ Running /\ mgr = "start"
  /\ mgr' = "started"
  /\ UNCHANGED <<main, serving, exit, signals, quit, failed, others>>

managerFails ==
  /\ Running /\ mgr = "started"
  /\ exit' = "one" /\ failed' = TRUE
  /\ UNCHANGED <<main, serving, mgr, signals, quit, others>>

stopManager == ManagerStep("stopping", "ended")

Rotate ==
  /\ Running /\ mgr = "started" /\ opts.rotation /\ ~ready
  /\ ready' = TRUE
  /\ UNCHANGED <<opts, main, serving, mgr, exit, signals, quit, requests, failed, now, closing>>

-----------------------------------------------------------------------------
(* SIGTERM: everyone who has registered is told, and when nobody has, the
   process dies.  The manager's handler ends the process at the second one. *)
Registered == mgr \in {"started", "stopping", "ended"}
Signal ==
  /\ Running /\ signals < MaxSignals /\ now + VerifyTimeout <= MaxNow
  /\ signals' = signals + 1
  /\ quit' = (quit \/ main = "wait")
  /\ mgr' = IF mgr = "started" THEN "stopping" ELSE mgr
  /\ exit' = IF mgr \in {"stopping", "ended"} THEN "one"
             ELSE IF ~Registered /\ main \notin {"wait", "shutdown"} THEN "killed" ELSE "none"
  /\ UNCHANGED <<main, serving, failed, others>>

(* registerHandlers *)
Served == IF opts.mutation THEN {"verify", "mutate"} ELSE {"verify"}

Accept ==
  /\ Running /\ Listening /\ Cardinality(requests) < MaxRequests
  /\ \E op \in Served, keys \in 1..MaxKeys :
       /\ now + LongestStay(op, keys) <= MaxNow
       /\ requests' = requests \cup {[op |-> op, keys |-> keys, arrived |-> now]}
  /\ UNCHANGED <<opts, main, serving, mgr, ready, exit, signals, quit, failed, now, closing>>

(* The handler has an item for every key and sends its response. *)
Answer(r) ==
  /\ Running
  /\ requests' = requests \ {r}
  /\ UNCHANGED <<opts, main, serving, mgr, ready, exit, signals, quit, failed, now, closing>>

Tick ==
  /\ Running /\ now < MaxNow /\ ~Due
  /\ ~(main = "shutdown" /\ (requests = {} \/ now >= ShutdownDeadline))
  /\ ~(main = "wait" /\ quit)
  /\ now' = now + 1
  /\ UNCHANGED <<opts, main, serving, mgr, ready, exit, signals, quit, requests, failed, closing>>

MainStep == startRatify \/ newServer \/ Run \/ Notify \/ Shutdown \/ Drained \/ GiveUp
ServingStep == startConfigWatcher \/ awaitRotator \/ startCertWatcher \/ ListenAndServe
ManagerSteps == newManager \/ setupCertRotator \/ setupCRDControllers \/ startManager \/ stopManager

Next == \/ MainStep \/ ServingStep \/ ManagerSteps
        \/ managerFails \/ Rotate \/ Signal \/ Accept \/ Tick
        \/ \E r \in requests : Answer(r)

(* Goroutines are scheduled, handlers return, a started rotator gets its
   certificates, and time passes. *)
Fairness == /\ WF_vars(MainStep) /\ WF_vars(ServingStep) /\ WF_vars(ManagerSteps)
            /\ WF_vars(Rotate) /\ WF_vars(\E r \in requests : Answer(r) /\ Due) /\ WF_vars(Tick)

Spec == Init /\ [][Next]_vars
FairSpec == Spec /\ Fairness

-----------------------------------------------------------------------------
(* As long as the process runs and nobody has asked it to stop, its server does
   not go away unless a call on the outside failed: in particular it never dies
   of certificates the rotator has not written yet (<-certRotatorReady). *)
ServesUntilShutdown ==
  (Running /\ serving = "ended") => failed \/ main = "shutdown"

(* A signal that finds the process at work cuts only requests that may stay
   longer than Shutdown waits (VerifyTimeout): a verification of one key, and a
   mutation whose keys fit into that time, is answered before main returns or
   gives up.  A verification of two keys may be cut (Run, middlewareWithTimeout,
   the loops of verify and mutate). *)
NothingIsCut ==
  (main = "shutdown" /\ exit \in {"done", "panic"}) =>
    \A r \in requests : LongestStay(r.op, r.keys) > VerifyTimeout

(* Unless something fails or a signal comes, the server listens in the end: the
   main goroutine, the server and the rotator do not wait on each other. *)
EventuallyListens == opts.address => <>(Listening \/ failed \/ signals > 0)

(* A signal that Run's channel has taken ends the process. *)
SignalEndsProcess == quit ~> ~Running
=============================================================================
