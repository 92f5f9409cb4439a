---------------------------- MODULE Startup_proofs ----------------------------
(***************************************************************************)
(* Proofs about Startup for any command lines, timeouts, and any number of *)
(* signals and of requests in flight.                                      *)
(***************************************************************************)
EXTENDS Startup, TLAPS

(* The clock, the moment of the shutdown and the requests have their types, and
   nothing in flight arrived in the future. *)
Clocked ==
  /\ now \in Nat /\ closing \in Nat
  /\ requests \subseteq [op : {"verify", "mutate"}, keys : Nat, arrived : Nat]
  /\ \A r \in requests : r.arrived <= now

(* Once Shutdown was called nobody listens, so that everything in flight had
   arrived by then. *)
Closed ==
  main = "shutdown" => ~Listening /\ \A r \in requests : r.arrived <= closing

CutInv == Clocked /\ Closed /\ NothingIsCut

(* The requests in flight cannot grow, and time and the shutdown stand still. *)
LEMMA FewerRequests ==
  ASSUME CutInv, requests' \subseteq requests, UNCHANGED <<now, closing, main>>,
         Listening' => Listening \/ main # "shutdown",
         main = "shutdown" => exit' \notin {"done", "panic"} \/ requests' = {}
  PROVE  CutInv'
<1>1. Clocked'
  BY DEF CutInv, Clocked
<1>2. Closed'
  BY DEF CutInv, Closed
<1>3. NothingIsCut'
  BY DEF NothingIsCut
<1> QED BY <1>1, <1>2, <1>3 DEF CutInv

(* The main goroutine goes on, but not into the shutdown. *)
LEMMA MainGoesOn ==
  ASSUME CutInv, main' # "shutdown", UNCHANGED <<now, closing, requests>>
  PROVE  CutInv'
BY DEF CutInv, Clocked, Closed, NothingIsCut

(* When Shutdown gives up, every request that is still there may stay longer
   than Shutdown waits. *)
LEMMA GiveUpCutsNothing == CutInv /\ GiveUp => CutInv'
<1> SUFFICES ASSUME CutInv, GiveUp PROVE CutInv'
  OBVIOUS
<1>1. /\ main = "shutdown" /\ now >= closing + VerifyTimeout
      /\ UNCHANGED <<now, closing, requests, main, serving>>
      /\ \A r \in requests : ~(now >= r.arrived + LongestStay(r.op, r.keys))
  BY DEF GiveUp, Due, LatestEnd, ShutdownDeadline, others
<1>2. ASSUME NEW r \in requests PROVE LongestStay(r.op, r.keys) > VerifyTimeout
  <2>1. /\ r.arrived \in Nat /\ r.arrived <= closing /\ now \in Nat /\ closing \in Nat
        /\ r.keys \in Nat /\ Timeout(r.op) \in Nat /\ VerifyTimeout \in Nat
    BY <1>1, TimesAssumption DEF CutInv, Clocked, Closed, Timeout
  <2>2. PICK stay \in Nat : stay = LongestStay(r.op, r.keys)
    <3>1. \A m, n \in Nat : m * n \in Nat
      OBVIOUS
    <3> QED BY <2>1, <3>1 DEF LongestStay
  <2>3. ~(now >= r.arrived + stay)
    BY <1>1, <2>2
  <2>4. stay > VerifyTimeout
    BY <1>1, <2>1, <2>3
  <2> QED BY <2>2, <2>4
<1>3. NothingIsCut'
  BY <1>1, <1>2 DEF NothingIsCut, LongestStay, Timeout
<1>4. Clocked' /\ Closed'
  BY <1>1 DEF CutInv, Clocked, Closed, Listening
<1> QED BY <1>3, <1>4 DEF CutInv

(* Every step keeps the invariant on requests in flight. *)
LEMMA CutInvStep == CutInv /\ [Next]_vars => CutInv'
<1> SUFFICES ASSUME CutInv, [Next]_vars PROVE CutInv'
  OBVIOUS
<1> USE DEF others
<1>1. CASE startRatify \/ newServer \/ Run \/ Notify
  BY <1>1, MainGoesOn DEF startRatify, newServer, Run, Notify
<1>2. CASE Shutdown
  <2>1. /\ closing' = now /\ main' = "shutdown" /\ UNCHANGED <<requests, exit, now>>
        /\ ~Listening' /\ exit = "none"
    BY <1>2 DEF Shutdown, Listening, Running
  <2>2. Clocked' /\ Closed'
    BY <2>1 DEF CutInv, Clocked, Closed
  <2>3. NothingIsCut'
    BY <2>1 DEF NothingIsCut
  <2> QED BY <2>2, <2>3 DEF CutInv
<1>3. CASE Drained
  BY <1>3, FewerRequests DEF Drained, Listening
<1>4. CASE GiveUp
  BY <1>4, GiveUpCutsNothing
<1>5. CASE ServingStep
  <2>1. UNCHANGED <<now, closing, requests, main, exit>> /\ Running
    BY <1>5 DEF ServingStep, startConfigWatcher, awaitRotator, startCertWatcher, ListenAndServe
  <2>2. Listening' => main # "shutdown"
    BY <1>5 DEF ServingStep, startConfigWatcher, awaitRotator, startCertWatcher, ListenAndServe,
                Listening
  <2> QED BY <2>1, <2>2, FewerRequests DEF Running
<1>6. CASE ManagerSteps \/ managerFails
  <2>1. UNCHANGED <<now, closing, requests, main, serving>> /\ exit' \in {"none", "one"}
    BY <1>6 DEF managerFails, ManagerSteps, newManager, setupCertRotator, setupCRDControllers, startManager,
                stopManager, ManagerStep, Running
  <2> QED BY <2>1, FewerRequests DEF Listening
<1>7. CASE Rotate \/ Signal
  <2>1. UNCHANGED <<now, closing, requests, main, serving>> /\ exit' \in {"none", "one", "killed"}
    BY <1>7 DEF Rotate, Signal, Running
  <2> QED BY <2>1, FewerRequests DEF Listening
<1>8. CASE Accept
  <2>1. PICK op \in Served, keys \in 1..MaxKeys :
          requests' = requests \cup {[op |-> op, keys |-> keys, arrived |-> now]}
    BY <1>8 DEF Accept
  <2>2. /\ UNCHANGED <<main, serving, exit, now, closing>> /\ Running /\ Listening
        /\ op \in {"verify", "mutate"} /\ keys \in Nat
    BY <1>8, MaxKeysAssumption DEF Accept, Served
  <2>3. Clocked'
    <3>1. now <= now
      BY DEF CutInv, Clocked
    <3> QED BY <2>1, <2>2, <3>1 DEF CutInv, Clocked
  <2>4. main' # "shutdown"
    BY <2>2 DEF CutInv, Closed
  <2> QED BY <2>3, <2>4 DEF CutInv, Closed, NothingIsCut
<1>9. ASSUME NEW r \in requests, Answer(r) PROVE CutInv'
  BY <1>9, FewerRequests DEF Answer, Running, Listening
<1>10. CASE Tick
  <2>1. now' = now + 1 /\ UNCHANGED <<main, serving, exit, requests, closing>> /\ Running
    BY <1>10 DEF Tick
  <2>2. Clocked'
    BY <2>1 DEF CutInv, Clocked
  <2> QED BY <2>1, <2>2 DEF CutInv, Closed, NothingIsCut, Listening, Running
<1>11. CASE UNCHANGED vars
  BY <1>11 DEF vars, CutInv, Clocked, Closed, NothingIsCut, Listening
<1> QED BY <1>1, <1>2, <1>3, <1>4, <1>5, <1>6, <1>7, <1>8, <1>9, <1>10, <1>11
        DEF Next, MainStep

(* A process that was asked to stop answers everything in flight that cannot
   stay longer than Shutdown waits, before main returns or gives up: requests
   that may wait for one timeout after another, key by key, are the only ones cut. *)
THEOREM ShutdownCutsNothing == Spec => []NothingIsCut
<1>1. Init => CutInv
  BY DEF Init, CutInv, Clocked, Closed, NothingIsCut
<1>2. CutInv => NothingIsCut
  BY DEF CutInv
<1> QED BY <1>1, <1>2, CutInvStep, PTL DEF Spec

-----------------------------------------------------------------------------
(* The certificate watcher is started only when there are files to watch. *)
CertsAreThere == serving = "certs" => FilesExist

ServeInv == CertsAreThere /\ ServesUntilShutdown

(* Nobody but a failed call and the shutdown ends the goroutine that serves. *)
LEMMA ServeInvStep == ServeInv /\ [Next]_vars => ServeInv'
<1> SUFFICES ASSUME ServeInv, [Next]_vars PROVE ServeInv'
  OBVIOUS
<1> USE DEF others, ServeInv, CertsAreThere, ServesUntilShutdown, Running, FilesExist
<1>1. CASE startRatify \/ newServer \/ Run \/ Notify \/ Drained \/ GiveUp
  BY <1>1 DEF startRatify, newServer, Run, Notify, Drained, GiveUp
<1>2. CASE Shutdown
  BY <1>2 DEF Shutdown, Listening
<1>3. CASE startConfigWatcher \/ awaitRotator
  BY <1>3 DEF startConfigWatcher, awaitRotator
<1>4. CASE startCertWatcher \/ ListenAndServe
  BY <1>4 DEF startCertWatcher, ListenAndServe
<1>5. CASE ManagerSteps \/ managerFails
  BY <1>5 DEF managerFails, ManagerSteps, newManager, setupCertRotator, setupCRDControllers, startManager,
              stopManager, ManagerStep
<1>6. CASE Rotate \/ Signal \/ Accept \/ Tick
  BY <1>6 DEF Rotate, Signal, Accept, Tick
<1>7. ASSUME NEW r \in requests, Answer(r) PROVE ServeInv'
  BY <1>7 DEF Answer
<1>8. CASE UNCHANGED vars
  BY <1>8 DEF vars
<1> QED BY <1>1, <1>2, <1>3, <1>4, <1>5, <1>6, <1>7, <1>8 DEF Next, MainStep, ServingStep

(* The server that runs stays unless a call on the outside failed or somebody
   asked it to stop: it waits for the rotator's certificates before it uses them. *)
THEOREM StaysUntilShutdown == Spec => []ServesUntilShutdown
<1>1. Init => ServeInv
  BY DEF Init, ServeInv, CertsAreThere, ServesUntilShutdown
<1>2. ServeInv => ServesUntilShutdown
  BY DEF ServeInv
<1> QED BY <1>1, <1>2, ServeInvStep, PTL DEF Spec
=============================================================================
