--------------------------- MODULE ExecutorManager ---------------------------
(***************************************************************************)
(* The CRD path of Ratify: Executor objects in the API server, the         *)
(* reconciler of internal/controller/executor_controller.go and the global *)
(* executorManager of internal/controller/executormanager.go, whose        *)
(* executor pointer the HTTP handlers load on every cache miss.            *)
(*                                                                         *)
(* The controller runs one reconcile at a time (SetupWithManager keeps the *)
(* default), but users edit objects, the informer delivers, and status     *)
(* updates are answered while a reconcile is under way.  A reconcile is    *)
(* cut where it gives up control: after the Get, after the manager's       *)
(* critical section and after the status update.                           *)
(***************************************************************************)
EXTENDS ScopedExecutor

CONSTANTS Names,        \* namespaced names of Executor objects
          Specs,        \* specs a user may submit
          Absent,       \* no object, or no entry in the options map
          Artifacts,    \* references that requests ask about
          Faults,       \* which calls may fail for no reason of ours
          MaxEdits,     \* bound on user edits
          MaxRestarts   \* bound on process restarts

ASSUME FaultsAssumption == Faults \subseteq {"build", "status"}
ASSUME NamesAssumption == IsFiniteSet(Names)
ASSUME ArtifactsAssumption == \A a \in Artifacts : a \in References

VARIABLES
  api,       \* [Names -> object or Absent]: the API server
  lister,    \* the informer's copy, which Get reads
  fresh,     \* names whose informer copy has the current resourceVersion
  queue,     \* the work queue, a set because it drops duplicates
  worker,    \* the reconcile under way
  opts,      \* executorManager.opts
  executor,  \* executorManager.executor
  edits, restarts

vars == <<api, lister, fresh, queue, worker, opts, executor, edits, restarts>>

Object(s, st) == [spec |-> s, status |-> st]
Statuses == {"none", "succeeded", "failed"}
Objects == [spec : Specs, status : Statuses]

Idle == [pc |-> "idle"]
Working(n, pc, obj, current, err) ==
  [pc |-> pc, name |-> n, obj |-> obj, current |-> current, err |-> err]

(* The executor pointer: nil, or a table with the options it was built from. *)
NoExecutor == [from |-> [n \in Names |-> Absent]]
Executor(table, o) == [from |-> o, table |-> table]

(***************************************************************************)
(* convertOptions: a CRD store has no scopes of its own to carry over.     *)
(* Admission requires verifiers and stores, so its nil errors never occur. *)
(***************************************************************************)
convertOptions(s) ==
  [scopes |-> s.scopes, verifiers |-> s.verifiers, policy |-> s.policy,
   stores |-> [i \in DOMAIN s.stores |->
                 [type |-> s.stores[i].type, creates |-> s.stores[i].creates,
                  scopes |-> <<>>]]]

(* Absent is neither an object nor a group of options. *)
ASSUME AbsentAssumption ==
  /\ Absent \notin Objects
  /\ \A s \in Specs : convertOptions(s) # Absent

(* Admission and the JSON decoder leave only well-formed options. *)
ASSUME SpecsAssumption == \A s \in Specs : convertOptions(s) \in GroupOptions
ASSUME MaxAssumption == MaxEdits \in Nat /\ MaxRestarts \in Nat

Converted(x) == IF x = Absent THEN Absent ELSE convertOptions(x.spec)

(* The options the objects in the API server call for. *)
desired == [n \in Names |-> Converted(api[n])]

Configured(o) == {n \in Names : o[n] # Absent}
Groups(o) == [n \in Configured(o) |-> o[n]]

(* What building o may return: Go iterates over the options map in any order. *)
Builds(o) == {NewScopedExecutor([i \in DOMAIN order |-> o[order[i]]]) :
                order \in SetToSeqs(Configured(o))}
Buildable(o) == \A made \in Builds(o) : made.ok

Init ==
  /\ api = [n \in Names |-> Absent]
  /\ lister = api
  /\ fresh = Names
  /\ queue = {}
  /\ worker = Idle
  /\ opts = [n \in Names |-> Absent]
  /\ executor = NoExecutor
  /\ edits = 0 /\ restarts = 0

-----------------------------------------------------------------------------
(* Every write to an object moves its resourceVersion. *)
Write(n, x) ==
  /\ api' = [api EXCEPT ![n] = x]
  /\ fresh' = fresh \ {n}

(* The copy a reconcile holds loses its currency when somebody else writes. *)
Outdate(n) ==
  worker' = IF worker # Idle /\ worker.name = n
            THEN Working(n, worker.pc, worker.obj, FALSE, worker.err) ELSE worker

UserEdit(n, x) ==
  /\ edits < MaxEdits
  /\ edits' = edits + 1
  /\ Write(n, x)
  /\ Outdate(n)
  /\ UNCHANGED <<lister, queue, opts, executor, restarts>>

Create(n) == api[n] = Absent /\ \E s \in Specs : UserEdit(n, Object(s, "none"))

Update(n) ==
  /\ api[n] # Absent
  /\ \E s \in Specs \ {api[n].spec} : UserEdit(n, Object(s, api[n].status))

Delete(n) == api[n] # Absent /\ UserEdit(n, Absent)

(* The watch brings the informer up to date and enqueues the name. *)
Deliver(n) ==
  /\ n \notin fresh
  /\ lister' = [lister EXCEPT ![n] = api[n]]
  /\ fresh' = fresh \cup {n}
  /\ queue' = queue \cup {n}
  /\ UNCHANGED <<api, worker, opts, executor, edits, restarts>>

(* The periodic resync of the informer enqueues what it holds. *)
Resync(n) ==
  /\ lister[n] # Absent /\ n \notin queue
  /\ queue' = queue \cup {n}
  /\ UNCHANGED <<api, lister, fresh, worker, opts, executor, edits, restarts>>

-----------------------------------------------------------------------------
(***************************************************************************)
(* Reconcile takes a name and reads the object.  Any error but NotFound is *)
(* returned, which puts the name back: a step that changes nothing.        *)
(***************************************************************************)
ReconcileGet(n) ==
  /\ worker = Idle /\ n \in queue
  /\ queue' = queue \ {n}
  /\ worker' = Working(n, IF lister[n] = Absent THEN "delete" ELSE "upsert",
                       lister[n], n \in fresh, FALSE)
  /\ UNCHANGED <<api, lister, fresh, opts, executor, edits, restarts>>

(* The bug of storing the nil executor that comes with an error. *)
refreshExecutor_StoresNil(o, failed) ==
  \E made \in Builds(o) :
    \/ made.ok /\ ~failed /\ executor' = Executor(made.val, o)
    \/ failed /\ (~made.ok \/ "build" \in Faults) /\ executor' = NoExecutor

(***************************************************************************)
(* refreshExecutor with options o: a new executor replaces the pointer, or *)
(* the error leaves it alone.  Plugin constructors reach key vaults and    *)
(* files, so with the fault "build" any attempt may fail.                  *)
(***************************************************************************)
refreshExecutor(o, failed) ==
  \E made \in Builds(o) :
    \/ /\ made.ok /\ ~failed
       /\ executor' = Executor(made.val, o)
    \/ /\ failed /\ (~made.ok \/ "build" \in Faults)
       /\ UNCHANGED executor

(* The bug of taking new options over only when they build. *)
upsertExecutor_OnlyOnSuccess ==
  /\ worker # Idle /\ worker.pc = "upsert"
  /\ LET new == [opts EXCEPT ![worker.name] = convertOptions(worker.obj.spec)]
     IN \E failed \in BOOLEAN :
          /\ refreshExecutor(new, failed)
          /\ opts' = IF failed THEN opts ELSE new
          /\ worker' = Working(worker.name, "status", worker.obj, worker.current, failed)
  /\ UNCHANGED <<api, lister, fresh, queue, edits, restarts>>

(* The bug of refreshing before the new options are stored. *)
upsertExecutor_RefreshFirst ==
  /\ worker # Idle /\ worker.pc = "upsert"
  /\ opts' = [opts EXCEPT ![worker.name] = convertOptions(worker.obj.spec)]
  /\ \E failed \in BOOLEAN :
       /\ refreshExecutor(opts, failed)
       /\ worker' = Working(worker.name, "status", worker.obj, worker.current, failed)
  /\ UNCHANGED <<api, lister, fresh, queue, edits, restarts>>

(* upsertExecutor, under the mutex. *)
upsertExecutor ==
  /\ worker # Idle /\ worker.pc = "upsert"
  /\ opts' = [opts EXCEPT ![worker.name] = convertOptions(worker.obj.spec)]
  /\ \E failed \in BOOLEAN :
       /\ refreshExecutor(opts', failed)
       /\ worker' = Working(worker.name, "status", worker.obj, worker.current, failed)
  /\ UNCHANGED <<api, lister, fresh, queue, edits, restarts>>

(* The bug of a deletion that does not refresh. *)
deleteExecutor_NoRefresh ==
  /\ worker # Idle /\ worker.pc = "delete"
  /\ worker' = Idle
  /\ opts' = [opts EXCEPT ![worker.name] = Absent]
  /\ UNCHANGED <<api, lister, fresh, queue, executor, edits, restarts>>

(* deleteExecutor, under the mutex; its caller only logs the error. *)
deleteExecutor ==
  /\ worker # Idle /\ worker.pc = "delete"
  /\ worker' = Idle
  /\ IF opts[worker.name] # Absent
     THEN /\ opts' = [opts EXCEPT ![worker.name] = Absent]
          /\ \E failed \in BOOLEAN : refreshExecutor(opts', failed)
     ELSE UNCHANGED <<opts, executor>>
  /\ UNCHANGED <<api, lister, fresh, queue, edits, restarts>>

(***************************************************************************)
(* updateStatus: the API server refuses a copy that is no longer current,  *)
(* and the code only logs the refusal; an update that changes nothing      *)
(* moves no resourceVersion.  The error text names the group that failed   *)
(* first, so with several groups, or with transient failures, two failed   *)
(* attempts may write different texts.                                     *)
(***************************************************************************)
NewStatus_IgnoresError == "succeeded"
NewStatus == IF worker.err THEN "failed" ELSE "succeeded"
TextMayDiffer == worker.err /\ (Cardinality(Configured(opts)) > 1 \/ "build" \in Faults)

updateStatus ==
  /\ worker # Idle /\ worker.pc = "status"
  /\ worker' = Idle
  /\ \/ /\ worker.current
        /\ worker.obj.status # NewStatus \/ TextMayDiffer
        /\ Write(worker.name, Object(worker.obj.spec, NewStatus))
     \/ /\ \/ ~worker.current
           \/ worker.obj.status = NewStatus
           \/ "status" \in Faults
        /\ UNCHANGED <<api, fresh>>
  /\ UNCHANGED <<lister, queue, opts, executor, edits, restarts>>

(* The process restarts: memory is lost, the first list enqueues every object. *)
Restart ==
  /\ restarts < MaxRestarts
  /\ restarts' = restarts + 1
  /\ lister' = api
  /\ fresh' = Names
  /\ queue' = {n \in Names : api[n] # Absent}
  /\ worker' = Idle
  /\ opts' = [n \in Names |-> Absent]
  /\ executor' = NoExecutor
  /\ UNCHANGED <<api, edits>>

(* The reconcile under way, whatever its stage. *)
ReconcileStep == upsertExecutor \/ deleteExecutor \/ updateStatus

Next == \/ \E n \in Names : Create(n) \/ Update(n) \/ Delete(n)
        \/ \E n \in Names : Deliver(n) \/ Resync(n) \/ ReconcileGet(n)
        \/ ReconcileStep
        \/ Restart

(***************************************************************************)
(* Watches deliver, no queued name is passed over for ever (the work queue *)
(* is first in, first out), and a reconcile runs to its end.  Every stage  *)
(* of a reconcile can always be taken, so the last conjunct is the weak    *)
(* fairness of ReconcileStep without its costly enabling condition.        *)
(***************************************************************************)
Fairness == /\ \A n \in Names : WF_vars(Deliver(n)) /\ SF_vars(ReconcileGet(n))
            /\ []<>(worker = Idle)

Spec == Init /\ [][Next]_vars
FairSpec == Spec /\ Fairness

-----------------------------------------------------------------------------
Options == {convertOptions(s) : s \in Specs}
Reconciles == [pc : {"upsert", "delete", "status"}, name : Names,
               obj : Objects \cup {Absent}, current : BOOLEAN, err : BOOLEAN]

(* Every variable holds a value of its kind. *)
TypeOK ==
  /\ api \in [Names -> Objects \cup {Absent}]
  /\ lister \in [Names -> Objects \cup {Absent}]
  /\ fresh \subseteq Names /\ queue \subseteq Names
  /\ opts \in [Names -> Options \cup {Absent}]
  /\ executor.from \in [Names -> Options \cup {Absent}]
  /\ worker \in Reconciles \cup {Idle}
  /\ edits \in 0..MaxEdits /\ restarts \in 0..MaxRestarts

(* Nothing is on its way: informer up to date, queue empty, no reconcile. *)
Quiescent == fresh = Names /\ queue = {} /\ worker = Idle

(* Whenever the controller is at rest the manager's options are exactly those
   of the objects in the API server, whatever edits raced with reconciles,
   whatever builds and status updates failed, and across restarts: the errors
   that Reconcile swallows never lose an edit. *)
Converged == Quiescent => opts = desired

(* At rest, if the objects in the API server can be built together, they are
   what the executor pointer serves (upsertExecutor and deleteExecutor refresh
   after every change of the options). *)
ServesDesired ==
  (Quiescent /\ Configured(desired) # {} /\ Buildable(desired) /\ "build" \notin Faults)
     => executor.from = desired

(* At rest, an object whose status says Succeeded is served as its spec says:
   no later failure elsewhere takes it out of the executor (updateStatus). *)
SucceededIsServed ==
  (Quiescent /\ "status" \notin Faults) =>
     \A n \in Names : (api[n] # Absent /\ api[n].status = "succeeded")
                        => executor.from[n] = convertOptions(api[n].spec)

(* Every request that finds an executor pointer is routed by the objects that
   pointer was built from: to the one with the most specific scope for its
   artifact, to none only when no object has one, and behind it to a store and
   to trust policies, whichever order the options map was iterated in
   (refreshExecutor, ValidateArtifact, Resolve). *)
RequestsReachOwners ==
  executor # NoExecutor =>
    \A a \in Artifacts : /\ RoutedByScope(executor.table, Groups(executor.from), a)
                          /\ RoutedInside(executor.table, a)

(* While the process lives, a reconcile takes an object out of service only
   after the informer saw it deleted: a failed refresh keeps what was served
   before, so the pointer of a broken configuration is never nil
   (refreshExecutor). *)
NoServiceGap ==
  [][restarts' = restarts =>
       \A n \in Names :
         (executor.from[n] # Absent /\ executor'.from[n] = Absent)
            => lister[n] = Absent \/ n \in queue]_vars

(* Once edits and restarts are over, objects that can be built together end up
   served and stay served (the edits are bounded, so this reads: eventually). *)
EventuallyServed ==
  <>[]((Configured(desired) # {} /\ Buildable(desired)) => executor.from = desired)

(* deleteExecutor's comment: it "removes an executor instance under the given
   namespace and name". *)
DeletedIsNotServed ==
  Quiescent => \A n \in Names : api[n] = Absent => executor.from[n] = Absent
=============================================================================
