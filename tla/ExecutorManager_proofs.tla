----------------------- MODULE ExecutorManager_proofs -----------------------
(***************************************************************************)
(* Proofs about ExecutorManager for any set of names and specs, any faults *)
(* and any bounds, and about ScopedBuild for any set of configurations.    *)
(***************************************************************************)
EXTENDS ExecutorManager, ScopedBuild, FiniteSetTheorems, SequenceTheorems, WellFoundedInduction, TLAPS

(* A reconcile is under way for n. *)
Handling(n) == worker # Idle /\ worker.name = n

(* The informer's copy equals the object once it has its resourceVersion. *)
FreshCopies == \A n \in fresh : lister[n] = api[n]

(* A reconcile that still has to touch the options map carries the informer's
   copy, unless the name is queued again; with neither, the map already has it. *)
Mirrored ==
  \A n \in Names \ queue :
    IF Handling(n) /\ worker.pc # "status" THEN worker.obj = lister[n]
    ELSE opts[n] = Converted(lister[n])

(* The stage of a reconcile tells whether its object existed. *)
StageFitsObject ==
  worker # Idle => ((worker.pc = "delete") <=> (worker.obj = Absent))

(* What a reconcile holds is the object itself while nobody writes to it;
   after a write the name is due again. *)
HeldCopy ==
  worker # Idle =>
    IF worker.current THEN worker.obj = api[worker.name]
    ELSE worker.name \notin fresh \/ worker.name \in queue

ManagerInv == TypeOK /\ FreshCopies /\ Mirrored /\ StageFitsObject /\ HeldCopy

(* Only a missing object converts to missing options (convertOptions). *)
LEMMA ConvertedAbsent ==
  ASSUME NEW x \in Objects \cup {Absent}
  PROVE  Converted(x) \in Options \cup {Absent} /\ (Converted(x) = Absent <=> x = Absent)
BY AbsentAssumption DEF Converted, Options, Objects

(* The idle worker is not a reconcile. *)
LEMMA IdleIsNoReconcile == Idle \notin Reconciles
BY DEF Idle, Reconciles

(* Initially nothing is configured anywhere. *)
LEMMA ManagerInvInit == Init => ManagerInv
<1> SUFFICES ASSUME Init PROVE ManagerInv
  OBVIOUS
<1>1. TypeOK
  BY MaxAssumption DEF Init, TypeOK, NoExecutor
<1>2. FreshCopies /\ Mirrored /\ StageFitsObject /\ HeldCopy
  BY DEF Init, FreshCopies, Mirrored, StageFitsObject, HeldCopy, Handling, Converted
<1> QED BY <1>1, <1>2 DEF ManagerInv

-----------------------------------------------------------------------------
(* A user's write moves the object away from every copy of it. *)
LEMMA UserEditStep ==
  ASSUME ManagerInv, NEW n \in Names, NEW x \in Objects \cup {Absent}, UserEdit(n, x)
  PROVE  ManagerInv'
<1> USE DEF UserEdit, Write, Outdate, Working
<1>1. TypeOK'
  BY MaxAssumption, IdleIsNoReconcile DEF ManagerInv, TypeOK, Reconciles
<1>2. /\ worker # Idle <=> worker' # Idle
      /\ worker # Idle => /\ worker'.pc = worker.pc /\ worker'.name = worker.name
                          /\ worker'.obj = worker.obj
                          /\ worker'.current = (worker.current /\ worker.name # n)
  BY IdleIsNoReconcile DEF ManagerInv, TypeOK, Reconciles, Idle
<1>3. FreshCopies'
  BY DEF ManagerInv, FreshCopies, TypeOK
<1>4. Mirrored' /\ StageFitsObject'
  BY <1>2 DEF ManagerInv, Mirrored, StageFitsObject, Handling
<1>5. HeldCopy'
  BY <1>2 DEF ManagerInv, HeldCopy, TypeOK, Reconciles
<1> QED BY <1>1, <1>3, <1>4, <1>5 DEF ManagerInv

(* A delivery makes the copy fresh and the name due. *)
LEMMA DeliverStep ==
  ASSUME ManagerInv, NEW n \in Names, Deliver(n)
  PROVE  ManagerInv'
<1> USE DEF Deliver
<1>1. TypeOK'
  BY DEF ManagerInv, TypeOK
<1>2. FreshCopies' /\ StageFitsObject'
  BY DEF ManagerInv, FreshCopies, StageFitsObject, TypeOK
<1>3. Mirrored'
  BY DEF ManagerInv, Mirrored, Handling, TypeOK
<1>4. HeldCopy'
  BY DEF ManagerInv, HeldCopy, TypeOK
<1> QED BY <1>1, <1>2, <1>3, <1>4 DEF ManagerInv

(* A resync keeps the invariant: it only enqueues. *)
LEMMA ResyncStep ==
  ASSUME ManagerInv, NEW n \in Names, Resync(n)
  PROVE  ManagerInv'
BY DEF Resync, ManagerInv, TypeOK, FreshCopies, Mirrored, StageFitsObject, HeldCopy, Handling

(* A reconcile that begins holds the informer's copy. *)
LEMMA ReconcileGetStep ==
  ASSUME ManagerInv, NEW n \in Names, ReconcileGet(n)
  PROVE  ManagerInv'
<1> USE DEF ReconcileGet
<1>1. worker' \in Reconciles /\ worker' # Idle /\ worker'.name = n /\ worker'.obj = lister[n]
      /\ worker'.pc = (IF lister[n] = Absent THEN "delete" ELSE "upsert")
      /\ worker'.current = (n \in fresh)
  BY IdleIsNoReconcile DEF ManagerInv, TypeOK, Working, Reconciles, Idle
<1>2. TypeOK'
  BY <1>1 DEF ManagerInv, TypeOK
<1>3. FreshCopies' /\ StageFitsObject'
  BY <1>1 DEF ManagerInv, FreshCopies, StageFitsObject
<1>4. Mirrored'
  BY <1>1 DEF ManagerInv, Mirrored, Handling
<1>5. HeldCopy'
  BY <1>1 DEF ManagerInv, HeldCopy, FreshCopies
<1> QED BY <1>2, <1>3, <1>4, <1>5 DEF ManagerInv

(* A refresh keeps the executor or builds it from the new options. *)
LEMMA RefreshOutcome ==
  ASSUME NEW o, NEW failed \in BOOLEAN, refreshExecutor(o, failed)
  PROVE  IF failed THEN executor' = executor ELSE executor'.from = o
BY DEF refreshExecutor, Executor

(* The upsert brings the options map up to the copy it holds. *)
LEMMA UpsertStep ==
  ASSUME ManagerInv, upsertExecutor
  PROVE  /\ ManagerInv'
         /\ worker'.err = FALSE => executor'.from = opts'
         /\ worker'.err = TRUE => executor' = executor
<1> USE DEF upsertExecutor
<1>1. /\ worker \in Reconciles /\ worker.name \in Names /\ worker.obj \in Objects
      /\ convertOptions(worker.obj.spec) \in Options
  BY DEF ManagerInv, TypeOK, StageFitsObject, Reconciles, Options, Objects
<1>2. PICK failed \in BOOLEAN : /\ refreshExecutor(opts', failed)
                                /\ worker' = Working(worker.name, "status", worker.obj,
                                                      worker.current, failed)
  OBVIOUS
<1>3. /\ worker' \in Reconciles /\ worker' # Idle /\ worker'.name = worker.name
      /\ worker'.obj = worker.obj /\ worker'.pc = "status"
      /\ worker'.current = worker.current /\ worker'.err = failed
  BY <1>1, <1>2, IdleIsNoReconcile DEF Reconciles, Working
<1>4. opts' \in [Names -> Options \cup {Absent}]
  BY <1>1 DEF ManagerInv, TypeOK
<1>5. IF failed THEN executor' = executor ELSE executor'.from = opts'
  BY <1>2, RefreshOutcome
<1>6. TypeOK'
  BY <1>3, <1>4, <1>5 DEF ManagerInv, TypeOK
<1>7. FreshCopies' /\ StageFitsObject' /\ HeldCopy'
  BY <1>1, <1>3, AbsentAssumption DEF ManagerInv, FreshCopies, StageFitsObject, HeldCopy
<1>8. Mirrored'
  BY <1>1, <1>3, AbsentAssumption DEF ManagerInv, Mirrored, Handling, Converted, TypeOK
<1> QED BY <1>3, <1>5, <1>6, <1>7, <1>8 DEF ManagerInv

(* The delete empties the entry of a name the informer no longer has. *)
LEMMA DeleteStep ==
  ASSUME ManagerInv, deleteExecutor
  PROVE  /\ ManagerInv'
         /\ executor' = executor \/ executor'.from = opts'
         /\ worker.obj = Absent /\ worker' = Idle
<1> USE DEF deleteExecutor
<1>1. /\ worker \in Reconciles /\ worker.name \in Names /\ worker.obj = Absent
  BY DEF ManagerInv, TypeOK, StageFitsObject, Reconciles
<1>2. /\ opts' = [opts EXCEPT ![worker.name] = Absent]
      /\ executor' = executor \/ executor'.from = opts'
  <2>1. CASE opts[worker.name] # Absent
    BY <2>1, RefreshOutcome
  <2>2. CASE opts[worker.name] = Absent
    BY <2>2, <1>1 DEF ManagerInv, TypeOK
  <2> QED BY <2>1, <2>2
<1>3. TypeOK'
  BY <1>1, <1>2 DEF ManagerInv, TypeOK
<1>4. FreshCopies' /\ StageFitsObject' /\ HeldCopy'
  BY DEF ManagerInv, FreshCopies, StageFitsObject, HeldCopy
<1>5. Mirrored'
  BY <1>1, <1>2 DEF ManagerInv, Mirrored, Handling, Converted, TypeOK
<1> QED BY <1>1, <1>2, <1>3, <1>4, <1>5 DEF ManagerInv

(* The status update writes nothing but the object it still holds. *)
LEMMA UpdateStatusStep ==
  ASSUME ManagerInv, updateStatus
  PROVE  ManagerInv'
<1> USE DEF updateStatus
<1>1. /\ worker \in Reconciles /\ worker.name \in Names /\ worker.obj \in Objects
      /\ Object(worker.obj.spec, NewStatus) \in Objects
  BY DEF ManagerInv, TypeOK, StageFitsObject, Reconciles, Objects, Object, NewStatus, Statuses
<1>2. \/ Write(worker.name, Object(worker.obj.spec, NewStatus))
      \/ UNCHANGED <<api, fresh>>
  OBVIOUS
<1>3. TypeOK'
  BY <1>1, <1>2 DEF ManagerInv, TypeOK, Write
<1>4. FreshCopies' /\ StageFitsObject' /\ HeldCopy'
  BY <1>1, <1>2 DEF ManagerInv, FreshCopies, StageFitsObject, HeldCopy, Write, TypeOK
<1>5. Mirrored'
  BY <1>1 DEF ManagerInv, Mirrored, Handling
<1> QED BY <1>3, <1>4, <1>5 DEF ManagerInv

(* After a restart every object is due. *)
LEMMA RestartStep ==
  ASSUME ManagerInv, Restart
  PROVE  ManagerInv'
<1> USE DEF Restart
<1>1. TypeOK'
  BY MaxAssumption DEF ManagerInv, TypeOK, NoExecutor
<1>2. FreshCopies' /\ StageFitsObject' /\ HeldCopy'
  BY DEF ManagerInv, FreshCopies, StageFitsObject, HeldCopy
<1>3. Mirrored'
  BY DEF Mirrored, Handling, Converted
<1> QED BY <1>1, <1>2, <1>3 DEF ManagerInv

(* Every step keeps the invariant of the manager, one case per action. *)
LEMMA ManagerInvStep == ManagerInv /\ [Next]_vars => ManagerInv'
<1> SUFFICES ASSUME ManagerInv, [Next]_vars PROVE ManagerInv'
  OBVIOUS
<1>1. ASSUME NEW n \in Names, Create(n) PROVE ManagerInv'
  BY <1>1, UserEditStep DEF Create, Objects, Object, Statuses
<1>2. ASSUME NEW n \in Names, Update(n) PROVE ManagerInv'
  <2>1. api[n] \in Objects
    BY <1>2 DEF ManagerInv, TypeOK, Update
  <2> QED BY <1>2, <2>1, UserEditStep DEF Update, Objects, Object
<1>3. ASSUME NEW n \in Names, Delete(n) PROVE ManagerInv'
  BY <1>3, UserEditStep DEF Delete
<1>4. ASSUME NEW n \in Names, Deliver(n) \/ Resync(n) \/ ReconcileGet(n) PROVE ManagerInv'
  BY <1>4, DeliverStep, ResyncStep, ReconcileGetStep
<1>5. CASE ReconcileStep
  BY <1>5, UpsertStep, DeleteStep, UpdateStatusStep DEF ReconcileStep
<1>6. CASE Restart
  BY <1>6, RestartStep
<1>7. CASE UNCHANGED vars
  BY <1>7 DEF vars, ManagerInv, TypeOK, FreshCopies, Mirrored, StageFitsObject, HeldCopy, Handling
<1> QED BY <1>1, <1>2, <1>3, <1>4, <1>5, <1>6, <1>7 DEF Next

(* The inductive invariant behind the theorems on the options: whatever the
   manager does not know yet is in an event, in the queue or in the reconcile
   under way (Reconcile, upsertExecutor, deleteExecutor). *)
THEOREM ManagerInvariant == Spec => []ManagerInv
<1>1. Init => ManagerInv
  BY ManagerInvInit
<1>2. ManagerInv /\ [Next]_vars => ManagerInv'
  BY ManagerInvStep
<1> QED BY <1>1, <1>2, PTL DEF Spec

(* The state of the reconciler, the manager and the API objects stays typed. *)
THEOREM TypeCorrect == Spec => []TypeOK
BY ManagerInvariant, PTL DEF ManagerInv

(* Whatever races and failures a reconcile met, at rest the options map holds
   exactly what the objects in the API server say. *)
THEOREM OptionsConverge == Spec => []Converged
<1>1. ManagerInv => Converged
  BY DEF ManagerInv, Converged, Quiescent, desired, FreshCopies, Mirrored, Handling, TypeOK
<1> QED BY <1>1, ManagerInvariant, PTL

-----------------------------------------------------------------------------
(* The executor is the one of the current options whenever they can be built. *)
InForce ==
  ("build" \notin Faults /\ Configured(opts) # {} /\ Buildable(opts)) => executor.from = opts

(* A refresh of options that can be built does not fail. *)
LEMMA RefreshBuilds ==
  ASSUME NEW o, NEW failed \in BOOLEAN, refreshExecutor(o, failed),
         Buildable(o), "build" \notin Faults
  PROVE  executor'.from = o
BY DEF refreshExecutor, Buildable, Executor

(* Every step keeps the tie between the options and the executor pointer
   (refreshExecutor). *)
LEMMA InForceStep == InForce /\ [Next]_vars => InForce'
<1> SUFFICES ASSUME InForce, [Next]_vars,
                    "build" \notin Faults, Configured(opts') # {}, Buildable(opts')
             PROVE  executor'.from = opts'
  BY DEF InForce, Configured, Buildable, Builds
<1>1. CASE upsertExecutor
  BY <1>1, RefreshBuilds DEF upsertExecutor
<1>2. CASE deleteExecutor
  <2>1. CASE opts[worker.name] # Absent
    BY <1>2, <2>1, RefreshBuilds DEF deleteExecutor
  <2>2. CASE opts[worker.name] = Absent
    BY <1>2, <2>2 DEF deleteExecutor, InForce
  <2> QED BY <2>1, <2>2
<1>3. CASE Restart
  BY <1>3 DEF Restart, Configured
<1>4. CASE UNCHANGED <<opts, executor>>
  BY <1>4 DEF InForce
<1>5. \/ upsertExecutor \/ deleteExecutor \/ Restart \/ UNCHANGED <<opts, executor>>
  BY DEF Next, vars, ReconcileStep, Create, Update, Delete, UserEdit, Deliver, Resync,
         ReconcileGet, updateStatus
<1> QED BY <1>1, <1>2, <1>3, <1>4, <1>5

(* At rest, objects that can be built together are what the pointer serves. *)
THEOREM DesiredIsServed == Spec => []ServesDesired
<1>1. Init => InForce
  BY DEF Init, InForce, Configured
<1>2. InForce /\ [Next]_vars => InForce'
  BY InForceStep
<1>3. Converged /\ InForce => ServesDesired
  BY DEF Converged, InForce, ServesDesired
<1> QED BY <1>1, <1>2, <1>3, OptionsConverge, PTL DEF Spec

-----------------------------------------------------------------------------
(* n is settled: its copy is fresh and nothing is due or under way for it. *)
Settled(n) == n \in fresh /\ n \notin queue /\ ~Handling(n)

(* A settled object whose status is Succeeded is in the executor as its spec
   says, and so is the object of a reconcile that has just succeeded. *)
StatusTruth ==
  "status" \notin Faults =>
    /\ \A n \in Names :
         (Settled(n) /\ api[n] # Absent /\ api[n].status = "succeeded")
            => executor.from[n] = convertOptions(api[n].spec)
    /\ (worker # Idle /\ worker.pc = "status" /\ ~worker.err)
            => executor.from[worker.name] = convertOptions(worker.obj.spec)

(* Settled objects are in the options map already (from Mirrored). *)
LEMMA SettledOptions ==
  ASSUME ManagerInv, NEW n \in Names, Settled(n), api[n] # Absent
  PROVE  opts[n] = convertOptions(api[n].spec)
BY DEF ManagerInv, Settled, Mirrored, FreshCopies, Converted

(* Every step keeps a succeeded status true or leaves an event that will
   rewrite it (updateStatus). *)
LEMMA StatusTruthStep == ManagerInv /\ StatusTruth /\ [Next]_vars => StatusTruth'
<1> SUFFICES ASSUME ManagerInv, StatusTruth, [Next]_vars, "status" \notin Faults
             PROVE  StatusTruth'
  BY DEF StatusTruth
<1> USE DEF StatusTruth
<1>0. ManagerInv'
  BY ManagerInvStep
<1>1. ASSUME NEW m \in Names, NEW x, UserEdit(m, x) PROVE StatusTruth'
  <2>1. /\ worker # Idle <=> worker' # Idle
        /\ worker # Idle => /\ worker'.pc = worker.pc /\ worker'.name = worker.name
                            /\ worker'.obj = worker.obj /\ worker'.err = worker.err
    BY <1>1 DEF UserEdit, Outdate, Working, Idle
  <2> QED BY <1>1, <2>1 DEF UserEdit, Write, Settled, Handling, ManagerInv, TypeOK
<1>2. ASSUME NEW m \in Names, Deliver(m) \/ Resync(m) PROVE StatusTruth'
  BY <1>2 DEF Deliver, Resync, Settled, Handling
<1>3. ASSUME NEW m \in Names, ReconcileGet(m) PROVE StatusTruth'
  BY <1>3 DEF ReconcileGet, Settled, Handling, Working, Idle
<1>4. CASE upsertExecutor
  <2>1. PICK failed \in BOOLEAN :
          worker' = Working(worker.name, "status", worker.obj, worker.current, failed)
    BY <1>4 DEF upsertExecutor
  <2>2. worker' # Idle /\ worker'.name = worker.name /\ worker'.obj = worker.obj
        /\ worker'.err = failed
    BY <2>1 DEF Working, Idle
  <2>3. worker.name \in Names /\ opts \in [Names -> Options \cup {Absent}]
        /\ opts' = [opts EXCEPT ![worker.name] = convertOptions(worker.obj.spec)]
    BY <1>4 DEF ManagerInv, TypeOK, Reconciles, upsertExecutor
  <2>4. ASSUME NEW n \in Names, Settled(n)' PROVE Settled(n) /\ opts'[n] = opts[n]
    BY <1>4, <2>2, <2>3, <2>4 DEF Settled, Handling, upsertExecutor
  <2>5. CASE failed
    <3>1. executor' = executor /\ api' = api
      BY <1>4, <2>2, <2>5, UpsertStep DEF upsertExecutor
    <3> QED BY <2>2, <2>4, <2>5, <3>1
  <2>6. CASE ~failed
    <3>1. executor'.from = opts' /\ api' = api
      BY <1>4, <2>2, <2>6, UpsertStep DEF upsertExecutor
    <3> QED BY <2>2, <2>3, <2>4, <3>1, SettledOptions
  <2> QED BY <2>5, <2>6
<1>5. CASE deleteExecutor
  <2>1. /\ worker' = Idle /\ worker.obj = Absent /\ worker.name \in Names
        /\ UNCHANGED <<api, lister, fresh, queue>>
        /\ executor' = executor \/ executor'.from = opts'
    BY <1>5, DeleteStep DEF deleteExecutor, ManagerInv, TypeOK, Reconciles
  <2>2. ASSUME NEW n \in Names, Settled(n)', api[n] # Absent
        PROVE  Settled(n)
    BY <1>5, <2>1, <2>2 DEF Settled, Handling, ManagerInv, Mirrored, FreshCopies, deleteExecutor
  <2>3. ASSUME NEW n \in Names, Settled(n)', api[n] # Absent
        PROVE  opts'[n] = convertOptions(api[n].spec)
    BY <2>1, <2>3, <1>0 DEF Settled, ManagerInv, Mirrored, FreshCopies, Converted, Handling
  <2> QED BY <2>1, <2>2, <2>3
<1>6. CASE updateStatus
  <2>1. /\ worker \in Reconciles /\ worker.name \in Names /\ worker' = Idle /\ worker # Idle
        /\ UNCHANGED <<lister, queue, opts, executor>>
    BY <1>6 DEF updateStatus, ManagerInv, TypeOK, Reconciles
  <2>2. CASE Write(worker.name, Object(worker.obj.spec, NewStatus))
    BY <2>1, <2>2 DEF Write, Settled, Handling, ManagerInv, TypeOK
  <2>3. CASE /\ ~worker.current \/ worker.obj.status = NewStatus
             /\ UNCHANGED <<api, fresh>>
    <3>1. ASSUME NEW n \in Names, n # worker.name, Settled(n)' PROVE Settled(n)
      BY <2>1, <2>3, <3>1 DEF Settled, Handling
    <3>2. ASSUME NEW n \in Names, n = worker.name, Settled(n)', api[n].status = "succeeded"
          PROVE  executor.from[n] = convertOptions(api[n].spec)
      <4>1. n \in fresh /\ n \notin queue
        BY <2>1, <2>3, <3>2 DEF Settled
      <4>2. worker.current /\ worker.obj = api[n]
        BY <2>1, <3>2, <4>1 DEF ManagerInv, HeldCopy, Reconciles
      <4>3. ~worker.err
        BY <2>3, <3>2, <4>2 DEF NewStatus
      <4> QED BY <1>6, <2>1, <3>2, <4>2, <4>3 DEF updateStatus
    <3> QED BY <2>1, <2>3, <3>1, <3>2
  <2> QED BY <1>6, <2>2, <2>3 DEF updateStatus
<1>7. CASE Restart
  BY <1>7 DEF Restart, Settled
<1>8. CASE UNCHANGED vars
  BY <1>8 DEF vars, Settled, Handling
<1> QED BY <1>1, <1>2, <1>3, <1>4, <1>5, <1>6, <1>7, <1>8
       DEF Next, ReconcileStep, Create, Update, Delete

(* At rest, Succeeded in a status means served. *)
THEOREM SucceededStatusIsTrue == Spec => []SucceededIsServed
<1>1. Init => StatusTruth
  BY DEF Init, StatusTruth
<1>2. ManagerInv /\ StatusTruth /\ [Next]_vars => StatusTruth'
  BY StatusTruthStep
<1>3. StatusTruth => SucceededIsServed
  BY DEF StatusTruth, SucceededIsServed, Quiescent, Settled, Handling
<1> QED BY <1>1, <1>2, <1>3, ManagerInvariant, PTL DEF Spec

-----------------------------------------------------------------------------
(* A name leaves the executor only after the informer saw it go. *)
LEMMA GapStep ==
  ASSUME ManagerInv, [Next]_vars, restarts' = restarts, NEW n \in Names,
         executor.from[n] # Absent, executor'.from[n] = Absent
  PROVE  lister[n] = Absent \/ n \in queue
<1>1. CASE UNCHANGED executor
  BY <1>1
<1>2. CASE upsertExecutor \/ deleteExecutor
  <2>1. ManagerInv' /\ opts'[n] = Absent
    <3>1. CASE upsertExecutor
      <4>1. worker'.err \in BOOLEAN
        BY <3>1 DEF upsertExecutor, Working
      <4> QED BY <3>1, <4>1, UpsertStep
    <3>2. CASE deleteExecutor
      BY <3>2, DeleteStep
    <3> QED BY <1>2, <3>1, <3>2
  <2>2. lister' = lister /\ queue' = queue
    BY <1>2 DEF upsertExecutor, deleteExecutor
  <2>3. worker' = Idle \/ worker'.pc = "status"
    BY <1>2 DEF upsertExecutor, deleteExecutor, Working
  <2> QED BY <2>1, <2>2, <2>3, ConvertedAbsent DEF ManagerInv, Mirrored, TypeOK, Handling
<1>3. ~Restart
  BY DEF Restart, ManagerInv, TypeOK
<1> QED BY <1>1, <1>2, <1>3
       DEF Next, vars, ReconcileStep, Create, Update, Delete, UserEdit, Deliver, Resync,
           ReconcileGet, updateStatus

(* While the process lives, nothing but a deletion takes an object out of service. *)
THEOREM ServiceHasNoGap == Spec => NoServiceGap
<1>1. ManagerInv /\ [Next]_vars =>
        [restarts' = restarts =>
           \A n \in Names : (executor.from[n] # Absent /\ executor'.from[n] = Absent)
                               => lister[n] = Absent \/ n \in queue]_vars
  BY GapStep
<1> QED BY <1>1, ManagerInvariant, PTL DEF Spec, NoServiceGap

-----------------------------------------------------------------------------
(***************************************************************************)
(* The scope table the manager's executor routes with.                     *)
(***************************************************************************)

(* The map, and the key in it, that a legal scope belongs to. *)
KeyOf(s) ==
  IF s.path # "none" THEN RepositoryKey(s.host, s.path)
  ELSE IF s.host[1] = "*" THEN WildcardKey(Tail(s.host)) ELSE RegistryKey(s.host)

(* t is the table that gives every scope s of owner its executor owner[s]. *)
Holds(t, owner) ==
  /\ owner = [s \in DOMAIN owner |-> owner[s]]
  /\ \A s \in DOMAIN owner : s \in ScopeStrings /\ Legal(s)
  /\ t = [k \in {KeyOf(s) : s \in DOMAIN owner} |->
            owner[CHOOSE s \in DOMAIN owner : KeyOf(s) = k]]

(* strings.Count against positions: no star, or one star at the front of a
   longer name, is what the count and the prefix "*." tell (registerRegistry). *)
LEMMA StarsCount ==
  ASSUME NEW host \in Seq(STRING)
  PROVE  /\ Stars(host) \in Nat
         /\ Stars(host) = 0 <=> StarFree(host)
         /\ (Stars(host) = 1 /\ Len(host) > 1 /\ host[1] = "*") <=> StarFirst(host)
<1> DEFINE S == {i \in DOMAIN host : host[i] = "*"}
<1>1. DOMAIN host = 1..Len(host) /\ Len(host) \in Nat
  OBVIOUS
<1>2. IsFiniteSet(S) /\ Cardinality(S) \in Nat
  <2>1. IsFiniteSet(1..Len(host))
    BY <1>1, FS_Interval
  <2>2. S \in SUBSET (1..Len(host))
    BY <1>1
  <2>3. IsFiniteSet(S)
    BY <2>1, <2>2, FS_Subset
  <2> QED BY <2>3, FS_CardinalityType
<1>3. Cardinality(S) = 0 <=> StarFree(host)
  <2>1. Cardinality(S) = 0 <=> S = {}
    BY <1>2, FS_EmptySet
  <2> QED BY <2>1 DEF StarFree
<1>4. (Cardinality(S) = 1 /\ Len(host) > 1 /\ host[1] = "*") <=> StarFirst(host)
  <2>1. Cardinality(S) = 1 <=> \E x : S = {x}
    BY <1>2, FS_Singleton
  <2>2. ASSUME StarFirst(host)
        PROVE  Cardinality(S) = 1 /\ Len(host) > 1 /\ host[1] = "*"
    <3>1. S = {1} /\ Len(host) > 1 /\ host[1] = "*"
      BY <1>1, <2>2 DEF StarFirst
    <3> QED BY <2>1, <3>1
  <2>3. ASSUME Cardinality(S) = 1, Len(host) > 1, host[1] = "*"
        PROVE  StarFirst(host)
    <3>1. PICK x : S = {x}
      BY <2>1, <2>3
    <3>2. 1 \in S
      BY <1>1, <2>3
    <3>3. S = {1}
      BY <3>1, <3>2
    <3> QED BY <1>1, <2>3, <3>3 DEF StarFirst
  <2> QED BY <2>2, <2>3
<1> QED BY <1>2, <1>3, <1>4 DEF Stars

(* Cutting the first label off two names leaves the same rest exactly when
   the names agree on every later label (the key of the wildcard map). *)
LEMMA TailsByLabel ==
  ASSUME NEW h \in Seq(STRING), NEW g \in Seq(STRING), h # <<>>, g # <<>>
  PROVE  Tail(h) = Tail(g)
           <=> Len(h) = Len(g) /\ \A i \in 2..Len(h) : h[i] = g[i]
<1>1. /\ Len(h) \in Nat \ {0} /\ Len(g) \in Nat \ {0}
      /\ Tail(h) \in Seq(STRING) /\ Tail(g) \in Seq(STRING)
      /\ Len(Tail(h)) = Len(h) - 1 /\ Len(Tail(g)) = Len(g) - 1
  OBVIOUS
<1>2. /\ \A j \in 1..(Len(h) - 1) : Tail(h)[j] = h[j + 1]
      /\ \A j \in 1..(Len(g) - 1) : Tail(g)[j] = g[j + 1]
  BY <1>1
<1>3. ASSUME Tail(h) = Tail(g) PROVE Len(h) = Len(g) /\ \A i \in 2..Len(h) : h[i] = g[i]
  <2>1. \A m, n \in Nat \ {0} : m - 1 = n - 1 => m = n
    OBVIOUS
  <2>2. Len(h) = Len(g)
    BY <1>1, <1>3, <2>1, Zenon
  <2>3. ASSUME NEW i \in 2..Len(h) PROVE h[i] = g[i]
    <3>1. i - 1 \in 1..(Len(h) - 1) /\ (i - 1) + 1 = i
      BY <1>1
    <3> QED BY <1>2, <1>3, <2>2, <3>1
  <2> QED BY <2>2, <2>3
<1>4. ASSUME Len(h) = Len(g), \A i \in 2..Len(h) : h[i] = g[i] PROVE Tail(h) = Tail(g)
  <2>1. ASSUME NEW j \in 1..Len(Tail(h)) PROVE Tail(h)[j] = Tail(g)[j]
    <3>1. j \in 1..(Len(h) - 1) /\ j + 1 \in 2..Len(h)
      BY <1>1
    <3> QED BY <1>2, <1>4, <3>1
  <2> QED BY <1>1, <1>4, <2>1, SeqEqual
<1> QED BY <1>3, <1>4

(* Two legal scopes never share a key, so the "already registered" test
   refuses the same scope and nothing else. *)
LEMMA KeysTellScopes ==
  ASSUME NEW s \in ScopeStrings, NEW u \in ScopeStrings, Legal(s), Legal(u),
         KeyOf(s) = KeyOf(u)
  PROVE  s = u
<1>1. s.path = u.path /\ s.host = u.host
  <2>1. CASE s.path # "none"
    BY <2>1 DEF KeyOf, RepositoryKey, RegistryKey, WildcardKey
  <2>2. CASE s.path = "none" /\ s.host[1] # "*"
    BY <2>2 DEF KeyOf, RepositoryKey, RegistryKey, WildcardKey
  <2>3. CASE s.path = "none" /\ s.host[1] = "*"
    <3>1. u.path = "none" /\ u.host[1] = "*" /\ Tail(s.host) = Tail(u.host)
      BY <2>3 DEF KeyOf, RepositoryKey, RegistryKey, WildcardKey
    <3>2. s.host \in Seq(STRING) /\ u.host \in Seq(STRING) /\ s.host # <<>> /\ u.host # <<>>
      BY DEF Legal, ScopeStrings
    <3>3. s.host = u.host
      <4>1. Len(s.host) = Len(u.host) /\ \A i \in 2..Len(s.host) : s.host[i] = u.host[i]
        BY <3>1, <3>2, TailsByLabel
      <4>2. \A i \in 1..Len(s.host) : s.host[i] = u.host[i]
        BY <2>3, <3>1, <3>2, <4>1
      <4> QED BY <3>2, <4>1, <4>2, SeqEqual
    <3> QED BY <2>3, <3>1, <3>3
  <2> QED BY <2>1, <2>2, <2>3
<1> QED BY <1>1 DEF ScopeStrings, Legal

(* registerExecutor inserts under KeyOf(s) exactly the legal scopes that are
   not there yet, and leaves the table alone otherwise. *)
LEMMA RegistersExactlyLegal ==
  ASSUME NEW t, NEW s \in ScopeStrings, NEW e
  PROVE  registerExecutor(t, s, e) =
           IF Legal(s) /\ KeyOf(s) \notin DOMAIN t
           THEN Registered(Extend(t, KeyOf(s), e)) ELSE Rejected(t)
<1> USE DEF ScopeStrings
<1>0. s.host \in Seq(STRING) /\ s.path \in STRING /\ s.ref \in BOOLEAN /\ s.parses \in BOOLEAN
  OBVIOUS
<1>1. /\ Stars(s.host) \in Nat
      /\ Stars(s.host) = 0 <=> StarFree(s.host)
      /\ (Stars(s.host) = 1 /\ Len(s.host) > 1 /\ s.host[1] = "*") <=> StarFirst(s.host)
  BY <1>0, StarsCount
<1>2. CASE EmptyScope(s)
  BY <1>2 DEF EmptyScope, registerExecutor, Legal
<1>3. CASE s.path # "none"
  <2>1. KeyOf(s) = RepositoryKey(s.host, s.path)
    BY <1>3 DEF KeyOf
  <2>2. registerExecutor(t, s, e) = registerRepository(t, s, e)
    BY <1>3 DEF registerExecutor, EmptyScope
  <2>3. Legal(s) <=> ~(Stars(s.host) > 0 \/ s.path = "*" \/ ~s.parses \/ s.ref)
    BY <1>0, <1>1, <1>3 DEF Legal
  <2> QED BY <2>1, <2>2, <2>3 DEF registerRepository, InsertNew
<1>4. CASE s.path = "none" /\ s.host # <<>>
  <2>2. registerExecutor(t, s, e) = registerRegistry(t, s, e)
    BY <1>4 DEF registerExecutor, EmptyScope
  <2>3. CASE ~s.parses
    BY <2>2, <2>3 DEF registerRegistry, Legal
  <2>4. CASE s.parses /\ Stars(s.host) = 0
    <3>1. StarFree(s.host) /\ Legal(s)
      BY <1>1, <1>4, <2>4 DEF Legal
    <3>2. 1 \in DOMAIN s.host
      BY <1>0, <1>4
    <3>3. KeyOf(s) = RegistryKey(s.host)
      BY <1>4, <3>1, <3>2 DEF KeyOf, StarFree
    <3>4. registerRegistry(t, s, e) = InsertNew(t, RegistryKey(s.host), e)
      BY <2>4 DEF registerRegistry
    <3> QED BY <2>2, <3>1, <3>3, <3>4 DEF InsertNew
  <2>5. CASE s.parses /\ Stars(s.host) = 1
    <3>1. ~StarFree(s.host)
      BY <1>1, <2>5
    <3>2. registerRegistry(t, s, e) = IF Len(s.host) > 1 /\ s.host[1] = "*"
                                      THEN InsertNew(t, WildcardKey(Tail(s.host)), e)
                                      ELSE Rejected(t)
      BY <2>5 DEF registerRegistry
    <3>3. Legal(s) <=> (Len(s.host) > 1 /\ s.host[1] = "*")
      BY <1>0, <1>1, <1>4, <2>5, <3>1 DEF Legal
    <3>4. Legal(s) => KeyOf(s) = WildcardKey(Tail(s.host))
      BY <1>4, <3>3 DEF KeyOf
    <3> QED BY <2>2, <3>2, <3>3, <3>4 DEF InsertNew
  <2>6. CASE s.parses /\ Stars(s.host) # 0 /\ Stars(s.host) # 1
    <3>1. ~Legal(s)
      BY <1>1, <1>4, <2>6 DEF Legal
    <3>2. registerRegistry(t, s, e) = Rejected(t)
      BY <2>6 DEF registerRegistry
    <3> QED BY <2>2, <3>1, <3>2
  <2> QED BY <1>0, <2>3, <2>4, <2>5, <2>6
<1> QED BY <1>2, <1>3, <1>4 DEF EmptyScope

(* A table that holds the scopes of owner has their keys and their executors. *)
LEMMA TableOfScopes ==
  ASSUME NEW t, NEW owner, Holds(t, owner)
  PROVE  /\ DOMAIN t = {KeyOf(s) : s \in DOMAIN owner}
         /\ \A s \in DOMAIN owner : t[KeyOf(s)] = owner[s]
<1>1. DOMAIN t = {KeyOf(s) : s \in DOMAIN owner}
  BY DEF Holds
<1>2. ASSUME NEW s \in DOMAIN owner PROVE t[KeyOf(s)] = owner[s]
  <2> DEFINE u == CHOOSE x \in DOMAIN owner : KeyOf(x) = KeyOf(s)
  <2>1. u \in DOMAIN owner /\ KeyOf(u) = KeyOf(s)
    OBVIOUS
  <2>2. u = s
    <3> HIDE DEF u
    <3> QED BY <2>1, KeysTellScopes DEF Holds
  <2>3. t[KeyOf(s)] = owner[u]
    BY DEF Holds
  <2> QED BY <2>2, <2>3
<1> QED BY <1>1, <1>2

(* What the table can look up: the star stands for exactly one label. *)
CoversExactly(s, a) ==
  /\ Len(s.host) = Len(a.host)
  /\ \A i \in DOMAIN s.host : s.host[i] \in {a.host[i], "*"}
  /\ s.path \in {"none", a.path}

(* The three look-ups of matchExecutor find the exactly covering scopes of the
   three degrees of specificity, one look-up for each. *)
LEMMA CoveredByKey ==
  ASSUME NEW s \in ScopeStrings, Legal(s),
         NEW a \in References, a.parses
  PROVE  /\ Specificity(s) \in 1..3
         /\ CoversExactly(s, a) /\ Specificity(s) = 3 <=> KeyOf(s) = RepositoryKey(a.host, a.path)
         /\ CoversExactly(s, a) /\ Specificity(s) = 2 <=> KeyOf(s) = RegistryKey(a.host)
         /\ CoversExactly(s, a) /\ Specificity(s) = 1
              <=> Len(a.host) > 1 /\ KeyOf(s) = WildcardKey(Tail(a.host))
<1> USE DEF RepositoryKey, RegistryKey, WildcardKey
<1>0. /\ s.host \in Seq(STRING) /\ a.host \in Seq(STRING)
      /\ s.host # <<>> /\ a.host # <<>> /\ a.path # "none"
      /\ \A i \in DOMAIN a.host : a.host[i] # "*"
  BY DEF ScopeStrings, References, Legal, StarFree
<1>1. ASSUME StarFree(s.host)
      PROVE  s.host[1] # "*" /\ (CoversExactly(s, a) <=> s.host = a.host /\ s.path \in {"none", a.path})
  <2>1. s.host[1] # "*"
    BY <1>0, <1>1 DEF StarFree
  <2>2. ASSUME CoversExactly(s, a) PROVE s.host = a.host
    <3>1. Len(s.host) = Len(a.host)
      BY <2>2 DEF CoversExactly
    <3>2. \A i \in 1..Len(s.host) : s.host[i] = a.host[i]
      BY <1>0, <1>1, <2>2 DEF CoversExactly, StarFree
    <3> QED BY <1>0, <3>1, <3>2, SeqEqual
  <2> QED BY <2>1, <2>2 DEF CoversExactly
<1>2. CASE s.path # "none"
  <2>1. StarFree(s.host) /\ Specificity(s) = 3 /\ KeyOf(s) = RepositoryKey(s.host, s.path)
    BY <1>2 DEF Legal, Specificity, KeyOf
  <2> QED BY <1>1, <1>2, <2>1
<1>3. CASE s.path = "none" /\ StarFree(s.host)
  <2>1. Specificity(s) = 2 /\ KeyOf(s) = RegistryKey(s.host)
    BY <1>1, <1>3 DEF Specificity, KeyOf
  <2> QED BY <1>1, <1>3, <2>1
<1>4. CASE s.path = "none" /\ StarFirst(s.host)
  <2>1. Len(s.host) > 1 /\ s.host[1] = "*" /\ \A i \in DOMAIN s.host : i # 1 => s.host[i] # "*"
    BY <1>0, <1>4 DEF StarFirst
  <2>2. Specificity(s) = 1 /\ KeyOf(s) = WildcardKey(Tail(s.host))
    BY <1>4, <2>1 DEF Specificity, KeyOf
  <2>3. ASSUME CoversExactly(s, a) PROVE Len(a.host) > 1 /\ Tail(s.host) = Tail(a.host)
    <3>1. Len(a.host) = Len(s.host)
      BY <2>3 DEF CoversExactly
    <3>2. \A i \in 2..Len(s.host) : s.host[i] = a.host[i]
      BY <1>0, <2>1, <2>3 DEF CoversExactly
    <3> QED BY <1>0, <2>1, <3>1, <3>2, TailsByLabel
  <2>4. ASSUME Len(a.host) > 1, Tail(s.host) = Tail(a.host) PROVE CoversExactly(s, a)
    <3>1. Len(s.host) = Len(a.host) /\ \A i \in 2..Len(s.host) : s.host[i] = a.host[i]
      BY <1>0, <2>4, TailsByLabel
    <3>2. \A i \in DOMAIN s.host : s.host[i] \in {a.host[i], "*"}
      BY <1>0, <2>1, <3>1
    <3> QED BY <1>4, <3>1, <3>2 DEF CoversExactly
  <2> QED BY <2>2, <2>3, <2>4
<1> QED BY <1>2, <1>3, <1>4 DEF Legal

(* For any table made from legal scopes, registerExecutor accepts a scope
   exactly when it is legal and has no owner yet; it then adds that one owner
   and disturbs no other, and with an error it leaves the table as it was. *)
THEOREM RegistrationKeepsOneOwner ==
  ASSUME NEW t, NEW owner, Holds(t, owner), NEW s \in ScopeStrings, NEW e
  PROVE  LET r == registerExecutor(t, s, e)
         IN /\ r.ok <=> Legal(s) /\ s \notin DOMAIN owner
            /\ r.ok => Holds(r.table, [u \in DOMAIN owner \cup {s} |->
                                         IF u = s THEN e ELSE owner[u]])
            /\ ~r.ok => r.table = t
<1> DEFINE r == registerExecutor(t, s, e)
<1> DEFINE more == [u \in DOMAIN owner \cup {s} |-> IF u = s THEN e ELSE owner[u]]
<1>1. DOMAIN t = {KeyOf(u) : u \in DOMAIN owner} /\ \A u \in DOMAIN owner : t[KeyOf(u)] = owner[u]
  BY TableOfScopes
<1>2. \A u \in DOMAIN owner : u \in ScopeStrings /\ Legal(u)
  BY DEF Holds
<1>3. Legal(s) => (KeyOf(s) \in DOMAIN t <=> s \in DOMAIN owner)
  BY <1>1, <1>2, KeysTellScopes
<1>4. r = IF Legal(s) /\ s \notin DOMAIN owner
          THEN Registered(Extend(t, KeyOf(s), e)) ELSE Rejected(t)
  BY <1>3, RegistersExactlyLegal
<1>5. /\ r.ok <=> Legal(s) /\ s \notin DOMAIN owner
      /\ r.ok => r.table = Extend(t, KeyOf(s), e)
      /\ ~r.ok => r.table = t
  BY <1>4 DEF Registered, Rejected
<1>6. ASSUME Legal(s), s \notin DOMAIN owner
      PROVE  Holds(Extend(t, KeyOf(s), e), more)
  <2>1. \A u \in DOMAIN more : u \in ScopeStrings /\ Legal(u)
    BY <1>2, <1>6
  <2> DEFINE keys == {KeyOf(u) : u \in DOMAIN more}
  <2>2. DOMAIN t \cup {KeyOf(s)} = keys
    BY <1>1
  <2>3. ASSUME NEW k \in keys
        PROVE  (IF k = KeyOf(s) THEN e ELSE t[k]) = more[CHOOSE u \in DOMAIN more : KeyOf(u) = k]
    <3> DEFINE v == CHOOSE u \in DOMAIN more : KeyOf(u) = k
    <3>1. v \in DOMAIN more /\ KeyOf(v) = k
      OBVIOUS
    <3> HIDE DEF v
    <3>2. k = KeyOf(s) => v = s
      BY <1>6, <2>1, <3>1, KeysTellScopes
    <3>3. k # KeyOf(s) => v # s /\ v \in DOMAIN owner
      BY <3>1
    <3>4. (IF k = KeyOf(s) THEN e ELSE t[k]) = more[v]
      BY <1>1, <3>1, <3>2, <3>3
    <3> QED BY <3>4 DEF v
  <2>4. Extend(t, KeyOf(s), e) = [k \in keys |-> more[CHOOSE u \in DOMAIN more : KeyOf(u) = k]]
    <3> HIDE DEF keys, more
    <3> QED BY <2>2, <2>3 DEF Extend
  <2>5. more = [u \in DOMAIN more |-> more[u]]
    OBVIOUS
  <2> HIDE DEF more
  <2> QED BY <2>1, <2>4, <2>5 DEF Holds
<1> QED BY <1>5, <1>6

(* For any table made from legal scopes and any artifact, matchExecutor finds
   an executor exactly when some scope covers the artifact with one label for
   the star, and it is the owner of the most specific of these. *)
LEMMA LooksUpExactScopes ==
  ASSUME NEW t, NEW owner, Holds(t, owner), NEW a \in References
  PROVE  LET got == matchExecutor(t, a)
             covering == {s \in DOMAIN owner : a.parses /\ CoversExactly(s, a)}
         IN /\ got.ok <=> covering # {}
            /\ got.ok => \E s \in covering :
                 /\ got.target = owner[s]
                 /\ \A u \in covering \ {s} : Specificity(u) < Specificity(s)
<1> DEFINE got == matchExecutor(t, a)
<1> DEFINE covering == {s \in DOMAIN owner : a.parses /\ CoversExactly(s, a)}
<1>1. DOMAIN t = {KeyOf(s) : s \in DOMAIN owner} /\ \A s \in DOMAIN owner : t[KeyOf(s)] = owner[s]
  BY TableOfScopes
<1>2. \A s \in DOMAIN owner : s \in ScopeStrings /\ Legal(s)
  BY DEF Holds
<1>3. CASE ~a.parses
  BY <1>3 DEF matchExecutor, NotFound
<1>4. CASE a.parses
  <2> DEFINE k1 == RepositoryKey(a.host, a.path)
             k2 == RegistryKey(a.host)
             k3 == WildcardKey(Tail(a.host))
             long == Len(a.host) > 1
  <2>1. \A s \in DOMAIN owner :
          /\ Specificity(s) \in 1..3
          /\ (s \in covering /\ Specificity(s) = 3) <=> KeyOf(s) = k1
          /\ (s \in covering /\ Specificity(s) = 2) <=> KeyOf(s) = k2
          /\ (s \in covering /\ Specificity(s) = 1) <=> long /\ KeyOf(s) = k3
    BY <1>2, <1>4, CoveredByKey
  <2>2. \A s, u \in DOMAIN owner : KeyOf(s) = KeyOf(u) => s = u
    BY <1>2, KeysTellScopes
  <2>3. got = IF k1 \in DOMAIN t THEN Found(t[k1])
              ELSE IF k2 \in DOMAIN t THEN Found(t[k2])
              ELSE IF long /\ k3 \in DOMAIN t THEN Found(t[k3]) ELSE NotFound
    BY <1>4 DEF matchExecutor
  <2>4. covering \subseteq DOMAIN owner
    OBVIOUS
  <2> HIDE DEF got, covering, k1, k2, k3, long
  <2>5. CASE k1 \in DOMAIN t
    <3>1. PICK s \in DOMAIN owner : KeyOf(s) = k1
      BY <1>1, <2>5
    <3>2. got.ok /\ got.target = owner[s]
      BY <1>1, <2>3, <2>5, <3>1 DEF Found
    <3>3. s \in covering /\ Specificity(s) = 3
      BY <2>1, <3>1
    <3>4. \A u \in covering \ {s} : Specificity(u) < 3
      BY <2>1, <2>2, <2>4, <3>1
    <3> QED BY <3>2, <3>3, <3>4 DEF got, covering
  <2>6. CASE k1 \notin DOMAIN t /\ k2 \in DOMAIN t
    <3>1. PICK s \in DOMAIN owner : KeyOf(s) = k2
      BY <1>1, <2>6
    <3>2. got.ok /\ got.target = owner[s]
      BY <1>1, <2>3, <2>6, <3>1 DEF Found
    <3>3. s \in covering /\ Specificity(s) = 2
      BY <2>1, <3>1
    <3>4. \A u \in covering \ {s} : Specificity(u) < 2
      BY <1>1, <2>1, <2>2, <2>4, <2>6, <3>1
    <3> QED BY <3>2, <3>3, <3>4 DEF got, covering
  <2>7. CASE k1 \notin DOMAIN t /\ k2 \notin DOMAIN t /\ long /\ k3 \in DOMAIN t
    <3>1. PICK s \in DOMAIN owner : KeyOf(s) = k3
      BY <1>1, <2>7
    <3>2. got.ok /\ got.target = owner[s]
      BY <1>1, <2>3, <2>7, <3>1 DEF Found
    <3>3. s \in covering /\ Specificity(s) = 1
      BY <2>1, <2>7, <3>1
    <3>4. \A u \in covering \ {s} : Specificity(u) < 1
      BY <1>1, <2>1, <2>2, <2>4, <2>7, <3>1
    <3> QED BY <3>2, <3>3, <3>4 DEF got, covering
  <2>8. CASE k1 \notin DOMAIN t /\ k2 \notin DOMAIN t /\ ~(long /\ k3 \in DOMAIN t)
    <3>1. ~got.ok
      BY <2>3, <2>8 DEF NotFound
    <3>2. covering = {}
      BY <1>1, <2>1, <2>4, <2>8
    <3> QED BY <3>1, <3>2 DEF got, covering
  <2> QED BY <2>5, <2>6, <2>7, <2>8
<1> QED BY <1>3, <1>4

(* A legal scope that covers an artifact does so label by label, unless it is a
   wildcard with fewer labels than the artifact. *)
LEMMA CoversByLength ==
  ASSUME NEW s \in ScopeStrings, Legal(s), NEW a \in References, a.parses
  PROVE  /\ CoversExactly(s, a) => Covers(s, a) /\ Len(s.host) = Len(a.host)
         /\ Covers(s, a) /\ ~CoversExactly(s, a) => Specificity(s) = 1 /\ Len(s.host) < Len(a.host)
<1>0. /\ s.host \in Seq(STRING) /\ a.host \in Seq(STRING)
      /\ s.host # <<>> /\ a.host # <<>> /\ a.path # "none"
      /\ Len(s.host) \in Nat /\ Len(a.host) \in Nat
      /\ \A i \in DOMAIN a.host : a.host[i] # "*"
  BY DEF ScopeStrings, References, Legal, StarFree
<1>1. CASE StarFree(s.host)
  <2>1. ~StarFirst(s.host)
    BY <1>0, <1>1 DEF StarFree, StarFirst
  <2>2. ASSUME CoversExactly(s, a) PROVE s.host = a.host
    <3>1. Len(s.host) = Len(a.host) /\ \A i \in 1..Len(s.host) : s.host[i] = a.host[i]
      BY <1>0, <1>1, <2>2 DEF CoversExactly, StarFree
    <3> QED BY <1>0, <3>1, SeqEqual
  <2>3. ASSUME s.host = a.host, s.path \in {"none", a.path} PROVE CoversExactly(s, a)
    BY <2>3 DEF CoversExactly
  <2> QED BY <2>1, <2>2, <2>3 DEF Covers, CoversExactly
<1>2. CASE StarFirst(s.host) /\ s.path = "none"
  <2>1. /\ Len(s.host) > 1 /\ s.host[1] = "*"
        /\ \A i \in 2..Len(s.host) : s.host[i] # "*"
    BY <1>0, <1>2 DEF StarFirst
  <2>2. s.host # a.host /\ Specificity(s) = 1
    BY <1>0, <1>2, <2>1 DEF Specificity
  <2>3. ASSUME Len(s.host) = Len(a.host)
        PROVE  CoversExactly(s, a) <=> \A i \in 2..Len(s.host) : s.host[i] = a.host[i]
    BY <1>0, <1>2, <2>1, <2>3 DEF CoversExactly
  <2>4. ASSUME Len(s.host) = Len(a.host)
        PROVE  Covers(s, a) <=> \A i \in 2..Len(s.host) : s.host[i] = a.host[i]
    <3>1. \A i \in 2..Len(s.host) : i + Len(a.host) - Len(s.host) = i
      BY <1>0, <2>4
    <3> QED BY <1>0, <1>2, <2>2, <2>4, <3>1 DEF Covers
  <2>5. Covers(s, a) => Len(a.host) >= Len(s.host)
    BY <2>2 DEF Covers
  <2>6. CoversExactly(s, a) => Len(s.host) = Len(a.host)
    BY DEF CoversExactly
  <2> QED BY <1>0, <2>2, <2>3, <2>4, <2>5, <2>6
<1> QED BY <1>1, <1>2 DEF Legal

(* For any table made from legal scopes and any artifact, the executor that
   matchExecutor finds is the owner of the one scope that is more specific than
   every other scope covering the artifact, and it finds none only when every
   covering scope is a wildcard two or more labels above. *)
THEOREM RoutesToMostSpecificScope ==
  ASSUME NEW t, NEW owner, Holds(t, owner), NEW a \in References
  PROVE  LET got == matchExecutor(t, a)
             covering == {s \in DOMAIN owner : a.parses /\ Covers(s, a)}
         IN /\ got.ok => \E s \in covering :
                 /\ got.target = owner[s]
                 /\ \A u \in covering \ {s} : MoreSpecific(s, u)
            /\ ~got.ok => \A s \in covering : Len(s.host) < Len(a.host)
<1> DEFINE got == matchExecutor(t, a)
           covering == {s \in DOMAIN owner : a.parses /\ Covers(s, a)}
           exact == {s \in DOMAIN owner : a.parses /\ CoversExactly(s, a)}
<1>1. /\ got.ok <=> exact # {}
      /\ got.ok => \E s \in exact :
           got.target = owner[s] /\ \A u \in exact \ {s} : Specificity(u) < Specificity(s)
  BY LooksUpExactScopes
<1>2. \A s \in DOMAIN owner : s \in ScopeStrings /\ Legal(s)
  BY DEF Holds
<1>3. \A s \in exact : s \in covering /\ Len(s.host) = Len(a.host) /\ Specificity(s) \in 1..3
  BY <1>2, CoversByLength, CoveredByKey
<1>4. \A s \in covering : s \in exact \/ (Specificity(s) = 1 /\ Len(s.host) < Len(a.host))
  BY <1>2, CoversByLength
<1> HIDE DEF got, covering, exact
<1>5. ASSUME got.ok
      PROVE  \E s \in covering :
               got.target = owner[s] /\ \A u \in covering \ {s} : MoreSpecific(s, u)
  <2>1. PICK s \in exact :
          got.target = owner[s] /\ \A u \in exact \ {s} : Specificity(u) < Specificity(s)
    BY <1>1, <1>5
  <2>2. s \in covering /\ Len(s.host) = Len(a.host) /\ Specificity(s) \in 1..3
    BY <1>3
  <2>3. ASSUME NEW u \in covering \ {s} PROVE MoreSpecific(s, u)
    <3>1. CASE u \in exact
      <4>1. Specificity(u) < Specificity(s) /\ Specificity(u) \in 1..3
        BY <1>3, <2>1, <2>3, <3>1
      <4> QED BY <2>2, <4>1 DEF MoreSpecific
    <3>2. CASE Specificity(u) = 1 /\ Len(u.host) < Len(a.host)
      <4>1. Len(s.host) \in Nat /\ Len(u.host) \in Nat
        BY <1>2, <2>1, <2>3 DEF ScopeStrings, exact, covering
      <4> HIDE DEF Specificity
      <4> QED BY <2>2, <3>2, <4>1 DEF MoreSpecific
    <3> QED BY <1>4, <3>1, <3>2
  <2> QED BY <2>1, <2>2, <2>3
<1>6. ASSUME ~got.ok PROVE \A s \in covering : Len(s.host) < Len(a.host)
  BY <1>1, <1>4, <1>6
<1> QED BY <1>5, <1>6 DEF got, covering

-----------------------------------------------------------------------------
(* Induction along the turns of a loop: what holds before the first turn and is
   kept by every turn holds after each (the least counterexample has none
   before it). *)
LEMMA UpTo ==
  ASSUME NEW n \in Nat, NEW P, 0 \in P, \A i \in 1..n : i - 1 \in P => i \in P
  PROVE  \A i \in 0..n : i \in P
<1> DEFINE S == {i \in 0..n : i \notin P}
<1> SUFFICES ASSUME S # {} PROVE FALSE
  OBVIOUS
<1>0. IsWellFoundedOn(OpToRel(<, Nat), Nat)
  BY NatLessThanWellFounded
<1>1. S \in SUBSET Nat
  OBVIOUS
<1>2. \E x \in S : \A y \in S : ~(<<y, x>> \in OpToRel(<, Nat))
  <2> HIDE DEF S
  <2> QED BY <1>0, <1>1, WFMin
<1>3. PICK x \in S : \A y \in S : ~(<<y, x>> \in OpToRel(<, Nat))
  BY <1>2
<1>4. x \in 1..n /\ x - 1 \in 0..n /\ x - 1 \in Nat /\ x - 1 < x
  OBVIOUS
<1>5. x - 1 \notin P
  BY <1>4
<1>6. <<x - 1, x>> \in OpToRel(<, Nat)
  BY <1>4 DEF OpToRel
<1> QED BY <1>3, <1>4, <1>5, <1>6

(* The loop over the scopes of one group, one trust policy or one store. *)
RegisterAll(start, scopes, e) ==
  UntilFailure(LAMBDA a, s : registerExecutor(a.table, s, e), start, scopes)

(* The loop has a run: one result for every number of turns, each made from the
   one before it (the for statements around registerExecutor). *)
LEMMA RegisterAllRuns ==
  ASSUME NEW scopes \in Seq(ScopeStrings), NEW start, NEW e
  PROVE  \E f : /\ RegisterAll(start, scopes, e) = f[Len(scopes)]
                /\ f[0] = start
                /\ \A i \in 1..Len(scopes) :
                     f[i] = IF f[i - 1].ok THEN registerExecutor(f[i - 1].table, scopes[i], e)
                            ELSE f[i - 1]
<1> DEFINE Turn(a, i) == IF a.ok THEN registerExecutor(a.table, scopes[i], e) ELSE a
<1> DEFINE Run(f, n) == f = [i \in 0..n |-> IF i = 0 THEN start ELSE Turn(f[i - 1], i)]
<1> DEFINE P == {n \in 0..Len(scopes) : \E f : Run(f, n)}
<1>1. Len(scopes) \in Nat
  OBVIOUS
<1>2. 0 \in P
  <2> HIDE DEF Turn
  <2>1. Run([i \in 0..0 |-> start], 0)
    OBVIOUS
  <2> HIDE DEF Run
  <2> QED BY <1>1, <2>1
<1>3. ASSUME NEW n \in 1..Len(scopes), n - 1 \in P PROVE n \in P
  <2>1. PICK f : Run(f, n - 1)
    BY <1>3
  <2> DEFINE g == [i \in 0..n |-> IF i = n THEN Turn(f[n - 1], n) ELSE f[i]]
  <2>2. Run(g, n)
    <3> HIDE DEF Turn
    <3>1. n \in Nat /\ n # 0 /\ n - 1 \in 0..n /\ n - 1 # n
      BY <1>1
    <3>2. ASSUME NEW i \in 0..n PROVE g[i] = IF i = 0 THEN start ELSE Turn(g[i - 1], i)
      <4>1. CASE i = n
        BY <3>1, <4>1
      <4>2. CASE i # n /\ i # 0
        <5>1. i \in 0..(n - 1) /\ i - 1 \in 0..n /\ i - 1 # n
          BY <3>1, <4>2
        <5>2. f[i] = Turn(f[i - 1], i)
          BY <2>1, <4>2, <5>1
        <5> QED BY <4>2, <5>1, <5>2
      <4>3. CASE i = 0
        <5>1. 0 \in 0..(n - 1) /\ 0 # n
          BY <3>1
        <5> QED BY <2>1, <4>3, <5>1
      <4> QED BY <4>1, <4>2, <4>3
    <3> QED BY <3>2
  <2>3. n \in 0..Len(scopes)
    BY <1>1
  <2> HIDE DEF Run, g
  <2> QED BY <2>2, <2>3
<1>4. Len(scopes) \in P
  <2> HIDE DEF P
  <2>1. \A i \in 0..Len(scopes) : i \in P
    BY <1>1, <1>2, <1>3, UpTo
  <2> QED BY <1>1, <2>1
<1>5. PICK h : Run(h, Len(scopes))
  BY <1>4
<1>6. \E f : RegisterAll(start, scopes, e) = f[Len(scopes)] /\ Run(f, Len(scopes))
  BY <1>5 DEF RegisterAll, UntilFailure
<1>7. PICK f : RegisterAll(start, scopes, e) = f[Len(scopes)] /\ Run(f, Len(scopes))
  BY <1>6
<1>8. f[0] = start /\ \A i \in 1..Len(scopes) : f[i] = Turn(f[i - 1], i)
  <2> HIDE DEF Turn
  <2> QED BY <1>1, <1>7
<1> QED BY <1>7, <1>8

(* owner, with every scope of S added for e. *)
With(owner, S, e) == [s \in DOMAIN owner \cup S |-> IF s \in S THEN e ELSE owner[s]]

(* The scopes of the list are legal, different and not owned by anybody yet. *)
Unclaimed(scopes, owner) ==
  \A j \in DOMAIN scopes :
    /\ Legal(scopes[j]) /\ scopes[j] \notin DOMAIN owner
    /\ \A l \in DOMAIN scopes : scopes[l] = scopes[j] => l = j

(* One call of registerExecutor, with the owners it leaves as With says. *)
LEMMA RegisterOne ==
  ASSUME NEW t, NEW owner, Holds(t, owner), NEW s \in ScopeStrings, NEW e,
         NEW r, r = registerExecutor(t, s, e)
  PROVE  /\ r.ok \in BOOLEAN
         /\ r.ok <=> Legal(s) /\ s \notin DOMAIN owner
         /\ r.ok => Holds(r.table, With(owner, {s}, e))
<1>1. r = Registered(Extend(t, KeyOf(s), e)) \/ r = Rejected(t)
  BY RegistersExactlyLegal
<1>2. r.ok \in BOOLEAN
  <2>1. CASE r = Registered(Extend(t, KeyOf(s), e))
    BY <2>1 DEF Registered
  <2>2. CASE r = Rejected(t)
    BY <2>2 DEF Rejected
  <2> QED BY <1>1, <2>1, <2>2
<1>3. /\ r.ok <=> Legal(s) /\ s \notin DOMAIN owner
      /\ r.ok => Holds(r.table, [u \in DOMAIN owner \cup {s} |-> IF u = s THEN e ELSE owner[u]])
  BY RegistrationKeepsOneOwner
<1>4. [u \in DOMAIN owner \cup {s} |-> IF u = s THEN e ELSE owner[u]] = With(owner, {s}, e)
  BY DEF With
<1> QED BY <1>2, <1>3, <1>4

(* The loop over a list of scopes ends without an error exactly when all of them
   are free to be claimed, and then they have the one owner e. *)
LEMMA RegisterAllResult ==
  ASSUME NEW start, NEW owner, start.ok = TRUE, Holds(start.table, owner),
         NEW scopes \in Seq(ScopeStrings), NEW e,
         NEW r, r = RegisterAll(start, scopes, e)
  PROVE  /\ r.ok \in BOOLEAN
         /\ r.ok <=> Unclaimed(scopes, owner)
         /\ r.ok => Holds(r.table, With(owner, Range(scopes), e))
<1> DEFINE L == Len(scopes)
<1>1. PICK f : /\ RegisterAll(start, scopes, e) = f[L] /\ f[0] = start
               /\ \A i \in 1..L :
                    f[i] = IF f[i - 1].ok THEN registerExecutor(f[i - 1].table, scopes[i], e)
                           ELSE f[i - 1]
  BY RegisterAllRuns
<1> DEFINE S(n) == {scopes[j] : j \in 1..n}
           Free(n) == \A j \in 1..n :
                        /\ Legal(scopes[j]) /\ scopes[j] \notin DOMAIN owner
                        /\ \A l \in 1..n : scopes[l] = scopes[j] => l = j
           Good(n) == /\ f[n].ok \in BOOLEAN
                      /\ f[n].ok <=> Free(n)
                      /\ f[n].ok => Holds(f[n].table, With(owner, S(n), e))
           P == {n \in 0..L : Good(n)}
<1>2. L \in Nat /\ DOMAIN scopes = 1..L /\ \A j \in 1..L : scopes[j] \in ScopeStrings
  OBVIOUS
<1>3. 0 \in P
  <2>1. With(owner, S(0), e) = owner
    <3>1. S(0) = {}
      OBVIOUS
    <3>2. owner = [s \in DOMAIN owner |-> owner[s]]
      BY DEF Holds
    <3>3. With(owner, {}, e) = [s \in DOMAIN owner |-> owner[s]]
      BY DEF With
    <3> QED BY <3>1, <3>2, <3>3
  <2>2. Free(0)
    OBVIOUS
  <2>3. Good(0)
    <3> HIDE DEF S, Free
    <3> QED BY <1>1, <2>1, <2>2
  <2> HIDE DEF Good
  <2> QED BY <1>2, <2>3
<1>4. ASSUME NEW n \in 1..L, n - 1 \in P PROVE n \in P
  <2>1. Good(n - 1) /\ n \in Nat /\ n - 1 \in Nat /\ n \in 0..L
    BY <1>2, <1>4
  <2>2. f[n] = IF f[n - 1].ok THEN registerExecutor(f[n - 1].table, scopes[n], e) ELSE f[n - 1]
    BY <1>1
  <2>3. Free(n) <=> Free(n - 1) /\ Legal(scopes[n]) /\ scopes[n] \notin DOMAIN owner \cup S(n - 1)
    <3>1. 1..n = 1..(n - 1) \cup {n} /\ n \notin 1..(n - 1)
      BY <2>1
    <3>2. ASSUME Free(n)
          PROVE  Free(n - 1) /\ Legal(scopes[n]) /\ scopes[n] \notin DOMAIN owner \cup S(n - 1)
      BY <3>1, <3>2
    <3>3. ASSUME Free(n - 1), Legal(scopes[n]), scopes[n] \notin DOMAIN owner \cup S(n - 1)
          PROVE  Free(n)
      BY <3>1, <3>3
    <3> QED BY <3>2, <3>3
  <2>4. CASE ~f[n - 1].ok
    <3>1. ~Free(n)
      <4> HIDE DEF Free, S
      <4> QED BY <2>1, <2>3, <2>4
    <3>2. Good(n)
      <4> HIDE DEF Free, S
      <4> QED BY <2>1, <2>2, <2>4, <3>1
    <3> HIDE DEF Good
    <3> QED BY <2>1, <3>2
  <2>5. CASE f[n - 1].ok
    <3> DEFINE before == With(owner, S(n - 1), e)
               after == With(before, {scopes[n]}, e)
    <3>1. Holds(f[n - 1].table, before) /\ Free(n - 1)
      <4> HIDE DEF Free, S
      <4> QED BY <2>1, <2>5
    <3>2. f[n] = registerExecutor(f[n - 1].table, scopes[n], e)
      BY <2>2, <2>5
    <3>3. /\ f[n].ok \in BOOLEAN
          /\ f[n].ok <=> Legal(scopes[n]) /\ scopes[n] \notin DOMAIN before
          /\ f[n].ok => Holds(f[n].table, after)
      <4> HIDE DEF before
      <4>1. scopes[n] \in ScopeStrings
        BY <1>2
      <4> QED BY <3>1, <3>2, <4>1, RegisterOne
    <3>4. DOMAIN before = DOMAIN owner \cup S(n - 1)
      BY DEF With
    <3>5. S(n) = S(n - 1) \cup {scopes[n]}
      BY <2>1
    <3>6. after = With(owner, S(n), e)
      <4> HIDE DEF S
      <4> QED BY <3>4, <3>5 DEF With
    <3>7. Good(n)
      <4> HIDE DEF Free, S, before, after
      <4> QED BY <2>3, <3>1, <3>3, <3>4, <3>6
    <3> HIDE DEF Good
    <3> QED BY <2>1, <3>7
  <2> QED BY <2>4, <2>5
<1>5. Good(L)
  <2>1. L \in P
    <3> HIDE DEF P
    <3>1. \A i \in 0..L : i \in P
      BY <1>2, <1>3, <1>4, UpTo
    <3> QED BY <1>2, <3>1
  <2> HIDE DEF Good
  <2> QED BY <2>1
<1>6. S(L) = Range(scopes) /\ (Free(L) <=> Unclaimed(scopes, owner))
  BY <1>2 DEF Range, Unclaimed
<1> QED
  <2> HIDE DEF Free, S
  <2> QED BY <1>1, <1>5, <1>6

(* One turn of a loop that fills a table: an unusable option is an error, and the
   scopes of a usable one are registered for its value. *)
Fill(acc, usable, scopes, value) ==
  IF ~usable THEN Rejected(acc.table) ELSE RegisterAll(acc, scopes, value)

(* The early return: after an error the table is left as it is. *)
Turn(acc, usable, scopes, value) ==
  IF acc.ok THEN Fill(acc, usable, scopes, value) ELSE acc

(* f lists what such a loop holds after each of its n turns. *)
FillsUp(f, n, usable, lists, value) ==
  f = [i \in 0..n |-> IF i = 0 THEN Registered(EmptyTable)
                      ELSE Turn(f[i - 1], usable[i], lists[i], value[i])]

(* Every such loop has a run. *)
LEMMA FillExists ==
  ASSUME NEW n \in Nat, NEW usable, NEW lists, NEW value
  PROVE  \E f : FillsUp(f, n, usable, lists, value)
<1> DEFINE Step(a, i) == Turn(a, usable[i], lists[i], value[i])
           start == Registered(EmptyTable)
<1> DEFINE Run(f, m) == f = [i \in 0..m |-> IF i = 0 THEN start ELSE Step(f[i - 1], i)]
<1> DEFINE P == {m \in 0..n : \E f : Run(f, m)}
<1>1. 0 \in P
  <2> HIDE DEF Step, start
  <2>1. Run([i \in 0..0 |-> start], 0)
    OBVIOUS
  <2> HIDE DEF Run
  <2> QED BY <2>1
<1>2. ASSUME NEW m \in 1..n, m - 1 \in P PROVE m \in P
  <2>1. PICK f : Run(f, m - 1)
    BY <1>2
  <2> DEFINE g == [i \in 0..m |-> IF i = m THEN Step(f[m - 1], m) ELSE f[i]]
  <2>2. Run(g, m)
    <3> HIDE DEF Step, start
    <3>1. m \in Nat /\ m # 0 /\ m - 1 \in 0..m /\ m - 1 # m
      OBVIOUS
    <3>2. ASSUME NEW i \in 0..m PROVE g[i] = IF i = 0 THEN start ELSE Step(g[i - 1], i)
      <4>1. CASE i = m
        BY <3>1, <4>1
      <4>2. CASE i # m /\ i # 0
        <5>1. i \in 0..(m - 1) /\ i - 1 \in 0..m /\ i - 1 # m
          BY <3>1, <4>2
        <5>2. f[i] = Step(f[i - 1], i)
          BY <2>1, <4>2, <5>1
        <5> QED BY <4>2, <5>1, <5>2
      <4>3. CASE i = 0
        <5>1. 0 \in 0..(m - 1) /\ 0 # m
          BY <3>1
        <5> QED BY <2>1, <4>3, <5>1
      <4> QED BY <4>1, <4>2, <4>3
    <3> QED BY <3>2
  <2>3. m \in 0..n
    OBVIOUS
  <2> HIDE DEF Run, g
  <2> QED BY <2>2, <2>3
<1>3. \A i \in 0..n : i \in P
  <2> HIDE DEF P
  <2> QED BY <1>1, <1>2, UpTo
<1>4. n \in P
  <2> HIDE DEF P
  <2> QED BY <1>3
<1> QED BY <1>4 DEF FillsUp

(* Of the lists of scopes with an index in I, each scope is owned by the value
   with the index of its list, and nothing else has an owner. *)
Owned(owner, I, lists, value) ==
  /\ DOMAIN owner = UNION {Range(lists[i]) : i \in I}
  /\ \A i \in I : \A s \in Range(lists[i]) : owner[s] = value[i]

(* One more list is free of duplicates with the lists before it exactly when its
   scopes are unclaimed by them. *)
LEMMA ClaimsGrow ==
  ASSUME NEW m \in Nat \ {0}, NEW lists, NEW owner,
         DOMAIN owner = UNION {Range(lists[i]) : i \in 1..(m - 1)}
  PROVE  LegalClaims([i \in 1..m |-> lists[i]])
           <=> LegalClaims([i \in 1..(m - 1) |-> lists[i]]) /\ Unclaimed(lists[m], owner)
<1> DEFINE LC(n) == \A i \in 1..n : \A j \in DOMAIN lists[i] :
                      /\ Legal(lists[i][j])
                      /\ \A k \in 1..n : \A l \in DOMAIN lists[k] :
                           lists[k][l] = lists[i][j] => k = i /\ l = j
<1>1. \A n \in Nat : LegalClaims([i \in 1..n |-> lists[i]]) <=> LC(n)
  BY DEF LegalClaims
<1>2. 1..m = 1..(m - 1) \cup {m} /\ m \notin 1..(m - 1) /\ m - 1 \in Nat
  OBVIOUS
<1>3. \A s : s \in DOMAIN owner <=> \E i \in 1..(m - 1) : \E j \in DOMAIN lists[i] : s = lists[i][j]
  BY DEF Range
<1>4. ASSUME LC(m) PROVE LC(m - 1) /\ Unclaimed(lists[m], owner)
  <2>1. LC(m - 1)
    BY <1>2, <1>4
  <2>2. ASSUME NEW j \in DOMAIN lists[m]
        PROVE  /\ Legal(lists[m][j]) /\ lists[m][j] \notin DOMAIN owner
               /\ \A l \in DOMAIN lists[m] : lists[m][l] = lists[m][j] => l = j
    BY <1>2, <1>3, <1>4
  <2> QED BY <2>1, <2>2 DEF Unclaimed
<1>5. ASSUME LC(m - 1), Unclaimed(lists[m], owner) PROVE LC(m)
  <2>1. ASSUME NEW i \in 1..m, NEW j \in DOMAIN lists[i]
        PROVE  /\ Legal(lists[i][j])
               /\ \A k \in 1..m : \A l \in DOMAIN lists[k] :
                    lists[k][l] = lists[i][j] => k = i /\ l = j
    <3>1. CASE i = m
      BY <1>2, <1>3, <1>5, <3>1 DEF Unclaimed
    <3>2. CASE i \in 1..(m - 1)
      BY <1>2, <1>3, <1>5, <3>2 DEF Unclaimed
    <3> QED BY <1>2, <3>1, <3>2
  <2> QED BY <2>1
<1> QED
  <2> HIDE DEF LC
  <2> QED BY <1>1, <1>2, <1>4, <1>5

(* What a filled table should be: all or nothing, with every scope in the place
   of its own list. *)
FillAnswer(r, n, usable, lists, value) ==
  /\ r.ok \in BOOLEAN
  /\ r.ok <=> (\A i \in 1..n : usable[i]) /\ LegalClaims([i \in 1..n |-> lists[i]])
  /\ r.ok => \E owner : Holds(r.table, owner) /\ Owned(owner, 1..n, lists, value)

(* A loop that fills a table does just that, by induction along its turns. *)
LEMMA FillResult ==
  ASSUME NEW n \in Nat, NEW usable, NEW lists, NEW value, NEW f,
         FillsUp(f, n, usable, lists, value),
         \A i \in 1..n : usable[i] \in BOOLEAN /\ lists[i] \in Seq(ScopeStrings)
  PROVE  FillAnswer(f[n], n, usable, lists, value)
<1> DEFINE Usable(m) == \A i \in 1..m : usable[i]
           Claims(m) == LegalClaims([i \in 1..m |-> lists[i]])
           Filled(m) == \E owner : Holds(f[m].table, owner) /\ Owned(owner, 1..m, lists, value)
           Good(m) == /\ f[m].ok \in BOOLEAN
                      /\ f[m].ok <=> Usable(m) /\ Claims(m)
                      /\ f[m].ok => Filled(m)
           P == {m \in 0..n : Good(m)}
<1>0. /\ f[0] = Registered(EmptyTable)
      /\ \A i \in 1..n : f[i] = Turn(f[i - 1], usable[i], lists[i], value[i])
  BY DEF FillsUp
<1>1. 0 \in P
  <2> DEFINE nobody == [s \in {} |-> {}]
  <2>1. f[0].ok = TRUE /\ f[0].table = EmptyTable
    BY <1>0 DEF Registered
  <2>2. Usable(0) /\ Claims(0)
    BY DEF LegalClaims
  <2>3. Holds(EmptyTable, nobody)
    BY DEF Holds, EmptyTable
  <2>4. Owned(nobody, 1..0, lists, value)
    BY DEF Owned
  <2>5. Filled(0)
    <3> HIDE DEF nobody
    <3> QED BY <2>1, <2>3, <2>4
  <2>6. Good(0)
    <3> HIDE DEF Usable, Claims, Filled
    <3> QED BY <2>1, <2>2, <2>5
  <2> HIDE DEF Good
  <2> QED BY <2>6
<1>2. ASSUME NEW m \in 1..n, m - 1 \in P PROVE m \in P
  <2>1. m \in Nat \ {0} /\ m \in 0..n /\ 1..m = 1..(m - 1) \cup {m}
    OBVIOUS
  <2>2. Good(m - 1)
    <3> HIDE DEF Good
    <3> QED BY <1>2
  <2>3. f[m] = Turn(f[m - 1], usable[m], lists[m], value[m])
    BY <1>0
  <2>4. Usable(m) <=> Usable(m - 1) /\ usable[m]
    BY <2>1
  <2>5. Claims(m) => Claims(m - 1)
    <3> DEFINE covered == UNION {Range(lists[i]) : i \in 1..(m - 1)}
    <3>1. DOMAIN [s \in covered |-> 0] = covered
      OBVIOUS
    <3> QED BY <2>1, <3>1, ClaimsGrow
  <2>6. CASE ~f[m - 1].ok
    <3>1. f[m] = f[m - 1]
      BY <2>3, <2>6 DEF Turn
    <3>2. Good(m)
      <4> HIDE DEF Usable, Claims, Filled
      <4> QED BY <2>2, <2>4, <2>5, <2>6, <3>1
    <3> HIDE DEF Good
    <3> QED BY <2>1, <3>2
  <2>7. CASE f[m - 1].ok
    <3>1. Usable(m - 1) /\ Claims(m - 1) /\ Filled(m - 1) /\ f[m - 1].ok = TRUE
      <4> HIDE DEF Usable, Claims, Filled
      <4> QED BY <2>2, <2>7
    <3>2. PICK owner : Holds(f[m - 1].table, owner) /\ Owned(owner, 1..(m - 1), lists, value)
      BY <3>1
    <3>3. Claims(m) <=> Unclaimed(lists[m], owner)
      BY <2>1, <3>1, <3>2, ClaimsGrow DEF Owned
    <3>4. CASE ~usable[m]
      <4>1. f[m] = Rejected(f[m - 1].table)
        BY <2>3, <2>7, <3>4 DEF Turn, Fill
      <4>2. f[m].ok = FALSE
        BY <4>1 DEF Rejected
      <4>3. Good(m)
        <5> HIDE DEF Usable, Claims, Filled
        <5> QED BY <2>4, <3>4, <4>2
      <4> HIDE DEF Good
      <4> QED BY <2>1, <4>3
    <3>5. CASE usable[m]
      <4> DEFINE more == With(owner, Range(lists[m]), value[m])
      <4>1. f[m] = RegisterAll(f[m - 1], lists[m], value[m])
        BY <2>3, <2>7, <3>5 DEF Turn, Fill
      <4>2. lists[m] \in Seq(ScopeStrings)
        OBVIOUS
      <4>3. /\ f[m].ok \in BOOLEAN
            /\ f[m].ok <=> Unclaimed(lists[m], owner)
            /\ f[m].ok => Holds(f[m].table, more)
        <5>1. PICK acc, r, scopes, e :
                acc = f[m - 1] /\ r = f[m] /\ scopes = lists[m] /\ e = value[m]
          OBVIOUS
        <5>2. acc.ok = TRUE /\ Holds(acc.table, owner)
          BY <3>1, <3>2, <5>1
        <5>3. r = RegisterAll(acc, scopes, e) /\ scopes \in Seq(ScopeStrings)
          BY <4>1, <4>2, <5>1
        <5>4. /\ r.ok \in BOOLEAN
              /\ r.ok <=> Unclaimed(scopes, owner)
              /\ r.ok => Holds(r.table, With(owner, Range(scopes), e))
          BY <5>2, <5>3, RegisterAllResult
        <5> QED BY <5>1, <5>4
      <4>4. ASSUME Unclaimed(lists[m], owner) PROVE Owned(more, 1..m, lists, value)
        <5>1. DOMAIN more = UNION {Range(lists[i]) : i \in 1..m}
          BY <2>1, <3>2 DEF Owned, With
        <5>2. ASSUME NEW i \in 1..m, NEW s \in Range(lists[i]) PROVE more[s] = value[i]
          <6>1. CASE i = m
            BY <6>1 DEF With
          <6>2. CASE i \in 1..(m - 1)
            <7>1. s \in DOMAIN owner /\ owner[s] = value[i]
              BY <3>2, <6>2 DEF Owned
            <7>2. s \notin Range(lists[m])
              BY <4>4, <7>1 DEF Unclaimed, Range
            <7> QED BY <7>1, <7>2 DEF With
          <6> QED BY <2>1, <6>1, <6>2
        <5> HIDE DEF more
        <5> QED BY <5>1, <5>2 DEF Owned
      <4>5. f[m].ok => Filled(m)
        <5> HIDE DEF more
        <5> QED BY <4>3, <4>4
      <4>6. Good(m)
        <5> HIDE DEF Usable, Claims, Filled, more
        <5> QED BY <2>4, <3>1, <3>3, <3>5, <4>3, <4>5
      <4> HIDE DEF Good
      <4> QED BY <2>1, <4>6
    <3> QED BY <3>4, <3>5
  <2> QED BY <2>6, <2>7
<1>3. \A i \in 0..n : i \in P
  <2> HIDE DEF P
  <2> QED BY <1>1, <1>2, UpTo
<1>4. Good(n)
  <2> HIDE DEF Good
  <2> QED BY <1>3
<1> QED BY <1>4 DEF FillAnswer

(* The loop over the trust policies of a Cosign verifier (newCosignVerifier). *)
PolicyTable(policies, globalScopes) ==
  UntilFailure(LAMBDA a, p : AddTrustPolicy(a, p, globalScopes), Registered(EmptyTable), policies)

(* The routes of a Cosign verifier hold every trust policy under its own scopes,
   or under those of the executor, or there is an error (cosign NewVerifier). *)
LEMMA PolicyTableResult ==
  ASSUME NEW policies \in Seq(TrustPolicyOptions), NEW globalScopes \in Seq(ScopeStrings),
         NEW lists, lists = [i \in DOMAIN policies |-> PolicyScopes(policies[i], globalScopes)],
         NEW r, r = PolicyTable(policies, globalScopes)
  PROVE  /\ r.ok \in BOOLEAN
         /\ r.ok <=> (\A i \in DOMAIN policies : policies[i].creates) /\ LegalClaims(lists)
         /\ r.ok => \E owner : Holds(r.table, owner) /\ Owned(owner, DOMAIN policies, lists, policies)
<1> DEFINE n == Len(policies)
           usable == [i \in 1..n |-> policies[i].creates]
           start == Registered(EmptyTable)
           Step(a, i) == IF a.ok THEN AddTrustPolicy(a, policies[i], globalScopes) ELSE a
           Run(f) == f = [i \in 0..n |-> IF i = 0 THEN start ELSE Step(f[i - 1], i)]
<1>1. /\ n \in Nat /\ DOMAIN policies = 1..n
      /\ \A i \in 1..n : policies[i] \in TrustPolicyOptions
  OBVIOUS
<1>2. \A i \in 1..n : usable[i] \in BOOLEAN /\ lists[i] \in Seq(ScopeStrings)
  BY <1>1 DEF TrustPolicyOptions, PolicyScopes
<1>3. ASSUME NEW a, NEW i \in 1..n PROVE Step(a, i) = Turn(a, usable[i], lists[i], policies[i])
  <2>1. lists[i] = PolicyScopes(policies[i], globalScopes) /\ usable[i] = policies[i].creates
    BY <1>1
  <2>2. AddTrustPolicy(a, policies[i], globalScopes)
          = Fill(a, policies[i].creates, PolicyScopes(policies[i], globalScopes), policies[i])
    BY DEF AddTrustPolicy, Fill, RegisterAll, registerVerifier
  <2> HIDE DEF usable
  <2> QED BY <2>1, <2>2 DEF Turn
<1>4. \A f : Run(f) <=> FillsUp(f, n, usable, lists, policies)
  <2> HIDE DEF usable, Step, n
  <2>1. \A i \in 0..n : i # 0 => i \in 1..n
    BY <1>1
  <2>2. ASSUME NEW f
        PROVE  [i \in 0..n |-> IF i = 0 THEN start ELSE Step(f[i - 1], i)]
                 = [i \in 0..n |-> IF i = 0 THEN start ELSE Turn(f[i - 1], usable[i], lists[i], policies[i])]
    BY <1>3, <2>1
  <2> QED BY <2>2 DEF FillsUp
<1>5. \E h : Run(h)
  <2>1. \E h : FillsUp(h, n, usable, lists, policies)
    <3> HIDE DEF usable, n
    <3> QED BY <1>1, FillExists
  <2> HIDE DEF Run, usable, n
  <2> QED BY <1>4, <2>1
<1>6. \E f : r = f[n] /\ Run(f)
  BY <1>5 DEF PolicyTable, UntilFailure
<1>7. PICK f : r = f[n] /\ Run(f)
  BY <1>6
<1>8. FillsUp(f, n, usable, lists, policies)
  <2> HIDE DEF Run, usable, n
  <2> QED BY <1>4, <1>7
<1>9. FillAnswer(r, n, usable, lists, policies)
  <2> HIDE DEF usable, n, Run
  <2>1. FillAnswer(f[n], n, usable, lists, policies)
    BY <1>1, <1>2, <1>8, FillResult
  <2> QED BY <1>7, <2>1
<1>10. [i \in 1..n |-> lists[i]] = lists /\ ((\A i \in 1..n : usable[i]) <=> \A i \in 1..n : policies[i].creates)
  BY <1>1
<1> QED
  <2> HIDE DEF usable
  <2> QED BY <1>1, <1>9, <1>10 DEF FillAnswer

(* The loop over the stores of a group (store.New). *)
StoreTable(stores, globalScopes) ==
  UntilFailure(LAMBDA a, i : AddStore(a, stores, i, globalScopes), Registered(EmptyTable),
               [i \in DOMAIN stores |-> i])

(* The store multiplexer holds every store under its scopes, or there is an error
   (store.New, StoreMux.Register). *)
LEMMA StoreTableResult ==
  ASSUME NEW stores \in Seq(StoreOptions), NEW globalScopes \in Seq(ScopeStrings),
         NEW lists, lists = [i \in DOMAIN stores |-> StoreScopes(stores, i, globalScopes)],
         NEW r, r = StoreTable(stores, globalScopes)
  PROVE  /\ r.ok \in BOOLEAN
         /\ r.ok <=> (\A i \in DOMAIN stores : newStore(stores[i]) /\ lists[i] # <<>>) /\ LegalClaims(lists)
         /\ r.ok => \E owner : Holds(r.table, owner) /\ Owned(owner, DOMAIN stores, lists, stores)
<1> DEFINE n == Len(stores)
           places == [i \in DOMAIN stores |-> i]
           usable == [i \in 1..n |-> newStore(stores[i]) /\ lists[i] # <<>>]
           start == Registered(EmptyTable)
           Step(a, i) == IF a.ok THEN AddStore(a, stores, i, globalScopes) ELSE a
           Run(f) == f = [i \in 0..n |-> IF i = 0 THEN start ELSE Step(f[i - 1], places[i])]
<1>1. /\ n \in Nat /\ DOMAIN stores = 1..n /\ Len(places) = n
      /\ \A i \in 1..n : stores[i] \in StoreOptions
  OBVIOUS
<1>2. \A i \in 1..n : usable[i] \in BOOLEAN /\ lists[i] \in Seq(ScopeStrings)
  BY <1>1 DEF StoreOptions, StoreScopes
<1>3. ASSUME NEW a, NEW i \in 1..n PROVE Step(a, places[i]) = Turn(a, usable[i], lists[i], stores[i])
  <2>1. /\ lists[i] = StoreScopes(stores, i, globalScopes) /\ places[i] = i
        /\ usable[i] <=> newStore(stores[i]) /\ lists[i] # <<>>
    BY <1>1
  <2>2. AddStore(a, stores, i, globalScopes)
          = Fill(a, newStore(stores[i]) /\ StoreScopes(stores, i, globalScopes) # <<>>,
                 StoreScopes(stores, i, globalScopes), stores[i])
    BY DEF AddStore, Fill, RegisterAll, StoreMuxRegister
  <2>3. AddStore(a, stores, i, globalScopes) = Fill(a, usable[i], lists[i], stores[i])
    <3> HIDE DEF usable
    <3> QED BY <2>1, <2>2 DEF Fill
  <2> HIDE DEF usable
  <2> QED BY <2>1, <2>3 DEF Turn
<1>4. \A f : Run(f) <=> FillsUp(f, n, usable, lists, stores)
  <2> HIDE DEF usable, Step, n, places
  <2>1. \A i \in 0..n : i # 0 => i \in 1..n
    BY <1>1
  <2>2. ASSUME NEW f
        PROVE  [i \in 0..n |-> IF i = 0 THEN start ELSE Step(f[i - 1], places[i])]
                 = [i \in 0..n |-> IF i = 0 THEN start ELSE Turn(f[i - 1], usable[i], lists[i], stores[i])]
    BY <1>3, <2>1
  <2> QED BY <2>2 DEF FillsUp
<1>5. \E h : Run(h)
  <2>1. \E h : FillsUp(h, n, usable, lists, stores)
    <3> HIDE DEF usable, n
    <3> QED BY <1>1, FillExists
  <2> HIDE DEF Run, usable, n
  <2> QED BY <1>4, <2>1
<1>6. \E f : r = f[n] /\ Run(f)
  <2>1. r = UntilFailure(LAMBDA a, i : AddStore(a, stores, i, globalScopes), start, places)
    BY DEF StoreTable
  <2> HIDE DEF places
  <2> QED BY <1>1, <1>5, <2>1 DEF UntilFailure
<1>7. PICK f : r = f[n] /\ Run(f)
  BY <1>6
<1>8. FillsUp(f, n, usable, lists, stores)
  <2> HIDE DEF Run, usable, n
  <2> QED BY <1>4, <1>7
<1>9. FillAnswer(r, n, usable, lists, stores)
  <2> HIDE DEF usable, n, Run
  <2>1. FillAnswer(f[n], n, usable, lists, stores)
    BY <1>1, <1>2, <1>8, FillResult
  <2> QED BY <1>7, <2>1
<1>10. /\ [i \in 1..n |-> lists[i]] = lists
       /\ (\A i \in 1..n : usable[i]) <=> \A i \in 1..n : newStore(stores[i]) /\ lists[i] # <<>>
  BY <1>1
<1> QED
  <2> HIDE DEF usable
  <2> QED BY <1>1, <1>9, <1>10 DEF FillAnswer

(* The loop over the groups of options (NewScopedExecutor). *)
ExecutorTable(groups) == UntilFailure(AddExecutor, Registered(EmptyTable), groups)

(* The table of a scoped executor holds every group under its scopes, or there
   is an error (NewScopedExecutor, registerExecutor). *)
LEMMA ExecutorTableResult ==
  ASSUME NEW groups \in Seq(GroupOptions),
         NEW lists, lists = [i \in DOMAIN groups |-> groups[i].scopes],
         NEW made, made = [i \in DOMAIN groups |-> newExecutor(groups[i]).val],
         \A i \in DOMAIN groups : newExecutor(groups[i]).ok \in BOOLEAN,
         NEW r, r = ExecutorTable(groups)
  PROVE  /\ r.ok \in BOOLEAN
         /\ r.ok <=> /\ \A i \in DOMAIN groups : groups[i].scopes # <<>> /\ newExecutor(groups[i]).ok
                     /\ LegalClaims(lists)
         /\ r.ok => \E owner : Holds(r.table, owner) /\ Owned(owner, DOMAIN groups, lists, made)
<1> DEFINE n == Len(groups)
           usable == [i \in 1..n |-> groups[i].scopes # <<>> /\ newExecutor(groups[i]).ok]
           start == Registered(EmptyTable)
           Step(a, i) == IF a.ok THEN AddExecutor(a, groups[i]) ELSE a
           Run(f) == f = [i \in 0..n |-> IF i = 0 THEN start ELSE Step(f[i - 1], i)]
<1>1. /\ n \in Nat /\ DOMAIN groups = 1..n
      /\ \A i \in 1..n : groups[i] \in GroupOptions
  OBVIOUS
<1>2. \A i \in 1..n : usable[i] \in BOOLEAN /\ lists[i] \in Seq(ScopeStrings)
  BY <1>1 DEF GroupOptions
<1>3. ASSUME NEW a, NEW i \in 1..n PROVE Step(a, i) = Turn(a, usable[i], lists[i], made[i])
  <2>1. /\ lists[i] = groups[i].scopes /\ made[i] = newExecutor(groups[i]).val
        /\ usable[i] <=> groups[i].scopes # <<>> /\ newExecutor(groups[i]).ok
    BY <1>1
  <2>2. AddExecutor(a, groups[i])
          = Fill(a, groups[i].scopes # <<>> /\ newExecutor(groups[i]).ok,
                 groups[i].scopes, newExecutor(groups[i]).val)
    BY DEF AddExecutor, Fill, RegisterAll
  <2>3. AddExecutor(a, groups[i]) = Fill(a, usable[i], lists[i], made[i])
    <3> HIDE DEF usable
    <3> QED BY <2>1, <2>2 DEF Fill
  <2> HIDE DEF usable
  <2> QED BY <2>3 DEF Turn
<1>4. \A f : Run(f) <=> FillsUp(f, n, usable, lists, made)
  <2> HIDE DEF usable, Step, n
  <2>1. \A i \in 0..n : i # 0 => i \in 1..n
    BY <1>1
  <2>2. ASSUME NEW f
        PROVE  [i \in 0..n |-> IF i = 0 THEN start ELSE Step(f[i - 1], i)]
                 = [i \in 0..n |-> IF i = 0 THEN start ELSE Turn(f[i - 1], usable[i], lists[i], made[i])]
    BY <1>3, <2>1
  <2> QED BY <2>2 DEF FillsUp
<1>5. \E h : Run(h)
  <2>1. \E h : FillsUp(h, n, usable, lists, made)
    <3> HIDE DEF usable, n
    <3> QED BY <1>1, FillExists
  <2> HIDE DEF Run, usable, n
  <2> QED BY <1>4, <2>1
<1>6. \E f : r = f[n] /\ Run(f)
  BY <1>5 DEF ExecutorTable, UntilFailure
<1>7. PICK f : r = f[n] /\ Run(f)
  BY <1>6
<1>8. FillsUp(f, n, usable, lists, made)
  <2> HIDE DEF Run, usable, n
  <2> QED BY <1>4, <1>7
<1>9. FillAnswer(r, n, usable, lists, made)
  <2> HIDE DEF usable, n, Run
  <2>1. FillAnswer(f[n], n, usable, lists, made)
    BY <1>1, <1>2, <1>8, FillResult
  <2> QED BY <1>7, <2>1
<1>10. /\ [i \in 1..n |-> lists[i]] = lists
       /\ (\A i \in 1..n : usable[i]) <=> \A i \in 1..n : groups[i].scopes # <<>> /\ newExecutor(groups[i]).ok
  BY <1>1
<1> QED
  <2> HIDE DEF usable
  <2> QED BY <1>1, <1>9, <1>10 DEF FillAnswer

-----------------------------------------------------------------------------
(* A verifier is made exactly from legal options; a Cosign verifier then has
   routes owned by its trust policies (verifier.New, cosign NewVerifier). *)
LEMMA VerifierMade ==
  ASSUME NEW opt \in VerifierOptions, NEW globalScopes \in Seq(ScopeStrings),
         NEW lists, lists = [i \in DOMAIN opt.policies |-> PolicyScopes(opt.policies[i], globalScopes)],
         NEW r, r = newVerifier(opt, globalScopes)
  PROVE  /\ r.ok \in BOOLEAN
         /\ r.ok <=> LegalVerifier(opt, globalScopes)
         /\ r.ok /\ opt.type = "cosign" =>
              \E owner : Holds(r.val.routes, owner) /\ Owned(owner, DOMAIN opt.policies, lists, opt.policies)
<1>1. /\ opt.policies \in Seq(TrustPolicyOptions) /\ opt.creates \in BOOLEAN
      /\ opt.name \in STRING /\ opt.type \in STRING
  BY DEF VerifierOptions
<1>2. CASE opt.name = "none" \/ opt.type \notin VerifierTypes
  BY <1>2 DEF newVerifier, Failed, LegalVerifier, VerifierTypes
<1>3. CASE opt.name # "none" /\ opt.type = "notation"
  BY <1>1, <1>3 DEF newVerifier, Failed, Made, LegalVerifier, VerifierTypes
<1>4. CASE opt.name # "none" /\ opt.type = "cosign"
  <2> DEFINE built == PolicyTable(opt.policies, globalScopes)
  <2>1. /\ built.ok \in BOOLEAN
        /\ built.ok <=> (\A i \in DOMAIN opt.policies : opt.policies[i].creates) /\ LegalClaims(lists)
        /\ built.ok => \E owner : Holds(built.table, owner)
                                    /\ Owned(owner, DOMAIN opt.policies, lists, opt.policies)
    <3> HIDE DEF built
    <3>1. built = PolicyTable(opt.policies, globalScopes)
      BY DEF built
    <3> QED BY <1>1, <3>1, PolicyTableResult
  <2>2. r = newCosignVerifier(opt, globalScopes)
    BY <1>4 DEF newVerifier, VerifierTypes
  <2>3. r = IF opt.policies # <<>> /\ opt.creates /\ built.ok
            THEN Made([type |-> "cosign", routes |-> built.table]) ELSE Failed
    BY <2>2 DEF newCosignVerifier, PolicyTable
  <2> HIDE DEF built
  <2>4. LegalVerifier(opt, globalScopes) <=> opt.policies # <<>> /\ opt.creates /\ built.ok
    BY <1>4, <2>1 DEF LegalVerifier, VerifierTypes
  <2>5. CASE opt.policies # <<>> /\ opt.creates /\ built.ok
    <3>1. r.ok = TRUE /\ r.val.routes = built.table
      BY <2>3, <2>5 DEF Made
    <3> QED BY <2>1, <2>4, <2>5, <3>1
  <2>6. CASE ~(opt.policies # <<>> /\ opt.creates /\ built.ok)
    <3>1. r.ok = FALSE
      BY <2>3, <2>6 DEF Failed
    <3> QED BY <2>4, <2>6, <3>1
  <2> QED BY <2>5, <2>6
<1> QED BY <1>2, <1>3, <1>4 DEF VerifierTypes

(* The store is made exactly from legal options, and is owned by its stores
   (store.New). *)
LEMMA StoresMade ==
  ASSUME NEW stores \in Seq(StoreOptions), NEW globalScopes \in Seq(ScopeStrings),
         NEW lists, lists = [i \in DOMAIN stores |-> StoreScopes(stores, i, globalScopes)],
         NEW r, r = NewStore(stores, globalScopes)
  PROVE  /\ r.ok \in BOOLEAN
         /\ r.ok <=> LegalStores(stores, globalScopes)
         /\ r.ok => \E owner : Holds(r.val, owner) /\ Owned(owner, DOMAIN stores, lists, stores)
<1> DEFINE built == StoreTable(stores, globalScopes)
<1>1. /\ built.ok \in BOOLEAN
      /\ built.ok <=> /\ \A i \in DOMAIN stores : newStore(stores[i]) /\ lists[i] # <<>>
                      /\ LegalClaims(lists)
      /\ built.ok => \E owner : Holds(built.table, owner) /\ Owned(owner, DOMAIN stores, lists, stores)
  <2> HIDE DEF built
  <2>1. built = StoreTable(stores, globalScopes)
    BY DEF built
  <2> QED BY <2>1, StoreTableResult
<1>2. r = IF stores # <<>> /\ built.ok THEN Made(built.table) ELSE Failed
  BY DEF NewStore, StoreTable
<1> HIDE DEF built
<1>3. LegalStores(stores, globalScopes) <=> stores # <<>> /\ built.ok
  BY <1>1 DEF LegalStores
<1>4. CASE stores # <<>> /\ built.ok
  <2>1. r.ok = TRUE /\ r.val = built.table
    BY <1>2, <1>4 DEF Made
  <2> QED BY <1>1, <1>3, <1>4, <2>1
<1>5. CASE ~(stores # <<>> /\ built.ok)
  <2>1. r.ok = FALSE
    BY <1>2, <1>5 DEF Failed
  <2> QED BY <1>3, <1>5, <2>1
<1> QED BY <1>4, <1>5

(* newExecutor makes exactly the legal groups that have scopes, out of the store
   and the verifiers of their options. *)
LEMMA GroupMade ==
  ASSUME NEW opt \in GroupOptions, NEW r, r = newExecutor(opt)
  PROVE  /\ r.ok \in BOOLEAN
         /\ opt.scopes # <<>> /\ r.ok <=> LegalGroup(opt)
         /\ r.ok => /\ r.val.options = opt
                    /\ r.val.store = NewStore(opt.stores, opt.scopes).val
                    /\ \A i \in DOMAIN opt.verifiers :
                         /\ newVerifier(opt.verifiers[i], opt.scopes).ok
                         /\ r.val.verifiers[i] = newVerifier(opt.verifiers[i], opt.scopes).val
                    /\ NewStore(opt.stores, opt.scopes).ok
<1>1. /\ opt.scopes \in Seq(ScopeStrings) /\ opt.verifiers \in Seq(VerifierOptions)
      /\ opt.stores \in Seq(StoreOptions) /\ opt.policy \in PolicyOptions
  BY DEF GroupOptions
<1> DEFINE stores == NewStore(opt.stores, opt.scopes)
           each == [i \in DOMAIN opt.verifiers |-> newVerifier(opt.verifiers[i], opt.scopes)]
           verifiers == NewVerifiers(opt.verifiers, opt.scopes)
<1>2. stores.ok \in BOOLEAN /\ (stores.ok <=> LegalStores(opt.stores, opt.scopes))
  BY <1>1, StoresMade
<1>3. \A i \in DOMAIN opt.verifiers :
        each[i].ok \in BOOLEAN /\ (each[i].ok <=> LegalVerifier(opt.verifiers[i], opt.scopes))
  <2>1. ASSUME NEW i \in DOMAIN opt.verifiers
        PROVE  LET v == newVerifier(opt.verifiers[i], opt.scopes)
               IN v.ok \in BOOLEAN /\ (v.ok <=> LegalVerifier(opt.verifiers[i], opt.scopes))
    <3>1. opt.verifiers[i] \in VerifierOptions
      BY <1>1
    <3> QED BY <1>1, <3>1, VerifierMade
  <2> QED BY <2>1
<1> DEFINE all == opt.verifiers # <<>> /\ \A i \in DOMAIN opt.verifiers : each[i].ok
<1>4. verifiers = IF all THEN Made([i \in DOMAIN opt.verifiers |-> each[i].val]) ELSE Failed
  BY DEF NewVerifiers
<1>5. r = IF verifiers.ok /\ stores.ok /\ PolicyMade(opt.policy)
          THEN Made([verifiers |-> verifiers.val, store |-> stores.val, options |-> opt]) ELSE Failed
  BY DEF newExecutor
<1>6. verifiers.ok = all /\ (all => verifiers.val = [i \in DOMAIN opt.verifiers |-> each[i].val])
  <2> HIDE DEF each, verifiers
  <2>1. CASE all
    BY <1>4, <2>1 DEF Made
  <2>2. CASE ~all
    BY <1>4, <2>2 DEF Failed
  <2> QED BY <2>1, <2>2
<1> HIDE DEF verifiers, stores
<1>7. LegalGroup(opt) <=> opt.scopes # <<>> /\ all /\ stores.ok /\ PolicyMade(opt.policy)
  <2> HIDE DEF each
  <2> QED BY <1>2, <1>3 DEF LegalGroup
<1>8. CASE all /\ stores.ok /\ PolicyMade(opt.policy)
  <2>1. /\ r.ok = TRUE /\ r.val.verifiers = verifiers.val
        /\ r.val.store = stores.val /\ r.val.options = opt
    <3> HIDE DEF all
    <3> QED BY <1>5, <1>6, <1>8 DEF Made
  <2>2. \A i \in DOMAIN opt.verifiers : r.val.verifiers[i] = each[i].val /\ each[i].ok
    <3> HIDE DEF each
    <3> QED BY <1>6, <1>8, <2>1
  <2>3. opt.scopes # <<>> /\ r.ok <=> LegalGroup(opt)
    <3> HIDE DEF all
    <3> QED BY <1>7, <1>8, <2>1
  <2> QED BY <1>8, <2>1, <2>2, <2>3 DEF stores
<1>9. CASE ~(all /\ stores.ok /\ PolicyMade(opt.policy))
  <2> HIDE DEF all
  <2>1. r = Failed
    BY <1>5, <1>6, <1>9
  <2>2. r.ok = FALSE
    BY <2>1 DEF Failed
  <2> QED BY <1>7, <1>9, <2>2
<1> QED BY <1>8, <1>9

(* NewScopedExecutor makes exactly the legal configurations, and its table then
   has the scopes of each group under the executor of this group. *)
LEMMA ExecutorMade ==
  ASSUME NEW groups \in Seq(GroupOptions),
         NEW lists, lists = [i \in DOMAIN groups |-> groups[i].scopes],
         NEW made, made = [i \in DOMAIN groups |-> newExecutor(groups[i]).val],
         NEW r, r = NewScopedExecutor(groups)
  PROVE  /\ r.ok \in BOOLEAN
         /\ r.ok <=> LegalConfiguration(groups)
         /\ r.ok => \E owner : Holds(r.val, owner) /\ Owned(owner, DOMAIN groups, lists, made)
<1>1. \A i \in DOMAIN groups : groups[i] \in GroupOptions
  OBVIOUS
<1>2. \A i \in DOMAIN groups :
        /\ newExecutor(groups[i]).ok \in BOOLEAN
        /\ groups[i].scopes # <<>> /\ newExecutor(groups[i]).ok <=> LegalGroup(groups[i])
  BY <1>1, GroupMade
<1> DEFINE built == ExecutorTable(groups)
<1>3. /\ built.ok \in BOOLEAN
      /\ built.ok <=> /\ \A i \in DOMAIN groups : groups[i].scopes # <<>> /\ newExecutor(groups[i]).ok
                      /\ LegalClaims(lists)
      /\ built.ok => \E owner : Holds(built.table, owner) /\ Owned(owner, DOMAIN groups, lists, made)
  <2> HIDE DEF built
  <2>1. built = ExecutorTable(groups)
    BY DEF built
  <2> QED BY <1>2, <2>1, ExecutorTableResult
<1>4. r = IF groups # <<>> /\ built.ok THEN Made(built.table) ELSE Failed
  BY DEF NewScopedExecutor, ExecutorTable
<1> HIDE DEF built
<1>5. groups # <<>> <=> DOMAIN groups # {}
  OBVIOUS
<1>6. LegalConfiguration(groups) <=> groups # <<>> /\ built.ok
  BY <1>2, <1>3, <1>5 DEF LegalConfiguration
<1>7. CASE groups # <<>> /\ built.ok
  <2>1. r.ok = TRUE /\ r.val = built.table
    BY <1>4, <1>7 DEF Made
  <2> QED BY <1>3, <1>6, <1>7, <2>1
<1>8. CASE ~(groups # <<>> /\ built.ok)
  <2>1. r.ok = FALSE
    BY <1>4, <1>8 DEF Failed
  <2> QED BY <1>6, <1>8, <2>1
<1> QED BY <1>7, <1>8

(* For any list of option groups, of any length and with any scopes, plugins and
   trust policies, NewScopedExecutor succeeds exactly when every group has
   scopes and working plugins, every scope is legal and no scope is claimed
   twice, be it by two groups, two stores or two trust policies. *)
THEOREM BuildsExactlyLegalConfigurations ==
  ASSUME NEW groups \in Seq(GroupOptions)
  PROVE  NewScopedExecutor(groups).ok <=> LegalConfiguration(groups)
BY ExecutorMade

-----------------------------------------------------------------------------
(* An artifact that a registered scope covers exactly is never refused
   (matchExecutor, matchVerifier and StoreMux.Match). *)
LEMMA CoveredIsRouted ==
  ASSUME NEW t, NEW owner, Holds(t, owner), NEW a \in References, a.parses,
         NEW s \in DOMAIN owner, CoversExactly(s, a)
  PROVE  matchExecutor(t, a).ok
<1>1. s \in {u \in DOMAIN owner : a.parses /\ CoversExactly(u, a)}
  OBVIOUS
<1> QED BY <1>1, LooksUpExactScopes

(* The places whose scope covers an artifact, one by one. *)
LEMMA CoveringPlaces ==
  ASSUME NEW groups, NEW a
  PROVE  \A p : p \in Covering(groups, a) <=>
           \E i \in DOMAIN groups : \E j \in DOMAIN groups[i].scopes :
             p = <<i, j>> /\ a.parses /\ Covers(groups[i].scopes[j], a)
BY DEF Covering

(* A table that holds each group under its scopes sends an artifact to the group
   with the most specific scope for it, by whatever the groups are indexed
   (matchExecutor). *)
LEMMA RoutedByOwners ==
  ASSUME NEW groups, NEW lists, lists = [i \in DOMAIN groups |-> groups[i].scopes],
         LegalClaims(lists),
         NEW value, \A i \in DOMAIN groups : value[i].options = groups[i],
         NEW t, NEW owner, Holds(t, owner), Owned(owner, DOMAIN groups, lists, value),
         NEW a \in References
  PROVE  RoutedByScope(t, groups, a)
<1> DEFINE got == matchExecutor(t, a)
           covering == {s \in DOMAIN owner : a.parses /\ Covers(s, a)}
           At(p) == groups[p[1]].scopes[p[2]]
<1>1. /\ got.ok => \E s \in covering :
           got.target = owner[s] /\ \A u \in covering \ {s} : MoreSpecific(s, u)
      /\ ~got.ok => \A s \in covering : Len(s.host) < Len(a.host)
  BY RoutesToMostSpecificScope
<1>2. \A s : s \in DOMAIN owner <=>
        \E i \in DOMAIN groups : \E j \in DOMAIN groups[i].scopes : s = groups[i].scopes[j]
  BY DEF Owned, Range
<1>3. \A i \in DOMAIN groups : \A j \in DOMAIN groups[i].scopes :
        owner[groups[i].scopes[j]] = value[i]
  BY DEF Owned, Range
<1>4. \A p \in Covering(groups, a) :
        At(p) \in covering /\ p[1] \in DOMAIN groups /\ owner[At(p)] = value[p[1]]
  <2>1. ASSUME NEW p \in Covering(groups, a)
        PROVE  At(p) \in covering /\ p[1] \in DOMAIN groups /\ owner[At(p)] = value[p[1]]
    <3>1. PICK i \in DOMAIN groups : \E j \in DOMAIN groups[i].scopes :
            p = <<i, j>> /\ a.parses /\ Covers(groups[i].scopes[j], a)
      BY CoveringPlaces
    <3>2. PICK j \in DOMAIN groups[i].scopes :
            p = <<i, j>> /\ a.parses /\ Covers(groups[i].scopes[j], a)
      BY <3>1
    <3>3. p[1] = i /\ p[2] = j /\ At(p) = groups[i].scopes[j]
      BY <3>2
    <3>4. At(p) \in covering
      BY <1>2, <3>2, <3>3
    <3> QED BY <1>3, <3>3, <3>4
  <2> QED BY <2>1
<1>5. \A s \in covering : \E p \in Covering(groups, a) : At(p) = s
  <2>1. ASSUME NEW s \in covering PROVE \E p \in Covering(groups, a) : At(p) = s
    <3>1. PICK i \in DOMAIN groups : \E j \in DOMAIN groups[i].scopes : s = groups[i].scopes[j]
      BY <1>2
    <3>2. PICK j \in DOMAIN groups[i].scopes : s = groups[i].scopes[j]
      BY <3>1
    <3>3. <<i, j>> \in Covering(groups, a)
      BY <3>2, CoveringPlaces
    <3>4. At(<<i, j>>) = s
      BY <3>2
    <3> QED BY <3>3, <3>4
  <2> QED BY <2>1
<1>6. \A p, q \in Covering(groups, a) : At(p) = At(q) => p = q
  <2>1. ASSUME NEW p \in Covering(groups, a), NEW q \in Covering(groups, a), At(p) = At(q)
        PROVE  p = q
    <3>1. PICK i \in DOMAIN groups : \E j \in DOMAIN groups[i].scopes : p = <<i, j>>
      BY CoveringPlaces
    <3>2. PICK j \in DOMAIN groups[i].scopes : p = <<i, j>>
      BY <3>1
    <3>3. PICK k \in DOMAIN groups : \E l \in DOMAIN groups[k].scopes : q = <<k, l>>
      BY CoveringPlaces
    <3>4. PICK l \in DOMAIN groups[k].scopes : q = <<k, l>>
      BY <3>3
    <3>5. groups[k].scopes[l] = groups[i].scopes[j]
      BY <2>1, <3>2, <3>4
    <3>6. lists[k][l] = lists[i][j] /\ j \in DOMAIN lists[i] /\ l \in DOMAIN lists[k]
      BY <3>5
    <3>7. k = i /\ l = j
      BY <3>6 DEF LegalClaims
    <3> QED BY <3>2, <3>4, <3>7
  <2> QED BY <2>1
<1> HIDE DEF covering, At, got
<1>7. ~got.ok => \A p \in Covering(groups, a) : Len(At(p).host) < Len(a.host)
  BY <1>1, <1>4
<1>8. ASSUME got.ok
      PROVE  \E p \in Covering(groups, a) :
               /\ got.target.options = groups[p[1]]
               /\ \A q \in Covering(groups, a) \ {p} : MoreSpecific(At(p), At(q))
  <2>1. PICK s \in covering :
          got.target = owner[s] /\ \A u \in covering \ {s} : MoreSpecific(s, u)
    BY <1>1, <1>8
  <2>2. PICK p \in Covering(groups, a) : At(p) = s
    BY <1>5
  <2>3. got.target.options = groups[p[1]]
    BY <1>4, <2>1, <2>2
  <2>4. \A q \in Covering(groups, a) \ {p} : MoreSpecific(At(p), At(q))
    BY <1>4, <1>6, <2>1, <2>2
  <2> QED BY <2>3, <2>4
<1> QED BY <1>7, <1>8 DEF RoutedByScope, got, At

(* Within one executor, the store and the Cosign verifiers that inherit its scopes
   have a route for everything these scopes cover. *)
LEMMA RoutedInsideGroup ==
  ASSUME NEW opt \in GroupOptions, LegalGroup(opt), NEW made, made = newExecutor(opt).val,
         NEW a \in References, a.parses,
         NEW s \in Range(opt.scopes), CoversExactly(s, a)
  PROVE  /\ (\E i \in DOMAIN opt.stores : opt.stores[i].scopes = <<>>)
              => StoreMuxMatch(made.store, a).ok
         /\ \A i \in DOMAIN opt.verifiers :
              (/\ opt.verifiers[i].type = "cosign"
               /\ \E j \in DOMAIN opt.verifiers[i].policies :
                    opt.verifiers[i].policies[j].scopes = <<>>)
                => matchVerifier(made.verifiers[i].routes, a).ok
<1>1. /\ opt.scopes \in Seq(ScopeStrings) /\ opt.verifiers \in Seq(VerifierOptions)
      /\ opt.stores \in Seq(StoreOptions)
  BY DEF GroupOptions
<1>2. /\ made.store = NewStore(opt.stores, opt.scopes).val /\ NewStore(opt.stores, opt.scopes).ok
      /\ \A i \in DOMAIN opt.verifiers :
           /\ newVerifier(opt.verifiers[i], opt.scopes).ok
           /\ made.verifiers[i] = newVerifier(opt.verifiers[i], opt.scopes).val
  BY GroupMade
<1>3. ASSUME NEW i \in DOMAIN opt.stores, opt.stores[i].scopes = <<>>
      PROVE  StoreMuxMatch(made.store, a).ok
  <2> DEFINE lists == [k \in DOMAIN opt.stores |-> StoreScopes(opt.stores, k, opt.scopes)]
  <2>1. PICK owner : Holds(made.store, owner) /\ Owned(owner, DOMAIN opt.stores, lists, opt.stores)
    <3> HIDE DEF lists
    <3>1. lists = [k \in DOMAIN opt.stores |-> StoreScopes(opt.stores, k, opt.scopes)]
      BY DEF lists
    <3> QED BY <1>1, <1>2, <3>1, StoresMade
  <2>2. StoreScopes(opt.stores, i, opt.scopes) # <<>>
    BY DEF LegalGroup, LegalStores
  <2>3. lists[i] = opt.scopes
    BY <1>3, <2>2 DEF StoreScopes
  <2>4. s \in DOMAIN owner
    <3> HIDE DEF lists
    <3> QED BY <2>1, <2>3 DEF Owned
  <2> QED BY <2>1, <2>4, CoveredIsRouted DEF StoreMuxMatch
<1>4. ASSUME NEW i \in DOMAIN opt.verifiers, opt.verifiers[i].type = "cosign",
             NEW j \in DOMAIN opt.verifiers[i].policies,
             opt.verifiers[i].policies[j].scopes = <<>>
      PROVE  matchVerifier(made.verifiers[i].routes, a).ok
  <2>1. PICK v : v = opt.verifiers[i]
    OBVIOUS
  <2>2. v \in VerifierOptions /\ v.type = "cosign" /\ j \in DOMAIN v.policies
          /\ v.policies[j].scopes = <<>>
    BY <1>1, <1>4, <2>1
  <2> DEFINE lists == [k \in DOMAIN v.policies |-> PolicyScopes(v.policies[k], opt.scopes)]
             r == newVerifier(v, opt.scopes)
  <2>3. r.ok /\ made.verifiers[i] = r.val
    BY <1>2, <2>1
  <2>4. PICK owner : Holds(r.val.routes, owner) /\ Owned(owner, DOMAIN v.policies, lists, v.policies)
    <3> HIDE DEF lists, r
    <3>1. /\ lists = [k \in DOMAIN v.policies |-> PolicyScopes(v.policies[k], opt.scopes)]
          /\ r = newVerifier(v, opt.scopes)
      BY DEF lists, r
    <3> QED BY <1>1, <2>2, <2>3, <3>1, VerifierMade
  <2>5. lists[j] = opt.scopes
    BY <2>2 DEF PolicyScopes
  <2>6. s \in DOMAIN owner
    <3> HIDE DEF lists
    <3> QED BY <2>2, <2>4, <2>5 DEF Owned
  <2> HIDE DEF r
  <2> QED BY <2>3, <2>4, <2>6, CoveredIsRouted DEF matchVerifier
<1> QED BY <1>3, <1>4

(* So they have one for every artifact that reaches the executor. *)
LEMMA InsideByScope ==
  ASSUME NEW groups, \A i \in DOMAIN groups : groups[i] \in GroupOptions /\ LegalGroup(groups[i]),
         NEW lists, lists = [i \in DOMAIN groups |-> groups[i].scopes],
         NEW made, made = [i \in DOMAIN groups |-> newExecutor(groups[i]).val],
         NEW t, NEW owner, Holds(t, owner), Owned(owner, DOMAIN groups, lists, made),
         NEW a \in References
  PROVE  RoutedInside(t, a)
<1> DEFINE got == matchExecutor(t, a)
           covering == {s \in DOMAIN owner : a.parses /\ CoversExactly(s, a)}
<1>1. SUFFICES ASSUME got.ok
               PROVE  LET opt == got.target.options
                      IN /\ (\E i \in DOMAIN opt.stores : opt.stores[i].scopes = <<>>)
                              => StoreMuxMatch(got.target.store, a).ok
                         /\ \A i \in DOMAIN opt.verifiers :
                              (/\ opt.verifiers[i].type = "cosign"
                               /\ \E j \in DOMAIN opt.verifiers[i].policies :
                                    opt.verifiers[i].policies[j].scopes = <<>>)
                                => matchVerifier(got.target.verifiers[i].routes, a).ok
  BY DEF RoutedInside
<1>2. PICK s \in covering : got.target = owner[s]
  BY <1>1, LooksUpExactScopes
<1>3. PICK i \in DOMAIN groups : s \in Range(lists[i])
  BY <1>2 DEF Owned
<1>4. /\ got.target = newExecutor(groups[i]).val /\ s \in Range(groups[i].scopes)
      /\ a.parses /\ CoversExactly(s, a)
  BY <1>2, <1>3 DEF Owned
<1>5. got.target.options = groups[i]
  <2>1. newExecutor(groups[i]).ok
    BY GroupMade
  <2> QED BY <1>4, <2>1, GroupMade
<1> HIDE DEF got
<1> QED BY <1>4, <1>5, RoutedInsideGroup

(* For any configuration that NewScopedExecutor accepts and any reference, the
   executor that matchExecutor finds is the one of the group with the single
   most specific scope covering the reference, none is found only when no scope
   covers it but wildcards two or more labels above, and behind it the multiplexed store and the Cosign
   verifiers that inherit the scopes have a route too. *)
THEOREM BuiltTablesRoute ==
  ASSUME NEW groups \in Seq(GroupOptions), NewScopedExecutor(groups).ok, NEW a \in References
  PROVE  /\ RoutedByScope(NewScopedExecutor(groups).val, groups, a)
         /\ RoutedInside(NewScopedExecutor(groups).val, a)
<1> DEFINE lists == [i \in DOMAIN groups |-> groups[i].scopes]
           made == [i \in DOMAIN groups |-> newExecutor(groups[i]).val]
<1>1. PICK t : t = NewScopedExecutor(groups).val
  OBVIOUS
<1>2. \A i \in DOMAIN groups : groups[i] \in GroupOptions /\ LegalGroup(groups[i])
  <2>1. \A i \in DOMAIN groups : groups[i] \in GroupOptions
    OBVIOUS
  <2>2. LegalConfiguration(groups)
    BY BuildsExactlyLegalConfigurations
  <2> QED BY <2>1, <2>2 DEF LegalConfiguration
<1>3. LegalClaims(lists)
  BY BuildsExactlyLegalConfigurations DEF LegalConfiguration
<1>4. PICK owner : Holds(t, owner) /\ Owned(owner, DOMAIN groups, lists, made)
  <2>1. \E owner : Holds(NewScopedExecutor(groups).val, owner) /\ Owned(owner, DOMAIN groups, lists, made)
    BY ExecutorMade
  <2> HIDE DEF lists, made
  <2> QED BY <1>1, <2>1
<1>5. \A i \in DOMAIN groups : made[i].options = groups[i]
  BY <1>2, GroupMade
<1>6. RoutedByScope(t, groups, a)
  <2> HIDE DEF made
  <2> QED BY <1>3, <1>4, <1>5, RoutedByOwners
<1>7. RoutedInside(t, a)
  BY <1>2, <1>4, InsideByScope
<1> QED BY <1>1, <1>6, <1>7

(* The call of NewScopedExecutor returns what it computes from what it was given. *)
BuildInv ==
  /\ handed \in Seq(GroupOptions)
  /\ returned = <<>> \/ returned = <<NewScopedExecutor(handed)>>

(* It keeps to that (Build). *)
LEMMA BuildInvariant == BuildSpec => []BuildInv
<1>1. BuildInit => BuildInv
  BY ConfigurationsAssumption DEF BuildInit, BuildInv
<1>2. BuildInv /\ [Build]_buildVars => BuildInv'
  BY DEF BuildInv, Build, buildVars
<1> QED BY <1>1, <1>2, PTL DEF BuildSpec

(* Whatever the configuration, NewScopedExecutor succeeds exactly when it is
   legal. *)
THEOREM BuildSucceedsExactlyWhenLegal == BuildSpec => []BuildsExactlyWhenLegal
<1>1. BuildInv => BuildsExactlyWhenLegal
  <2> SUFFICES ASSUME BuildInv, returned # <<>>
               PROVE  returned[1].ok <=> LegalConfiguration(handed)
    BY DEF BuildsExactlyWhenLegal
  <2>1. returned[1] = NewScopedExecutor(handed) /\ handed \in Seq(GroupOptions)
    BY DEF BuildInv
  <2> QED BY <2>1, BuildsExactlyLegalConfigurations
<1> QED BY <1>1, BuildInvariant, PTL

(* Whatever the configuration it was built from, matchExecutor sends every
   reference to the group with the one most specific scope for it, or nowhere
   when only wildcards two or more labels above cover it. *)
THEOREM EveryProbeIsRouted == BuildSpec => []RoutesToMostSpecific
<1>1. BuildInv => RoutesToMostSpecific
  <2> SUFFICES ASSUME BuildInv, IsBuilt, NEW a \in Probes
               PROVE  RoutedByScope(returned[1].val, handed, a)
    BY DEF RoutesToMostSpecific
  <2>1. /\ returned[1] = NewScopedExecutor(handed) /\ handed \in Seq(GroupOptions)
        /\ NewScopedExecutor(handed).ok /\ a \in References
    BY ProbesAssumption DEF BuildInv, IsBuilt
  <2> QED BY <2>1, BuiltTablesRoute
<1> QED BY <1>1, BuildInvariant, PTL

(* Whatever the configuration, a reference that reaches an executor finds a
   route in its store and in its Cosign verifiers where these inherit scopes. *)
THEOREM RoutersNeverDisagree == BuildSpec => []RoutersAgree
<1>1. BuildInv => RoutersAgree
  <2> SUFFICES ASSUME BuildInv, IsBuilt, NEW a \in Probes
               PROVE  RoutedInside(returned[1].val, a)
    BY DEF RoutersAgree
  <2>1. /\ returned[1] = NewScopedExecutor(handed) /\ handed \in Seq(GroupOptions)
        /\ NewScopedExecutor(handed).ok /\ a \in References
    BY ProbesAssumption DEF BuildInv, IsBuilt
  <2> QED BY <2>1, BuiltTablesRoute
<1> QED BY <1>1, BuildInvariant, PTL

-----------------------------------------------------------------------------
(* order goes through I, each member once. *)
Shuffles(order, I) ==
  /\ \A i \in DOMAIN order : order[i] \in I
  /\ \A i, j \in DOMAIN order : order[i] = order[j] => i = j
  /\ \A n \in I : \E i \in DOMAIN order : order[i] = n

(* A finite set has an order of iteration, and each goes through it once. *)
LEMMA OrdersShuffle ==
  ASSUME NEW S, IsFiniteSet(S)
  PROVE  /\ SetToSeqs(S) # {}
         /\ \A order \in SetToSeqs(S) : order \in Seq(S) /\ Shuffles(order, S)
<1> DEFINE c == Cardinality(S)
<1>1. c \in Nat /\ ExistsBijection(1..c, S)
  BY FS_CardinalityType
<1>2. IsFiniteSet(1..c) /\ Cardinality(1..c) = c
  <2>1. c \in Int /\ 1 \in Int
    BY <1>1
  <2> HIDE DEF c
  <2> QED BY <1>1, <2>1, FS_Interval
<1>3. SetToSeqs(S) # {}
  <2>1. PICK f : f \in Bijection(1..c, S)
    BY <1>1 DEF ExistsBijection
  <2>2. f \in SetToSeqs(S)
    BY <2>1 DEF SetToSeqs, Bijection, Injection, IsInjective
  <2> QED BY <2>2
<1>4. ASSUME NEW order \in SetToSeqs(S) PROVE order \in Seq(S) /\ Shuffles(order, S)
  <2>1. order \in [1..c -> S] /\ \A i, j \in 1..c : i # j => order[i] # order[j]
    BY DEF SetToSeqs
  <2>2. order \in Injection(1..c, S)
    BY <2>1 DEF Injection, IsInjective
  <2>3. order \in Surjection(1..c, S)
    <3> HIDE DEF c
    <3>1. PICK d : d = 1..c
      OBVIOUS
    <3>2. Cardinality(d) = Cardinality(S) <=> order \in Surjection(d, S)
      BY <2>2, <3>1, FS_Injection
    <3> QED BY <1>2, <3>1, <3>2 DEF c
  <2>4. order \in Seq(S)
    BY <1>1, <2>1
  <2> QED BY <2>1, <2>3, <2>4 DEF Shuffles, Surjection
<1> QED BY <1>3, <1>4

(* Whether a configuration is legal does not depend on the order of its groups. *)
LEMMA LegalInAnyOrder ==
  ASSUME NEW order, NEW groups, Shuffles(order, DOMAIN groups),
         NEW seq, seq = [i \in DOMAIN order |-> groups[order[i]]]
  PROVE  LegalConfiguration(seq) <=> LegalConfiguration(groups)
<1> DEFINE Claims(g) == \A i \in DOMAIN g : \A j \in DOMAIN g[i].scopes :
                          /\ Legal(g[i].scopes[j])
                          /\ \A k \in DOMAIN g : \A l \in DOMAIN g[k].scopes :
                               g[k].scopes[l] = g[i].scopes[j] => k = i /\ l = j
<1>1. ASSUME NEW g PROVE LegalClaims([i \in DOMAIN g |-> g[i].scopes]) <=> Claims(g)
  BY DEF LegalClaims
<1>2. DOMAIN seq = DOMAIN order /\ \A i \in DOMAIN order : seq[i] = groups[order[i]]
  OBVIOUS
<1>3. /\ \A i \in DOMAIN order : order[i] \in DOMAIN groups
      /\ \A i, j \in DOMAIN order : order[i] = order[j] => i = j
      /\ \A n \in DOMAIN groups : \E i \in DOMAIN order : order[i] = n
  BY DEF Shuffles
<1>4. DOMAIN seq # {} <=> DOMAIN groups # {}
  BY <1>2, <1>3
<1>5. (\A i \in DOMAIN seq : LegalGroup(seq[i])) <=> (\A n \in DOMAIN groups : LegalGroup(groups[n]))
  BY <1>2, <1>3
<1>6. Claims(seq) <=> Claims(groups)
  <2>1. ASSUME Claims(groups) PROVE Claims(seq)
    BY <1>2, <1>3, <2>1
  <2>2. ASSUME Claims(seq) PROVE Claims(groups)
    <3>1. ASSUME NEW n \in DOMAIN groups, NEW j \in DOMAIN groups[n].scopes
          PROVE  /\ Legal(groups[n].scopes[j])
                 /\ \A k \in DOMAIN groups : \A l \in DOMAIN groups[k].scopes :
                      groups[k].scopes[l] = groups[n].scopes[j] => k = n /\ l = j
      <4>1. PICK i \in DOMAIN order : order[i] = n
        BY <1>3
      <4>2. i \in DOMAIN seq /\ seq[i] = groups[n]
        BY <1>2, <4>1
      <4>3. Legal(groups[n].scopes[j])
        BY <2>2, <4>2
      <4>4. ASSUME NEW k \in DOMAIN groups, NEW l \in DOMAIN groups[k].scopes,
                   groups[k].scopes[l] = groups[n].scopes[j]
            PROVE  k = n /\ l = j
        <5>1. PICK m \in DOMAIN order : order[m] = k
          BY <1>3
        <5>2. m \in DOMAIN seq /\ seq[m] = groups[k]
          BY <1>2, <5>1
        <5>3. m = i /\ l = j
          BY <2>2, <4>2, <4>4, <5>2
        <5> QED BY <4>1, <5>1, <5>3
      <4> QED BY <4>3, <4>4
    <3> QED BY <3>1
  <2> QED BY <2>1, <2>2
<1> HIDE DEF Claims
<1>7. \A g : LegalClaims([i \in DOMAIN g |-> g[i].scopes]) <=> Claims(g)
  BY <1>1
<1> QED BY <1>4, <1>5, <1>6, <1>7 DEF LegalConfiguration

(* Who owns which scope is the same under any order of iteration. *)
LEMMA OwnedInAnyOrder ==
  ASSUME NEW order, NEW I, Shuffles(order, I), NEW owner, NEW lists, NEW value,
         Owned(owner, DOMAIN order, [i \in DOMAIN order |-> lists[order[i]]],
                                    [i \in DOMAIN order |-> value[order[i]]])
  PROVE  Owned(owner, I, lists, value)
<1>1. /\ \A i \in DOMAIN order : order[i] \in I
      /\ \A n \in I : \E i \in DOMAIN order : order[i] = n
  BY DEF Shuffles
<1>2. /\ DOMAIN owner = UNION {Range(lists[order[i]]) : i \in DOMAIN order}
      /\ \A i \in DOMAIN order : \A s \in Range(lists[order[i]]) : owner[s] = value[order[i]]
  BY DEF Owned
<1>3. DOMAIN owner = UNION {Range(lists[n]) : n \in I}
  BY <1>1, <1>2
<1>4. ASSUME NEW n \in I, NEW s \in Range(lists[n]) PROVE owner[s] = value[n]
  BY <1>1, <1>2
<1> QED BY <1>3, <1>4 DEF Owned

(* Tables with the same owners are the same. *)
LEMMA OneTable ==
  ASSUME NEW t, NEW u, NEW owner, NEW other, Holds(t, owner), Holds(u, other),
         NEW I, NEW lists, NEW value, Owned(owner, I, lists, value), Owned(other, I, lists, value)
  PROVE  t = u
<1>1. DOMAIN owner = DOMAIN other
  BY DEF Owned
<1>2. \A s \in DOMAIN owner : owner[s] = other[s]
  BY DEF Owned
<1>3. owner = other
  BY <1>1, <1>2 DEF Holds
<1> QED BY <1>3 DEF Holds

(* The executors of the groups of o, and the scopes they are to own. *)
Lists(o) == [n \in Configured(o) |-> o[n].scopes]
MadeGroups(o) == [n \in Configured(o) |-> newExecutor(o[n]).val]

(* Whatever order refreshExecutor iterates over the options in, it builds exactly
   the legal ones, into a table owned by the objects of these options. *)
LEMMA BuildsResult ==
  ASSUME NEW o \in [Names -> Options \cup {Absent}], NEW m \in Builds(o)
  PROVE  /\ m.ok \in BOOLEAN
         /\ m.ok <=> LegalConfiguration(Groups(o))
         /\ m.ok => \E owner : Holds(m.val, owner)
                                /\ Owned(owner, Configured(o), Lists(o), MadeGroups(o))
<1>1. IsFiniteSet(Configured(o))
  <2>1. Configured(o) \in SUBSET Names
    BY DEF Configured
  <2> QED BY <2>1, NamesAssumption, FS_Subset
<1>2. \A n \in Configured(o) : o[n] \in GroupOptions
  BY SpecsAssumption DEF Configured, Options
<1>3. PICK order \in SetToSeqs(Configured(o)) :
        m = NewScopedExecutor([i \in DOMAIN order |-> o[order[i]]])
  BY DEF Builds
<1>4. order \in Seq(Configured(o)) /\ Shuffles(order, Configured(o))
  BY <1>1, OrdersShuffle
<1> DEFINE seq == [i \in DOMAIN order |-> o[order[i]]]
           lists == [i \in DOMAIN seq |-> seq[i].scopes]
           made == [i \in DOMAIN seq |-> newExecutor(seq[i]).val]
<1>5. seq \in Seq(GroupOptions)
  <2>1. DOMAIN order = 1..Len(order) /\ Len(order) \in Nat
    BY <1>4
  <2>2. \A i \in 1..Len(order) : o[order[i]] \in GroupOptions
    BY <1>2, <1>4
  <2> QED BY <2>1, <2>2
<1>6. LegalConfiguration(seq) <=> LegalConfiguration(Groups(o))
  <2>1. PICK g : g = Groups(o)
    OBVIOUS
  <2>2. DOMAIN g = Configured(o) /\ \A n \in Configured(o) : g[n] = o[n]
    BY <2>1 DEF Groups
  <2>3. seq = [i \in DOMAIN order |-> g[order[i]]]
    BY <1>4, <2>2
  <2> HIDE DEF seq
  <2> QED BY <1>4, <2>1, <2>2, <2>3, LegalInAnyOrder
<1>7. DOMAIN seq = DOMAIN order
  OBVIOUS
<1>8. /\ lists = [i \in DOMAIN order |-> Lists(o)[order[i]]]
      /\ made = [i \in DOMAIN order |-> MadeGroups(o)[order[i]]]
  BY <1>4 DEF Lists, MadeGroups
<1>9. m = NewScopedExecutor(seq)
  BY <1>3
<1> HIDE DEF seq
<1>10. /\ m.ok \in BOOLEAN
       /\ m.ok <=> LegalConfiguration(seq)
       /\ m.ok => \E owner : Holds(m.val, owner) /\ Owned(owner, DOMAIN seq, lists, made)
  <2> HIDE DEF lists, made
  <2>1. /\ lists = [i \in DOMAIN seq |-> seq[i].scopes]
        /\ made = [i \in DOMAIN seq |-> newExecutor(seq[i]).val]
    BY DEF lists, made
  <2> QED BY <1>5, <1>9, <2>1, ExecutorMade
<1>11. ASSUME m.ok
       PROVE  \E owner : Holds(m.val, owner)
                          /\ Owned(owner, Configured(o), Lists(o), MadeGroups(o))
  <2>1. PICK owner : Holds(m.val, owner) /\ Owned(owner, DOMAIN seq, lists, made)
    BY <1>10, <1>11
  <2> HIDE DEF lists, made
  <2>2. Owned(owner, Configured(o), Lists(o), MadeGroups(o))
    BY <1>4, <1>7, <1>8, <2>1, OwnedInAnyOrder
  <2> QED BY <2>1, <2>2
<1> QED BY <1>6, <1>10, <1>11

(* There is an order to iterate over the options in. *)
LEMMA SomeBuild ==
  ASSUME NEW o \in [Names -> Options \cup {Absent}]
  PROVE  Builds(o) # {}
<1>1. Configured(o) \in SUBSET Names
  BY DEF Configured
<1>2. IsFiniteSet(Configured(o))
  BY <1>1, NamesAssumption, FS_Subset
<1>3. PICK order : order \in SetToSeqs(Configured(o))
  BY <1>2, OrdersShuffle
<1> QED BY <1>3 DEF Builds

(* The random order in which Go iterates over the options map cannot be seen: for
   any options the manager may hold, all orders fail or all give the same
   scope table, and they succeed exactly when the options are legal taken
   together (refreshExecutor, NewScopedExecutor). *)
THEOREM BuildIsDetermined ==
  ASSUME NEW o \in [Names -> Options \cup {Absent}]
  PROVE  /\ Buildable(o) <=> LegalConfiguration(Groups(o))
         /\ \A m, k \in Builds(o) : m.ok = k.ok /\ (m.ok => m.val = k.val)
<1>1. \A m \in Builds(o) : m.ok \in BOOLEAN /\ (m.ok <=> LegalConfiguration(Groups(o)))
  BY BuildsResult
<1>2. Buildable(o) <=> LegalConfiguration(Groups(o))
  BY <1>1, SomeBuild DEF Buildable
<1>3. ASSUME NEW m \in Builds(o), NEW k \in Builds(o) PROVE m.ok = k.ok
  BY <1>1
<1>4. ASSUME NEW m \in Builds(o), NEW k \in Builds(o), m.ok PROVE m.val = k.val
  <2>1. k.ok
    BY <1>3, <1>4
  <2>2. PICK owner : Holds(m.val, owner) /\ Owned(owner, Configured(o), Lists(o), MadeGroups(o))
    BY <1>4, BuildsResult
  <2>3. PICK other : Holds(k.val, other) /\ Owned(other, Configured(o), Lists(o), MadeGroups(o))
    BY <2>1, BuildsResult
  <2> QED BY <2>2, <2>3, OneTable
<1> QED BY <1>2, <1>3, <1>4

(* The pointer is nil or holds a table one iteration order of its options gives. *)
TableOfOptions ==
  executor # NoExecutor =>
    \E m \in Builds(executor.from) : m.ok /\ executor.table = m.val

(* A refresh stores a table only together with the options it was built from. *)
LEMMA RefreshTable ==
  ASSUME NEW o, NEW failed \in BOOLEAN, refreshExecutor(o, failed), TableOfOptions
  PROVE  TableOfOptions'
<1>1. CASE executor' = executor
  BY <1>1 DEF TableOfOptions, NoExecutor, Builds, Configured
<1>2. ASSUME NEW m \in Builds(o), m.ok, executor' = Executor(m.val, o) PROVE TableOfOptions'
  <2>1. executor'.from = o /\ executor'.table = m.val
    BY <1>2 DEF Executor
  <2>2. \E k \in Builds(executor'.from) : k.ok /\ executor'.table = k.val
    BY <1>2, <2>1
  <2> QED BY <2>2 DEF TableOfOptions, NoExecutor, Builds, Configured
<1> QED BY <1>1, <1>2 DEF refreshExecutor

(* Every step keeps the table of the pointer the one of its options. *)
LEMMA TableOfOptionsStep == TableOfOptions /\ [Next]_vars => TableOfOptions'
<1> SUFFICES ASSUME TableOfOptions, [Next]_vars PROVE TableOfOptions'
  OBVIOUS
<1>1. CASE upsertExecutor
  BY <1>1, RefreshTable DEF upsertExecutor
<1>2. CASE deleteExecutor
  <2>1. CASE opts[worker.name] # Absent
    BY <1>2, <2>1, RefreshTable DEF deleteExecutor
  <2>2. CASE opts[worker.name] = Absent
    BY <1>2, <2>2 DEF deleteExecutor, TableOfOptions, NoExecutor, Builds, Configured
  <2> QED BY <2>1, <2>2
<1>3. CASE Restart
  BY <1>3 DEF Restart, TableOfOptions, NoExecutor
<1>4. CASE UNCHANGED executor
  BY <1>4 DEF TableOfOptions, NoExecutor, Builds, Configured
<1>5. \/ upsertExecutor \/ deleteExecutor \/ Restart \/ UNCHANGED executor
  BY DEF Next, vars, ReconcileStep, Create, Update, Delete, UserEdit, Deliver, Resync,
         ReconcileGet, updateStatus
<1> QED BY <1>1, <1>2, <1>3, <1>4, <1>5

(* Such a table routes every request as the objects behind it say. *)
LEMMA TableRoutes == TypeOK /\ TableOfOptions => RequestsReachOwners
<1> SUFFICES ASSUME TypeOK, TableOfOptions, executor # NoExecutor, NEW a \in Artifacts
             PROVE  /\ RoutedByScope(executor.table, Groups(executor.from), a)
                    /\ RoutedInside(executor.table, a)
  BY DEF RequestsReachOwners
<1>1. PICK o : o = executor.from
  OBVIOUS
<1>2. o \in [Names -> Options \cup {Absent}] /\ a \in References
  BY <1>1, ArtifactsAssumption DEF TypeOK
<1>3. PICK m \in Builds(o) : m.ok /\ executor.table = m.val
  BY <1>1 DEF TableOfOptions
<1>4. PICK t : t = executor.table
  OBVIOUS
<1>5. LegalConfiguration(Groups(o))
  BY <1>2, <1>3, BuildsResult
<1>6. PICK owner : Holds(t, owner) /\ Owned(owner, Configured(o), Lists(o), MadeGroups(o))
  BY <1>2, <1>3, <1>4, BuildsResult
<1>7. PICK groups : groups = Groups(o)
  OBVIOUS
<1>8. DOMAIN groups = Configured(o) /\ \A n \in Configured(o) : groups[n] = o[n]
  BY <1>7 DEF Groups
<1>9. /\ Lists(o) = [n \in DOMAIN groups |-> groups[n].scopes]
      /\ MadeGroups(o) = [n \in DOMAIN groups |-> newExecutor(groups[n]).val]
  BY <1>8 DEF Lists, MadeGroups
<1>10. \A n \in DOMAIN groups : groups[n] \in GroupOptions /\ LegalGroup(groups[n])
  <2>1. \A n \in Configured(o) : o[n] \in GroupOptions
    BY <1>2, SpecsAssumption DEF Configured, Options
  <2> QED BY <1>5, <1>7, <1>8, <2>1 DEF LegalConfiguration
<1>11. LegalClaims(Lists(o))
  BY <1>5, <1>7, <1>9 DEF LegalConfiguration
<1>12. \A n \in DOMAIN groups : MadeGroups(o)[n].options = groups[n]
  BY <1>9, <1>10, GroupMade
<1>13. RoutedByScope(t, groups, a)
  BY <1>2, <1>6, <1>8, <1>9, <1>11, <1>12, RoutedByOwners
<1>14. RoutedInside(t, a)
  BY <1>2, <1>6, <1>8, <1>9, <1>10, InsideByScope
<1> QED BY <1>1, <1>4, <1>7, <1>13, <1>14

(* In every reachable state, whatever edits, failures and restarts came before, a
   request that finds an executor pointer is routed by the objects the pointer
   was built from (ValidateArtifact, Resolve, refreshExecutor). *)
THEOREM EveryRequestReachesItsOwner == Spec => []RequestsReachOwners
<1>1. Init => TableOfOptions
  BY DEF Init, TableOfOptions
<1>2. TableOfOptions /\ [Next]_vars => TableOfOptions'
  BY TableOfOptionsStep
<1> QED BY <1>1, <1>2, TableRoutes, TypeCorrect, PTL DEF Spec
=============================================================================
