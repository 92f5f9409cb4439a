------------------------- MODULE ResourceControllers -------------------------
(***************************************************************************)
(* The controllers of pkg/controllers: one per kind of resource and scope, *)
(* cluster-wide or namespaced, each with a work queue and one worker.      *)
(*                                                                         *)
(* A reconcile is cut where others can step in: after Get, after building  *)
(* what the object describes (which may download a plugin or reach a key   *)
(* vault), after each operation on a map, and at the status update.  A     *)
(* reconcile that returns an error is queued again by controller-runtime.  *)
(* Meanwhile users edit objects, a request looks resources up, and the     *)
(* process restarts.                                                       *)
(***************************************************************************)
EXTENDS ResourceMaps, FiniteSets

CONSTANTS ObjectsOf,    \* [Kinds -> SUBSET Resources]: the objects users work with
          SpecsOf,      \* their specifications: [Kinds -> sets of records raw, type, name]
          Stored(_),    \* the objects a kind has when the process starts: [Objects -> spec or NoSpec]
          MaxEdits,     \* [Kinds -> Nat]: bound on creations, updates and deletions
          MaxFaults,    \* bound on calls that fail for a passing reason and on restarts
          Known         \* plugin types that are registered

Kinds == {"kmp", "certstore", "verifier", "store", "policy"}

ASSUME ObjectsAssumption ==
  /\ RatifyPolicy \in Names /\ Absent.name \notin Names
  /\ ObjectsOf \in [Kinds -> SUBSET Resources]
  /\ \A o \in ObjectsOf["certstore"] : IsNamespacedNamed(o)
ASSUME LimitsAssumption == MaxEdits \in [Kinds -> Nat] /\ MaxFaults \in Nat

VARIABLES
  focus,    \* the kind of the objects: kinds share no map and no controller
  api,      \* [Objects -> spec or NoSpec]: what the API server holds
  status,   \* [Objects -> "none", "ok" or "failed"]
  queue,    \* the work queues
  work,     \* [Controllers -> what its worker does]
  maps,     \* the maps of ResourceMaps
  request,  \* one request that looks resources up
  left,     \* edits and faults left
  seen      \* history: the spec of each object's last finished reconcile

vars == <<focus, api, status, queue, work, maps, request, left, seen>>

NoSpec == [raw |-> "no object"]
Specs == UNION {SpecsOf[kind] : kind \in Kinds}
Objects == UNION {ObjectsOf[kind] : kind \in Kinds}
ASSUME StoredAssumption ==
  \A kind \in Kinds : Stored(kind) \in [Objects -> Specs \cup {NoSpec}]
Controllers == {"cluster", "namespaced"}
ControllerOf(o) == IF IsNamespacedNamed(o) THEN "namespaced" ELSE "cluster"

-----------------------------------------------------------------------------
(* Building what a spec describes: what can go wrong in the parameters.  In the
   place of its name a provider has its refresh interval; "none" stands for an
   empty field. *)
Decodable(spec) == spec.raw # "garbled"
rawToKeyManagementProviderConfig(spec) == spec.raw # "none" /\ Decodable(spec)
CreateKeyManagementProviderFromConfig(spec) == spec.type # "none" /\ spec.type \in Known
SpecToKeyManagementProvider(spec) ==
  rawToKeyManagementProviderConfig(spec) /\ CreateKeyManagementProviderFromConfig(spec)
CreateRefresherFromConfig(spec) == spec.name # "bad interval"

getCertStoreConfig(spec) == spec.raw # "none" /\ Decodable(spec)
getCertificateProvider(spec) == spec.type \in Known

rawToPolicyConfig(spec) == spec.raw # "none" /\ Decodable(spec)
SpecToPolicyEnforcer(spec) == rawToPolicyConfig(spec) /\ spec.type \in Known

(* Verifiers and stores need no parameters; the type defaults to the name. *)
SpecToVerifierConfig(spec) == Decodable(spec)
GetVerifierType(spec) == IF spec.type = "none" THEN spec.name ELSE spec.type
CreateStoreConfig(spec) == Decodable(spec)

(***************************************************************************)
(* What a reconcile does: the operations on the maps, the status it writes *)
(* ("none" when it writes none) and whether it returns an error.  fault    *)
(* names the call that fails for a passing reason: "list", "call" or       *)
(* "none".                                                                 *)
(***************************************************************************)
Outcome(ops, stat, error) == [ops |-> ops, status |-> stat, error |-> error]
Removed(ops) == Outcome(ops, "none", FALSE)
Done(ops) == Outcome(ops, "ok", FALSE)
Failed(ops) == Outcome(ops, "failed", TRUE)

NotListed == Outcome(<<>>, "none", TRUE)

(* The bug of marking the certificates only. *)
Errors_CertificatesOnly(r) == SetCertificateError(r)

Errors(r) == SetCertificateError(r) \o SetKeyError(r)

(* Refresh is the refresher's: it saves what it fetched, or fails. *)
ClusterKMPReconcile(o, spec, fault) ==
  IF spec = NoSpec THEN Removed(DeleteResourceFromMap(o))
  ELSE IF fault = "list" THEN NotListed
  ELSE IF ~SpecToKeyManagementProvider(spec) \/ ~CreateRefresherFromConfig(spec)
  THEN Failed(Errors(o))
  ELSE IF fault = "call" THEN Failed(<<>>)
  ELSE Done(SaveSecrets(o, Entry(o.name, spec)))

(* The twin keeps the old secrets when only the refresher cannot be created. *)
NamespacedKMPReconcile(o, spec, fault) ==
  IF spec = NoSpec THEN Removed(DeleteResourceFromMap(o))
  ELSE IF fault = "list" THEN NotListed
  ELSE IF ~SpecToKeyManagementProvider(spec) THEN Failed(Errors(o))
  ELSE IF ~CreateRefresherFromConfig(spec) \/ fault = "call" THEN Failed(<<>>)
  ELSE Done(SaveSecrets(o, Entry(o.name, spec)))

(* The certificates of an earlier fetch stay when a later one fails. *)
CertStoreReconcile(o, spec, fault) ==
  IF spec = NoSpec THEN Removed(CertStoreDelete(o))
  ELSE IF ~getCertStoreConfig(spec) \/ ~getCertificateProvider(spec) \/ fault = "call"
  THEN Failed(<<>>)
  ELSE Done(CertStoreAdd(o, Entry(o.name, spec)))

UpsertVerifier(scope, name, spec, fault) ==
  IF fault = "call" \/ GetVerifierType(spec) \notin Known THEN Failed(<<>>)
  ELSE Done(AddVerifier(scope, name, spec))

ClusterVerifierReconcile(o, spec, fault) ==
  IF spec = NoSpec THEN Removed(DeleteVerifier(EmptyNamespace, o.name))
  ELSE IF ~SpecToVerifierConfig(spec) THEN Failed(<<>>)
  ELSE UpsertVerifier(EmptyNamespace, o.name, spec, fault)

NamespacedVerifierReconcile(o, spec, fault) ==
  IF spec = NoSpec THEN Removed(DeleteVerifier(o.ns, o.name))
  ELSE IF ~SpecToVerifierConfig(spec) THEN Failed(<<>>)
  ELSE UpsertVerifier(o.ns, o.name, spec, fault)

UpsertStoreMap(scope, name, spec, fault) ==
  IF fault = "call" \/ spec.name \notin Known THEN Failed(<<>>)
  ELSE Done(AddStore(scope, name, spec))

ClusterStoreReconcile(o, spec, fault) ==
  IF spec = NoSpec THEN Removed(DeleteStore(EmptyNamespace, o.name))
  ELSE IF ~CreateStoreConfig(spec) THEN Failed(<<>>)
  ELSE UpsertStoreMap(EmptyNamespace, o.name, spec, fault)

NamespacedStoreReconcile(o, spec, fault) ==
  IF spec = NoSpec THEN Removed(DeleteStore(o.ns, o.name))
  ELSE IF ~CreateStoreConfig(spec) THEN Failed(<<>>)
  ELSE UpsertStoreMap(o.ns, o.name, spec, fault)

(* A policy of another name is refused for good: no error, so no retry. *)
policyAddOrReplace(scope, name, spec, fault) ==
  IF name # RatifyPolicy THEN Outcome(<<>>, "failed", FALSE)
  ELSE IF fault = "call" \/ ~SpecToPolicyEnforcer(spec) THEN Failed(<<>>)
  ELSE Done(AddPolicy(scope, RatifyPolicy, spec))

ClusterPolicyReconcile(o, spec, fault) ==
  IF spec = NoSpec THEN Removed(DeletePolicy(maps, EmptyNamespace, o.name))
  ELSE policyAddOrReplace(EmptyNamespace, o.name, spec, fault)

NamespacedPolicyReconcile(o, spec, fault) ==
  IF spec = NoSpec THEN Removed(DeletePolicy(maps, o.ns, o.name))
  ELSE policyAddOrReplace(o.ns, o.name, spec, fault)

Reconcile(o, spec, fault) ==
  LET By(cluster, namespaced) == IF IsNamespacedNamed(o) THEN namespaced ELSE cluster
  IN CASE focus = "kmp" ->
            By(ClusterKMPReconcile(o, spec, fault), NamespacedKMPReconcile(o, spec, fault))
       [] focus = "certstore" -> CertStoreReconcile(o, spec, fault)
       [] focus = "verifier" ->
            By(ClusterVerifierReconcile(o, spec, fault), NamespacedVerifierReconcile(o, spec, fault))
       [] focus = "store" ->
            By(ClusterStoreReconcile(o, spec, fault), NamespacedStoreReconcile(o, spec, fault))
       [] focus = "policy" ->
            By(ClusterPolicyReconcile(o, spec, fault), NamespacedPolicyReconcile(o, spec, fault))

(***************************************************************************)
(* SetupWithManager.  A status update stores a new fetch time in providers *)
(* and certificate stores, so that it always is a change; their controller *)
(* drops events that leave the generation as it was.                       *)
(***************************************************************************)
Timed == {"kmp", "certstore"}

(* The bug of acting on every event. *)
GenerationChangedPredicate_None(kind) == TRUE

GenerationChangedPredicate(kind) == kind \notin Timed
StatusEvent(o, stat) ==
  GenerationChangedPredicate(focus) /\ (focus \in Timed \/ status[o] # stat)

-----------------------------------------------------------------------------
Idle == [stage |-> "idle"]
Working(c, stage) == work[c].stage = stage
WorksOn(o) == work[ControllerOf(o)] # Idle /\ work[ControllerOf(o)].obj = o

Init ==
  /\ focus \in Kinds
  /\ api = Stored(focus)
  /\ status = [o \in Objects |-> "none"]
  /\ queue = {o \in Objects : api[o] # NoSpec}
  /\ work = [c \in Controllers |-> Idle]
  /\ maps = EmptyMaps
  /\ request = Idle
  /\ left = [edits |-> MaxEdits[focus], faults |-> MaxFaults]
  /\ seen = [o \in Objects |-> NoSpec]

(* A user creates, updates or deletes an object. *)
Edit(o) ==
  /\ left.edits > 0 /\ o \in ObjectsOf[focus]
  /\ \E spec \in (SpecsOf[focus] \cup {NoSpec}) \ {api[o]} :
       /\ api' = [api EXCEPT ![o] = spec]
       /\ status' = [status EXCEPT ![o] = IF NoSpec \in {spec, api[o]} THEN "none" ELSE @]
  /\ queue' = queue \cup {o}
  /\ work' = IF WorksOn(o) THEN [work EXCEPT ![ControllerOf(o)].fresh = FALSE] ELSE work
  /\ left' = [left EXCEPT !.edits = @ - 1]
  /\ UNCHANGED <<focus, maps, request, seen>>

(* The refresh interval of a provider, the informer's resync for the unfiltered kinds. *)
Resync(o) ==
  /\ left.edits > 0 /\ focus # "certstore"
  /\ api[o] # NoSpec /\ o \notin queue
  /\ queue' = queue \cup {o}
  /\ left' = [left EXCEPT !.edits = @ - 1]
  /\ UNCHANGED <<focus, api, status, work, maps, request, seen>>

(* The worker takes an object off its queue and gets a copy of it. *)
Take(o) ==
  LET c == ControllerOf(o)
  IN /\ o \in queue /\ work[c] = Idle
     /\ queue' = queue \ {o}
     /\ work' = [work EXCEPT ![c] =
          [stage |-> "build", obj |-> o, spec |-> api[o], fresh |-> TRUE]]
     /\ request' = IF api[o] = NoSpec /\ request # Idle
                   THEN [request EXCEPT !.known = FALSE] ELSE request
     /\ UNCHANGED <<focus, api, status, maps, left, seen>>

(* Get fails: the object goes back into the queue. *)
TakeFails(o) ==
  /\ o \in queue /\ work[ControllerOf(o)] = Idle
  /\ left.faults > 0
  /\ left' = [left EXCEPT !.faults = @ - 1]
  /\ UNCHANGED <<focus, api, status, queue, work, maps, request, seen>>

(* Everything up to the first operation on a map. *)
Build(c) ==
  /\ Working(c, "build")
  /\ \E fault \in {"none", "list", "call"} :
       LET out == Reconcile(work[c].obj, work[c].spec, fault)
       IN /\ fault # "none" => left.faults > 0
          /\ left' = IF fault = "none" THEN left ELSE [left EXCEPT !.faults = @ - 1]
          /\ work' = [work EXCEPT ![c] =
               [stage |-> "apply", obj |-> @.obj, spec |-> @.spec, fresh |-> @.fresh,
                ops |-> out.ops, status |-> out.status, error |-> out.error]]
  /\ UNCHANGED <<focus, api, status, queue, maps, request, seen>>

(* The next operation on a map. *)
Apply(c) ==
  /\ Working(c, "apply") /\ work[c].ops # <<>>
  /\ maps' = Applied(maps, Head(work[c].ops))
  /\ work' = [work EXCEPT ![c].ops = Tail(@)]
  /\ UNCHANGED <<focus, api, status, queue, request, left, seen>>

(* The bug of retrying inside the reconcile, with the copy it has. *)
Returned_Loops(w) ==
  IF w.error THEN [stage |-> "build", obj |-> w.obj, spec |-> w.spec, fresh |-> w.fresh] ELSE Idle

Returned(w) == Idle
Requeued(w) == IF w.error THEN {w.obj} ELSE {}

(* The status update, refused when the object has changed since Get or for a
   passing reason, which is only logged; then the reconcile returns. *)
Finish(c) ==
  LET w == work[c]
  IN /\ Working(c, "apply") /\ w.ops = <<>>
     /\ \/ /\ w.status # "none" /\ w.fresh
           /\ status' = [status EXCEPT ![w.obj] = w.status]
           /\ queue' = queue \cup Requeued(w)
                              \cup (IF StatusEvent(w.obj, w.status) THEN {w.obj} ELSE {})
           /\ UNCHANGED left
        \/ /\ w.status = "none" \/ ~w.fresh \/ left.faults > 0
           /\ left' = IF w.status = "none" \/ ~w.fresh THEN left ELSE [left EXCEPT !.faults = @ - 1]
           /\ queue' = queue \cup Requeued(w)
           /\ UNCHANGED status
     /\ work' = [work EXCEPT ![c] = Returned(w)]
     /\ seen' = [seen EXCEPT ![w.obj] = IF w.error /\ w.status = "none" THEN @ ELSE w.spec]
     /\ UNCHANGED <<focus, api, maps, request>>

-----------------------------------------------------------------------------
(* A request looks up what its namespace may use. *)
ByError == {"kmp", "certstore"}
Lookups(ns) ==
  CASE focus = "kmp" -> {GetCertificatesFromMap(ns, r) : r \in ObjectsOf[focus]}
                        \cup {GetKeysFromMap(ns, r) : r \in ObjectsOf[focus]}
    [] focus = "certstore" -> {GetCertsFromStore(ns, r) : r \in ObjectsOf[focus]}
    [] focus = "verifier" -> {GetVerifiers(ns)}
    [] focus = "store" -> {GetStores(ns)}
    [] focus = "policy" -> {GetPolicy(ns)}

Removing == \E c \in Controllers : work[c] # Idle /\ work[c].spec = NoSpec

Begin ==
  /\ request = Idle
  /\ \E ns \in Scopes : \E l \in Lookups(ns) \ {Refused} :
       request' = [stage |-> "first", ns |-> ns, lookup |-> l, found |-> {},
                   known |-> ~Removing /\ \E m \in {l.first, l.second} : maps[m][l.at] # Absent]
  /\ UNCHANGED <<focus, api, status, queue, work, maps, left, seen>>

Ended(answer, found) == [request EXCEPT !.stage = answer, !.found = found, !.lookup = Refused]
GoesOn == [request EXCEPT !.stage = "second"]

(* The error of the resource, or the entries of the request's own scope. *)
FirstLoad ==
  LET l == request.lookup
      own == InScope(maps, l.first, request.ns)
  IN /\ request.stage = "first"
     /\ request' = IF focus \in ByError
          THEN IF maps[l.first][l.at] # Absent THEN Ended("error", {}) ELSE GoesOn
          ELSE IF own # {} \/ request.ns = EmptyNamespace
               THEN Ended("found", own) ELSE GoesOn
     /\ UNCHANGED <<focus, api, status, queue, work, maps, left, seen>>

(* The value of the resource, or the cluster-wide entries. *)
SecondLoad ==
  LET l == request.lookup
  IN /\ request.stage = "second"
     /\ request' = IF focus \in ByError
          THEN IF maps[l.second][l.at] # Absent THEN Ended("found", {l.at})
               ELSE Ended("notfound", {})
          ELSE Ended("found", InScope(maps, l.second, EmptyNamespace))
     /\ UNCHANGED <<focus, api, status, queue, work, maps, left, seen>>

End ==
  /\ request # Idle /\ request.stage \in {"error", "found", "notfound"}
  /\ request' = Idle
  /\ UNCHANGED <<focus, api, status, queue, work, maps, left, seen>>

(***************************************************************************)
(* The process starts again with empty maps and every object queued.       *)
(* Besides an ordinary restart this is what the Go runtime makes of a      *)
(* verifier or store written while a request iterates the same inner map,  *)
(* which neither side locks; it may also go unnoticed.                     *)
(***************************************************************************)
Restart ==
  /\ left.faults > 0
  /\ left' = [left EXCEPT !.faults = @ - 1]
  /\ maps' = EmptyMaps
  /\ queue' = {o \in Objects : api[o] # NoSpec}
  /\ work' = [c \in Controllers |-> Idle]
  /\ request' = Idle
  /\ seen' = [o \in Objects |-> NoSpec]
  /\ UNCHANGED <<focus, api, status>>

Step(c) == Build(c) \/ Apply(c) \/ Finish(c)

Next ==
  \/ \E o \in Objects : Edit(o) \/ Resync(o) \/ Take(o) \/ TakeFails(o)
  \/ \E c \in Controllers : Step(c)
  \/ Begin \/ FirstLoad \/ SecondLoad \/ End
  \/ Restart

(* A worker goes on, and no queued object is passed over for ever. *)
Fairness == /\ \A c \in Controllers : WF_vars(Step(c))
            /\ \A o \in Objects : SF_vars(Take(o))

Spec == Init /\ [][Next]_vars
FairSpec == Spec /\ Fairness

-----------------------------------------------------------------------------
(* A request never gets a resource of a namespace other than its own and the
   cluster-wide scope, and never a mixture of the two, although it loads twice
   while controllers write: hasAccessToProvider, hasAccessToStore and the
   fallbacks of GetVerifiers, GetStores and GetPolicy.  A cluster-wide request
   may read every certificate store, which the code keeps for compatibility. *)
Isolated ==
  (request # Idle /\ ~(focus = "certstore" /\ request.ns = EmptyNamespace)) =>
    \/ \A r \in request.found : r.ns = request.ns
    \/ \A r \in request.found : r.ns = EmptyNamespace

(* A provider or certificate store that was known when a request began, and that
   nobody removes meanwhile, is never reported as not existing: the writers
   store the value before they drop the error, the readers look for the error
   before the value (setCertificatesInMap, setKeysInMap, Get...FromMap). *)
KnownIsFound == (request # Idle /\ request.stage = "notfound") => ~request.known

(* What an object that is neither queued nor worked on has in the maps. *)
Settled(o) == o \notin queue /\ ~WorksOn(o)
ValueMaps(kind) == CASE kind = "kmp" -> {"certs", "keys"} [] kind = "certstore" -> {"certStores"}
                     [] kind = "verifier" -> {"verifiers"} [] kind = "store" -> {"stores"}
                     [] kind = "policy" -> {"policies"}
ErrorMaps(kind) == CASE kind = "kmp" -> {"certErrs", "keyErrs"} [] kind = "certstore" -> {"storeErrs"}
                     [] OTHER -> {}
InForce(o, v) ==
  /\ \A m \in ValueMaps(focus) : maps[m][o] = v
  /\ \A m \in ErrorMaps(focus) : maps[m][o] = Absent
Misnamed(o) == focus = "policy" /\ o.name # RatifyPolicy

(* Whatever users did, and whatever failed on the way: an object that nobody
   will reconcile again is in force with its latest specification, and leaves
   nothing behind, errors included, once it is deleted.  In particular creating
   or deleting a policy of another name never touches the policy in force. *)
MapsConverge ==
  \A o \in Objects : (Settled(o) /\ ~Misnamed(o)) =>
    InForce(o, IF api[o] = NoSpec THEN Absent ELSE Entry(o.name, api[o]))

(* Once a provider whose specification cannot be turned into a provider has been
   reconciled, requests for its certificates and its keys get the error, not
   secrets of an earlier specification (SetCertificateError, SetKeyError). *)
BrokenProviderIsRefused ==
  \A o \in Objects :
    (focus = "kmp" /\ api[o] # NoSpec /\ seen[o] = api[o] /\ ~WorksOn(o)
     /\ ~SpecToKeyManagementProvider(api[o]))
      => \A m \in ErrorMaps("kmp") : maps[m][o] = Failure

(* Every specification that can be built is in force in the end, whatever failed
   before: the error a reconcile returns is what brings the object back. *)
Buildable(o) ==
  LET spec == api[o]
  IN spec # NoSpec /\ ~Misnamed(o) /\ Reconcile(o, spec, "none").status = "ok"
EventuallyInForce ==
  \A o \in Objects : <>[](Buildable(o) => InForce(o, Entry(o.name, api[o])))

(* When users stop, the controllers come to rest, unless an object cannot be
   built, which is retried for ever.  A status update must not bring its own
   object back each time (GenerationChangedPredicate). *)
EventuallyQuiet ==
  <>[](\/ \A o \in Objects : Settled(o)
       \/ \E o \in Objects : api[o] # NoSpec /\ ~Misnamed(o) /\ ~Buildable(o))
=============================================================================
