--------------------- MODULE ResourceControllers_proofs ---------------------
(***************************************************************************)
(* Proofs about ResourceControllers for any objects, specifications and    *)
(* bounds: what the maps hold once an object has settled, what a provider  *)
(* that cannot be built leaves, and what a request may find meanwhile.     *)
(***************************************************************************)
EXTENDS ResourceControllers, SequenceTheorems, TLAPS

MapNames == {"certs", "keys", "certErrs", "keyErrs", "certStores", "storeErrs",
             "verifiers", "stores", "policies"}
AllSpecs == Specs \cup {NoSpec}
Values == {Absent, Failure} \cup {Entry(n, s) : n \in Names, s \in Specs}
Operations == [map : MapNames, at : Resources, value : Values]
Builds == [stage : {"build"}, obj : Objects, spec : AllSpecs, fresh : BOOLEAN]
Plans == [stage : {"apply"}, obj : Objects, spec : AllSpecs, fresh : BOOLEAN,
          ops : Seq(Operations), status : {"none", "ok", "failed"}, error : BOOLEAN]
LookupSet == {Refused} \cup [first : MapNames, second : MapNames, at : Resources]
RequestSet == [stage : {"first", "second", "error", "found", "notfound"}, ns : Scopes,
               lookup : LookupSet, found : SUBSET Resources, known : BOOLEAN]

(* A worker works on objects of its own scope. *)
TypeInv ==
  /\ focus \in Kinds
  /\ api \in [Objects -> AllSpecs]
  /\ seen \in [Objects -> AllSpecs]
  /\ queue \in SUBSET Objects
  /\ work \in [Controllers -> {Idle} \cup Builds \cup Plans]
  /\ \A c \in Controllers : work[c] # Idle => ControllerOf(work[c].obj) = c
  /\ maps \in [MapNames -> [Resources -> Values]]

-----------------------------------------------------------------------------
(* What is left to do of a plan. *)

(* Once ops are done, map m of mp holds v at o. *)
Leaves(mp, ops, m, o, v) ==
  \/ \E i \in DOMAIN ops : ops[i].map = m /\ ops[i].value = v
  \/ mp[m][o] = v /\ \A i \in DOMAIN ops : ops[i].map # m

(* Only a policy of the right name is kept. *)
Fits(m, v) == m = "policies" => v = Absent \/ v.name = RatifyPolicy

(* Every operation is on the plan's own object, each on a map of its own. *)
Tidy(ops, o) ==
  /\ \A i \in DOMAIN ops : ops[i].at = o /\ Fits(ops[i].map, ops[i].value)
  /\ \A i, j \in DOMAIN ops : ops[i].map = ops[j].map => i = j

Guarded == {"certs", "keys", "certStores"}
ErrorMapOf(m) == CASE m = "certs" -> "certErrs" [] m = "keys" -> "keyErrs"
                   [] OTHER -> "storeErrs"

(* No value goes away, and no error before its value is there. *)
Careful(mp, ops, o) ==
  \A m \in Guarded : \A i \in DOMAIN ops :
    /\ ops[i].map = m => ops[i].value # Absent
    /\ (ops[i].map = ErrorMapOf(m) /\ ops[i].value = Absent) =>
         \/ mp[m][o] # Absent
         \/ \E j \in DOMAIN ops : j < i /\ ops[j].map = m

Wanted(o, spec) == IF spec = NoSpec THEN Absent ELSE Entry(o.name, spec)
Broken(spec) == spec # NoSpec /\ ~SpecToKeyManagementProvider(spec)
Ignored(kind, o) == kind = "policy" /\ o.name # RatifyPolicy
Skipped(w) == w.error /\ w.status = "none"        \* the reconcile did nothing

(* What is left of the reconcile of o with specification spec does what it should. *)
Sound(kind, mp, o, spec, out) ==
  /\ Tidy(out.ops, o)
  /\ (~out.error /\ ~Ignored(kind, o)) =>
       /\ \A m \in ValueMaps(kind) : Leaves(mp, out.ops, m, o, Wanted(o, spec))
       /\ \A m \in ErrorMaps(kind) : Leaves(mp, out.ops, m, o, Absent)
  /\ Skipped(out) => out.ops = <<>>
  /\ (kind = "kmp" /\ Broken(spec) /\ ~Skipped(out)) =>
       \A m \in ErrorMaps("kmp") : Leaves(mp, out.ops, m, o, Failure)
  /\ spec # NoSpec => Careful(mp, out.ops, o)

Holds(kind, mp, o, v) ==
  /\ \A m \in ValueMaps(kind) : mp[m][o] = v
  /\ \A m \in ErrorMaps(kind) : mp[m][o] = Absent

PlanInv == \A c \in Controllers :
  Working(c, "apply") => Sound(focus, maps, work[c].obj, work[c].spec, work[c])
PolicyInv == \A r \in Resources : Fits("policies", maps["policies"][r])

(* An object is queued, or its worker has its latest specification, or the
   maps have what it asks for. *)
ConvergeInv ==
  \A o \in Objects \ queue :
    /\ WorksOn(o) => work[ControllerOf(o)].spec = api[o]
    /\ (~WorksOn(o) /\ ~Ignored(focus, o)) => Holds(focus, maps, o, Wanted(o, api[o]))

(* Requests are refused the secrets of a provider that cannot be built, from the
   end of its reconcile to the next one that does something. *)
BrokenInv ==
  focus = "kmp" => \A o \in Objects :
    (/\ Broken(seen[o])
     /\ WorksOn(o) => work[ControllerOf(o)].stage = "build" \/ Skipped(work[ControllerOf(o)]))
    => \A m \in ErrorMaps("kmp") : maps[m][o] = Failure

MapsInv == TypeInv /\ PlanInv /\ PolicyInv /\ ConvergeInv /\ BrokenInv
-----------------------------------------------------------------------------
(* What a request is allowed to look up and, when nobody removes anything, what
   it will find. *)
MayRead(ns, r) ==
  \/ r.ns \in {ns, EmptyNamespace}
  \/ focus = "certstore" /\ ns = EmptyNamespace

LookupInv ==
  request # Idle /\ request.stage \in {"first", "second"} =>
    /\ request.found = {}
    /\ focus \in ByError =>
         /\ request.lookup \in [first : MapNames, second : MapNames, at : Resources]
         /\ request.lookup.second \in Guarded
         /\ request.lookup.first = ErrorMapOf(request.lookup.second)
         /\ MayRead(request.ns, request.lookup.at)

KnownInv ==
  (request # Idle /\ request.known /\ focus \in ByError) =>
    LET l == request.lookup
    IN /\ ~Removing
       /\ request.stage = "first" => maps[l.first][l.at] # Absent \/ maps[l.second][l.at] # Absent
       /\ request.stage = "second" => maps[l.second][l.at] # Absent
       /\ request.stage # "notfound"

NotFoundInv == request # Idle /\ focus \notin ByError => request.stage # "notfound"

RequestInv == request \in {Idle} \cup RequestSet /\ LookupInv /\ KnownInv /\ NotFoundInv /\ Isolated
-----------------------------------------------------------------------------
(* Objects are resources, and the two controllers share none. *)
LEMMA ObjectFacts ==
  \A o \in Objects :
    /\ o \in Resources /\ o.ns \in Scopes /\ o.name \in Names
    /\ o = [ns |-> o.ns, name |-> o.name]
    /\ ControllerOf(o) \in Controllers
<1>1. Objects \subseteq Resources
  BY ObjectsAssumption DEF Objects
<1> QED BY <1>1 DEF Resources, ControllerOf, Controllers

(* What marks an idle worker, an idle request or an empty place is nothing else. *)
LEMMA MarkFacts ==
  /\ Idle \notin Builds /\ Idle \notin Plans /\ Idle \notin RequestSet
  /\ \A n, s : Entry(n, s) # Absent /\ Entry(n, s).name = n
  /\ Failure # Absent /\ Absent \in Values /\ Failure \in Values
<1>1. \A w \in Builds \cup Plans : w.stage # "idle"
  BY DEF Builds, Plans
<1>2. \A q \in RequestSet : q.stage # "idle"
  BY DEF RequestSet
<1>3. \A n, s : "spec" \in DOMAIN Entry(n, s) /\ "spec" \notin DOMAIN Absent
  BY DEF Entry, Absent
<1> QED BY <1>1, <1>2, <1>3 DEF Idle, Entry, Absent, Failure, Values

(* An operation on a map. *)
LEMMA OperationFacts ==
  \A m \in MapNames, r \in Resources, v \in Values :
    /\ Put(m, r, v) \in Operations
    /\ Put(m, r, v).map = m /\ Put(m, r, v).at = r /\ Put(m, r, v).value = v
BY DEF Put, Operations

(* A plan of no operation. *)
LEMMA NoOps ==
  ASSUME NEW mp, NEW o
  PROVE  <<>> \in Seq(Operations) /\ Tidy(<<>>, o) /\ Careful(mp, <<>>, o)
BY DEF Tidy, Careful

(* A plan of one operation. *)
LEMMA OneOp ==
  ASSUME NEW mp, NEW o, NEW a \in Operations, a.at = o, Fits(a.map, a.value)
  PROVE  /\ <<a>> \in Seq(Operations) /\ Tidy(<<a>>, o)
         /\ Leaves(mp, <<a>>, a.map, o, a.value)
         /\ a.map \notin {"certs", "keys", "certStores", "certErrs", "keyErrs", "storeErrs"} =>
              Careful(mp, <<a>>, o)
<1> DEFINE ops == <<a>>
<1>1. ops \in Seq(Operations) /\ DOMAIN ops = {1} /\ ops[1] = a
  OBVIOUS
<1> HIDE DEF ops
<1>2. Tidy(ops, o) /\ Leaves(mp, ops, a.map, o, a.value)
  BY <1>1 DEF Tidy, Leaves
<1>3. a.map \notin {"certs", "keys", "certStores", "certErrs", "keyErrs", "storeErrs"} =>
        Careful(mp, ops, o)
  BY <1>1 DEF Careful, Guarded, ErrorMapOf
<1> QED BY <1>1, <1>2, <1>3 DEF ops

(* A plan of two operations on different maps. *)
LEMMA TwoOps ==
  ASSUME NEW mp, NEW o, NEW a \in Operations, NEW b \in Operations, a.map # b.map,
         \A x \in {a, b} : x.at = o /\ Fits(x.map, x.value)
  PROVE  /\ <<a, b>> \in Seq(Operations) /\ Tidy(<<a, b>>, o)
         /\ \A x \in {a, b} : Leaves(mp, <<a, b>>, x.map, o, x.value)
         /\ (/\ \A m \in Guarded : (a.map = m => a.value # Absent) /\ (b.map = m => b.value # Absent)
             /\ \A m \in Guarded : a.map = ErrorMapOf(m) => a.value # Absent
             /\ \A m \in Guarded : b.map = ErrorMapOf(m) => b.value # Absent \/ a.map = m)
              => Careful(mp, <<a, b>>, o)
<1> DEFINE ops == <<a, b>>
<1>1. ops \in Seq(Operations) /\ DOMAIN ops = {1, 2} /\ ops[1] = a /\ ops[2] = b
  OBVIOUS
<1> HIDE DEF ops
<1>2. Tidy(ops, o)
  BY <1>1 DEF Tidy
<1>3. \A x \in {a, b} : Leaves(mp, ops, x.map, o, x.value)
  BY <1>1 DEF Leaves
<1>4. ASSUME \A m \in Guarded : (a.map = m => a.value # Absent) /\ (b.map = m => b.value # Absent),
             \A m \in Guarded : a.map = ErrorMapOf(m) => a.value # Absent,
             \A m \in Guarded : b.map = ErrorMapOf(m) => b.value # Absent \/ a.map = m
      PROVE  Careful(mp, ops, o)
  BY <1>1, <1>4 DEF Careful
<1> QED BY <1>1, <1>2, <1>3, <1>4 DEF ops

(* A plan of four operations on different maps. *)
LEMMA FourOps ==
  ASSUME NEW mp, NEW o,
         NEW a \in Operations, NEW b \in Operations, NEW c \in Operations, NEW d \in Operations,
         a.map # b.map, a.map # c.map, a.map # d.map, b.map # c.map, b.map # d.map, c.map # d.map,
         \A x \in {a, b, c, d} : x.at = o /\ Fits(x.map, x.value)
  PROVE  /\ <<a, b, c, d>> \in Seq(Operations) /\ Tidy(<<a, b, c, d>>, o)
         /\ \A x \in {a, b, c, d} : Leaves(mp, <<a, b, c, d>>, x.map, o, x.value)
<1> DEFINE ops == <<a, b, c, d>>
<1>1. /\ ops \in Seq(Operations) /\ DOMAIN ops = {1, 2, 3, 4}
      /\ ops[1] = a /\ ops[2] = b /\ ops[3] = c /\ ops[4] = d
  OBVIOUS
<1> HIDE DEF ops
<1>2. Tidy(ops, o)
  BY <1>1 DEF Tidy
<1>3. \A x \in {a, b, c, d} : Leaves(mp, ops, x.map, o, x.value)
  BY <1>1 DEF Leaves
<1> QED BY <1>1, <1>2, <1>3 DEF ops

(* Two plans one after the other. *)
LEMMA Joined ==
  /\ \A a, b \in Operations : <<a>> \o <<b>> = <<a, b>>
  /\ \A a, b, c, d \in Operations : <<a, b>> \o <<c, d>> = <<a, b, c, d>>
<1>1. ASSUME NEW a \in Operations, NEW b \in Operations PROVE <<a>> \o <<b>> = <<a, b>>
  <2> DEFINE s == <<a>> \o <<b>>
             t == <<a, b>>
  <2>1. s \in Seq(Operations) /\ Len(s) = 2 /\ s[1] = a /\ s[2] = b
    OBVIOUS
  <2>2. t \in Seq(Operations) /\ Len(t) = 2 /\ t[1] = a /\ t[2] = b
    OBVIOUS
  <2> HIDE DEF s, t
  <2>3. \A i \in 1..2 : s[i] = t[i]
    BY <2>1, <2>2
  <2>4. s = t
    BY <2>1, <2>2, <2>3, SeqEqual
  <2> QED BY <2>4 DEF s, t
<1>2. ASSUME NEW a \in Operations, NEW b \in Operations, NEW c \in Operations, NEW d \in Operations
      PROVE  <<a, b>> \o <<c, d>> = <<a, b, c, d>>
  <2> DEFINE s == <<a, b>> \o <<c, d>>
             t == <<a, b, c, d>>
  <2>1. s \in Seq(Operations) /\ Len(s) = 4 /\ s[1] = a /\ s[2] = b /\ s[3] = c /\ s[4] = d
    OBVIOUS
  <2>2. t \in Seq(Operations) /\ Len(t) = 4 /\ t[1] = a /\ t[2] = b /\ t[3] = c /\ t[4] = d
    OBVIOUS
  <2> HIDE DEF s, t
  <2>3. \A i \in 1..4 : s[i] = t[i]
    BY <2>1, <2>2
  <2>4. s = t
    BY <2>1, <2>2, <2>3, SeqEqual
  <2> QED BY <2>4 DEF s, t
<1> QED BY <1>1, <1>2

(* The plan of a provider that was fetched (SaveSecrets): each value before its
   error goes. *)
LEMMA SavePlan ==
  ASSUME NEW mp, NEW o \in Resources, NEW v \in Values, v # Absent
  PROVE  /\ SaveSecrets(o, v) \in Seq(Operations) /\ Tidy(SaveSecrets(o, v), o)
         /\ \A m \in {"certs", "keys"} : Leaves(mp, SaveSecrets(o, v), m, o, v)
         /\ \A m \in {"certErrs", "keyErrs"} : Leaves(mp, SaveSecrets(o, v), m, o, Absent)
         /\ Careful(mp, SaveSecrets(o, v), o)
<1> DEFINE a == Put("keys", o, v)
           b == Del("keyErrs", o)
           c == Put("certs", o, v)
           d == Del("certErrs", o)
           ops == SaveSecrets(o, v)
<1>1. ops = <<a, b, c, d>>
  BY Joined, OperationFacts, MarkFacts
     DEF SaveSecrets, setKeysInMap, setCertificatesInMap, Del, MapNames
<1>2. /\ a \in Operations /\ a.map = "keys" /\ a.at = o /\ a.value = v
      /\ b \in Operations /\ b.map = "keyErrs" /\ b.at = o /\ b.value = Absent
      /\ c \in Operations /\ c.map = "certs" /\ c.at = o /\ c.value = v
      /\ d \in Operations /\ d.map = "certErrs" /\ d.at = o /\ d.value = Absent
  BY OperationFacts, MarkFacts DEF MapNames, Del
<1>3. /\ DOMAIN ops = {1, 2, 3, 4}
      /\ ops[1] = a /\ ops[2] = b /\ ops[3] = c /\ ops[4] = d
  BY <1>1
<1> HIDE DEF a, b, c, d, ops
<1>4. Careful(mp, ops, o)
  BY <1>2, <1>3 DEF Careful, Guarded, ErrorMapOf
<1>5. \A x \in {a, b, c, d} : x.at = o /\ Fits(x.map, x.value)
  BY <1>2 DEF Fits
<1>6. /\ ops \in Seq(Operations) /\ Tidy(ops, o)
      /\ \A x \in {a, b, c, d} : Leaves(mp, ops, x.map, o, x.value)
  BY <1>1, <1>2, <1>5, FourOps
<1> QED BY <1>2, <1>4, <1>6 DEF ops

(* The plan of a provider that is gone (DeleteResourceFromMap). *)
LEMMA DeletePlan ==
  ASSUME NEW mp, NEW o \in Resources
  PROVE  /\ DeleteResourceFromMap(o) \in Seq(Operations) /\ Tidy(DeleteResourceFromMap(o), o)
         /\ \A m \in {"certs", "keys", "certErrs", "keyErrs"} :
              Leaves(mp, DeleteResourceFromMap(o), m, o, Absent)
<1> DEFINE a == Del("certs", o)
           b == Del("keys", o)
           c == Del("certErrs", o)
           d == Del("keyErrs", o)
           ops == DeleteResourceFromMap(o)
<1>1. ops = <<a, b, c, d>>
  BY DEF DeleteResourceFromMap
<1>2. /\ a \in Operations /\ a.map = "certs" /\ a.at = o /\ a.value = Absent
      /\ b \in Operations /\ b.map = "keys" /\ b.at = o /\ b.value = Absent
      /\ c \in Operations /\ c.map = "certErrs" /\ c.at = o /\ c.value = Absent
      /\ d \in Operations /\ d.map = "keyErrs" /\ d.at = o /\ d.value = Absent
  BY OperationFacts, MarkFacts DEF MapNames, Del
<1> HIDE DEF a, b, c, d, ops
<1>3. \A x \in {a, b, c, d} : x.at = o /\ Fits(x.map, x.value)
  BY <1>2 DEF Fits
<1>4. /\ ops \in Seq(Operations) /\ Tidy(ops, o)
      /\ \A x \in {a, b, c, d} : Leaves(mp, ops, x.map, o, x.value)
  BY <1>1, <1>2, <1>3, FourOps
<1> QED BY <1>2, <1>4 DEF ops

(* The plan of a provider that cannot be built (SetCertificateError, SetKeyError). *)
LEMMA ErrorsPlan ==
  ASSUME NEW mp, NEW o \in Resources
  PROVE  /\ Errors(o) \in Seq(Operations) /\ Tidy(Errors(o), o)
         /\ \A m \in {"certErrs", "keyErrs"} : Leaves(mp, Errors(o), m, o, Failure)
         /\ Careful(mp, Errors(o), o)
<1> DEFINE a == Put("certErrs", o, Failure)
           b == Put("keyErrs", o, Failure)
           ops == Errors(o)
<1>1. ops = <<a, b>>
  BY Joined, OperationFacts, MarkFacts DEF Errors, SetCertificateError, SetKeyError, MapNames
<1>2. /\ a \in Operations /\ a.map = "certErrs" /\ a.at = o /\ a.value = Failure
      /\ b \in Operations /\ b.map = "keyErrs" /\ b.at = o /\ b.value = Failure
  BY OperationFacts, MarkFacts DEF MapNames
<1> HIDE DEF a, b, ops
<1>3. \A x \in {a, b} : x.at = o /\ Fits(x.map, x.value)
  BY <1>2 DEF Fits
<1>4. /\ ops \in Seq(Operations) /\ Tidy(ops, o)
      /\ \A x \in {a, b} : Leaves(mp, ops, x.map, o, x.value)
  BY <1>1, <1>2, <1>3, TwoOps
<1>5. Careful(mp, ops, o)
  BY <1>1, <1>2, <1>3, TwoOps, MarkFacts DEF Guarded
<1> QED BY <1>2, <1>4, <1>5 DEF ops

(* The plans of a certificate store (customresources/certificatestores). *)
LEMMA StorePlans ==
  ASSUME NEW mp, NEW o \in Resources, NEW v \in Values
  PROVE  /\ CertStoreAdd(o, v) \in Seq(Operations) /\ Tidy(CertStoreAdd(o, v), o)
         /\ Leaves(mp, CertStoreAdd(o, v), "certStores", o, v)
         /\ Leaves(mp, CertStoreAdd(o, v), "storeErrs", o, Absent)
         /\ v # Absent => Careful(mp, CertStoreAdd(o, v), o)
<1> DEFINE a == Put("certStores", o, v)
           b == Del("storeErrs", o)
           ops == CertStoreAdd(o, v)
<1>1. ops = <<a, b>>
  BY DEF CertStoreAdd
<1>2. /\ a \in Operations /\ a.map = "certStores" /\ a.at = o /\ a.value = v
      /\ b \in Operations /\ b.map = "storeErrs" /\ b.at = o /\ b.value = Absent
  BY OperationFacts, MarkFacts DEF MapNames, Del
<1> HIDE DEF a, b, ops
<1>3. \A x \in {a, b} : x.at = o /\ Fits(x.map, x.value)
  BY <1>2 DEF Fits
<1>4. /\ ops \in Seq(Operations) /\ Tidy(ops, o)
      /\ \A x \in {a, b} : Leaves(mp, ops, x.map, o, x.value)
  BY <1>1, <1>2, <1>3, TwoOps
<1>5. v # Absent => Careful(mp, ops, o)
  BY <1>1, <1>2, <1>3, TwoOps DEF Guarded, ErrorMapOf
<1> QED BY <1>2, <1>4, <1>5 DEF ops

(* The plan of a certificate store that is gone. *)
LEMMA StoreDeletePlan ==
  ASSUME NEW mp, NEW o \in Resources
  PROVE  /\ CertStoreDelete(o) \in Seq(Operations) /\ Tidy(CertStoreDelete(o), o)
         /\ \A m \in {"certStores", "storeErrs"} : Leaves(mp, CertStoreDelete(o), m, o, Absent)
<1>1. CertStoreDelete(o) = CertStoreAdd(o, Absent)
  BY DEF CertStoreDelete, CertStoreAdd, Del
<1> QED BY <1>1, StorePlans, MarkFacts

(* A plan of one operation, on a map of verifiers, stores or policies. *)
LEMMA SinglePlan ==
  ASSUME NEW mp, NEW o \in Resources, NEW m \in {"verifiers", "stores", "policies"},
         NEW v \in Values, Fits(m, v)
  PROVE  /\ <<Put(m, o, v)>> \in Seq(Operations) /\ Tidy(<<Put(m, o, v)>>, o)
         /\ Leaves(mp, <<Put(m, o, v)>>, m, o, v) /\ Careful(mp, <<Put(m, o, v)>>, o)
<1> DEFINE a == Put(m, o, v)
<1>1. a \in Operations /\ a.map = m /\ a.at = o /\ a.value = v
  BY OperationFacts DEF MapNames
<1> HIDE DEF a
<1>2. /\ <<a>> \in Seq(Operations) /\ Tidy(<<a>>, o) /\ Leaves(mp, <<a>>, m, o, v)
      /\ Careful(mp, <<a>>, o)
  BY <1>1, OneOp
<1> QED BY <1>2 DEF a

(* The fields of an outcome. *)
LEMMA OutcomeFacts ==
  /\ \A ops, stat, error :
       /\ Outcome(ops, stat, error).ops = ops /\ Outcome(ops, stat, error).status = stat
       /\ Outcome(ops, stat, error).error = error
  /\ \A ops : /\ Removed(ops).ops = ops /\ Removed(ops).status = "none" /\ Removed(ops).error = FALSE
              /\ Done(ops).ops = ops /\ Done(ops).status = "ok" /\ Done(ops).error = FALSE
              /\ Failed(ops).ops = ops /\ Failed(ops).status = "failed" /\ Failed(ops).error = TRUE
  /\ NotListed.ops = <<>> /\ NotListed.status = "none" /\ NotListed.error = TRUE
BY DEF Outcome, Removed, Done, Failed, NotListed

WellFormed(out) ==
  /\ out.ops \in Seq(Operations) /\ out.status \in {"none", "ok", "failed"}
  /\ out.error \in BOOLEAN

(* What a specification asks for is a value of the maps. *)
LEMMA WantedFacts ==
  ASSUME NEW o \in Objects, NEW spec \in AllSpecs, spec # NoSpec
  PROVE  /\ Wanted(o, spec) = Entry(o.name, spec)
         /\ Entry(o.name, spec) \in Values /\ Entry(o.name, spec) # Absent
         /\ Entry(RatifyPolicy, spec) \in Values /\ Fits("policies", Entry(RatifyPolicy, spec))
<1>1. spec \in Specs
  BY DEF AllSpecs
<1>2. o.name \in Names /\ RatifyPolicy \in Names
  BY ObjectFacts, ObjectsAssumption
<1> QED BY <1>1, <1>2, MarkFacts DEF Wanted, Values, Fits

(* The object is gone, and its entries will be. *)
LEMMA RemovedSound ==
  ASSUME NEW o, NEW ops \in Seq(Operations), Tidy(ops, o),
         ~Ignored(focus, o) => \A m \in ValueMaps(focus) \cup ErrorMaps(focus) : Leaves(maps, ops, m, o, Absent)
  PROVE  WellFormed(Removed(ops)) /\ Sound(focus, maps, o, NoSpec, Removed(ops))
<1> DEFINE out == Removed(ops)
<1>1. out.ops = ops /\ out.status = "none" /\ out.error = FALSE
  BY OutcomeFacts
<1> HIDE DEF out
<1>2. WellFormed(out) /\ ~Skipped(out)
  BY <1>1 DEF WellFormed, Skipped
<1>3. ~Broken(NoSpec) /\ Wanted(o, NoSpec) = Absent
  BY DEF Broken, Wanted
<1>4. Sound(focus, maps, o, NoSpec, out)
  BY <1>1, <1>2, <1>3 DEF Sound
<1> QED BY <1>2, <1>4 DEF out

(* The object is there, and its entries will be. *)
LEMMA DoneSound ==
  ASSUME NEW o, NEW spec, focus = "kmp" => ~Broken(spec),
         NEW ops \in Seq(Operations), Tidy(ops, o), Careful(maps, ops, o),
         \A m \in ValueMaps(focus) : Leaves(maps, ops, m, o, Wanted(o, spec)),
         \A m \in ErrorMaps(focus) : Leaves(maps, ops, m, o, Absent)
  PROVE  WellFormed(Done(ops)) /\ Sound(focus, maps, o, spec, Done(ops))
<1> DEFINE out == Done(ops)
<1>1. out.ops = ops /\ out.status = "ok" /\ out.error = FALSE
  BY OutcomeFacts
<1> HIDE DEF out
<1>2. WellFormed(out) /\ ~Skipped(out)
  BY <1>1 DEF WellFormed, Skipped
<1>3. Sound(focus, maps, o, spec, out)
  BY <1>1, <1>2 DEF Sound
<1> QED BY <1>2, <1>3 DEF out

(* The reconcile fails; a broken provider gets its errors. *)
LEMMA FailedSound ==
  ASSUME NEW o, NEW spec, NEW ops \in Seq(Operations), Tidy(ops, o), Careful(maps, ops, o),
         (focus = "kmp" /\ Broken(spec)) =>
           \A m \in ErrorMaps("kmp") : Leaves(maps, ops, m, o, Failure)
  PROVE  WellFormed(Failed(ops)) /\ Sound(focus, maps, o, spec, Failed(ops))
<1> DEFINE out == Failed(ops)
<1>1. out.ops = ops /\ out.status = "failed" /\ out.error = TRUE
  BY OutcomeFacts
<1> HIDE DEF out
<1>2. WellFormed(out) /\ ~Skipped(out)
  BY <1>1 DEF WellFormed, Skipped
<1>3. Sound(focus, maps, o, spec, out)
  BY <1>1, <1>2 DEF Sound
<1> QED BY <1>2, <1>3 DEF out

(* A failure that leaves the maps alone, of what is not a broken provider. *)
LEMMA NothingSound ==
  ASSUME NEW o, NEW spec, focus = "kmp" => ~Broken(spec)
  PROVE  WellFormed(Failed(<<>>)) /\ Sound(focus, maps, o, spec, Failed(<<>>))
BY NoOps, FailedSound

(* Every reconcile of a provider plans what it should (clusterresource and
   namespaceresource, keymanagementprovider_controller.go). *)
LEMMA ProviderSound ==
  ASSUME focus = "kmp", NEW o \in Objects, NEW spec \in AllSpecs, NEW fault
  PROVE  WellFormed(Reconcile(o, spec, fault)) /\ Sound(focus, maps, o, spec, Reconcile(o, spec, fault))
<1> DEFINE out == Reconcile(o, spec, fault)
           P == WellFormed(out) /\ Sound(focus, maps, o, spec, out)
<1> SUFFICES P
  OBVIOUS
<1>1. o \in Resources
  BY ObjectFacts
<1>2. ValueMaps(focus) = {"certs", "keys"} /\ ErrorMaps(focus) = {"certErrs", "keyErrs"}
  BY DEF ValueMaps, ErrorMaps
<1>3. \/ spec = NoSpec /\ out = Removed(DeleteResourceFromMap(o))
      \/ spec # NoSpec /\ out = NotListed
      \/ spec # NoSpec /\ out = Failed(Errors(o))
      \/ spec # NoSpec /\ ~Broken(spec) /\ out = Failed(<<>>)
      \/ spec # NoSpec /\ ~Broken(spec) /\ out = Done(SaveSecrets(o, Entry(o.name, spec)))
  BY DEF Reconcile, ClusterKMPReconcile, NamespacedKMPReconcile, Broken
<1> HIDE DEF out
<1>4. CASE spec = NoSpec /\ out = Removed(DeleteResourceFromMap(o))
  BY <1>1, <1>2, <1>4, DeletePlan, RemovedSound
<1>5. CASE spec # NoSpec /\ out = NotListed
  <2>1. out.ops = <<>> /\ out.status = "none" /\ out.error = TRUE
    BY <1>5, OutcomeFacts
  <2>2. WellFormed(out)
    BY <2>1, NoOps DEF WellFormed
  <2>3. Tidy(out.ops, o) /\ Careful(maps, out.ops, o) /\ Skipped(out)
    BY <2>1, NoOps DEF Skipped
  <2>4. Sound(focus, maps, o, spec, out)
    BY <2>1, <2>3 DEF Sound
  <2> QED BY <2>2, <2>4
<1>6. CASE spec # NoSpec /\ out = Failed(Errors(o))
  BY <1>1, <1>2, <1>6, ErrorsPlan, FailedSound
<1>7. CASE spec # NoSpec /\ ~Broken(spec) /\ out = Failed(<<>>)
  BY <1>7, NothingSound
<1>8. CASE spec # NoSpec /\ ~Broken(spec) /\ out = Done(SaveSecrets(o, Entry(o.name, spec)))
  <2> DEFINE v == Entry(o.name, spec)
  <2>1. Wanted(o, spec) = v /\ v \in Values /\ v # Absent
    BY <1>8, WantedFacts
  <2> HIDE DEF v
  <2>2. out = Done(SaveSecrets(o, v))
    BY <1>8 DEF v
  <2> QED BY <1>1, <1>2, <1>8, <2>1, <2>2, SavePlan, DoneSound
<1> QED BY <1>3, <1>4, <1>5, <1>6, <1>7, <1>8

(* Every reconcile of a certificate store (certificatestore_controller.go). *)
LEMMA CertStoreSound ==
  ASSUME focus = "certstore", NEW o \in Objects, NEW spec \in AllSpecs, NEW fault
  PROVE  WellFormed(Reconcile(o, spec, fault)) /\ Sound(focus, maps, o, spec, Reconcile(o, spec, fault))
<1> DEFINE out == Reconcile(o, spec, fault)
           P == WellFormed(out) /\ Sound(focus, maps, o, spec, out)
<1> SUFFICES P
  OBVIOUS
<1>1. o \in Resources
  BY ObjectFacts
<1>2. ValueMaps(focus) = {"certStores"} /\ ErrorMaps(focus) = {"storeErrs"}
  BY DEF ValueMaps, ErrorMaps
<1>3. \/ spec = NoSpec /\ out = Removed(CertStoreDelete(o))
      \/ spec # NoSpec /\ out = Failed(<<>>)
      \/ spec # NoSpec /\ out = Done(CertStoreAdd(o, Entry(o.name, spec)))
  BY DEF Reconcile, CertStoreReconcile
<1> HIDE DEF out
<1>4. CASE spec = NoSpec /\ out = Removed(CertStoreDelete(o))
  BY <1>1, <1>2, <1>4, StoreDeletePlan, RemovedSound
<1>5. CASE spec # NoSpec /\ out = Failed(<<>>)
  BY <1>5, NothingSound
<1>6. CASE spec # NoSpec /\ out = Done(CertStoreAdd(o, Entry(o.name, spec)))
  <2> DEFINE v == Entry(o.name, spec)
  <2>1. Wanted(o, spec) = v /\ v \in Values /\ v # Absent
    BY <1>6, WantedFacts
  <2> HIDE DEF v
  <2>2. out = Done(CertStoreAdd(o, v))
    BY <1>6 DEF v
  <2> QED BY <1>1, <1>2, <1>6, <2>1, <2>2, StorePlans, DoneSound
<1> QED BY <1>3, <1>4, <1>5, <1>6

(* Every reconcile of a verifier or a store (verifier_controller.go,
   store_controller.go). *)
LEMMA PluginSound ==
  ASSUME focus \in {"verifier", "store"}, NEW o \in Objects, NEW spec \in AllSpecs, NEW fault
  PROVE  WellFormed(Reconcile(o, spec, fault)) /\ Sound(focus, maps, o, spec, Reconcile(o, spec, fault))
<1> DEFINE out == Reconcile(o, spec, fault)
           P == WellFormed(out) /\ Sound(focus, maps, o, spec, out)
           m == IF focus = "verifier" THEN "verifiers" ELSE "stores"
           scope == IF IsNamespacedNamed(o) THEN o.ns ELSE EmptyNamespace
<1> SUFFICES P
  OBVIOUS
<1>1. o \in Resources /\ o = [ns |-> scope, name |-> o.name]
  BY ObjectFacts DEF IsNamespacedNamed
<1>2. ValueMaps(focus) = {m} /\ ErrorMaps(focus) = {} /\ m # "policies" /\ m \in {"verifiers", "stores", "policies"}
  BY DEF ValueMaps, ErrorMaps
<1>3. \/ spec = NoSpec /\ out = Removed(<<Del(m, [ns |-> scope, name |-> o.name])>>)
      \/ spec # NoSpec /\ out = Failed(<<>>)
      \/ /\ spec # NoSpec
         /\ out = Done(<<Put(m, [ns |-> scope, name |-> o.name], Entry(o.name, spec))>>)
  BY DEF Reconcile, ClusterVerifierReconcile, NamespacedVerifierReconcile, UpsertVerifier,
         ClusterStoreReconcile, NamespacedStoreReconcile, UpsertStoreMap,
         AddVerifier, DeleteVerifier, AddStore, DeleteStore
<1> HIDE DEF out, m, scope
<1>4. \/ spec = NoSpec /\ out = Removed(<<Put(m, o, Absent)>>)
      \/ spec # NoSpec /\ out = Failed(<<>>)
      \/ spec # NoSpec /\ out = Done(<<Put(m, o, Entry(o.name, spec))>>)
  BY <1>1, <1>3 DEF Del
<1>5. CASE spec = NoSpec /\ out = Removed(<<Put(m, o, Absent)>>)
  <2>1. Absent \in Values /\ Fits(m, Absent)
    BY MarkFacts DEF Fits
  <2> DEFINE ops == <<Put(m, o, Absent)>>
  <2>2. ops \in Seq(Operations) /\ Tidy(ops, o) /\ Leaves(maps, ops, m, o, Absent)
    BY <1>1, <1>2, <2>1, SinglePlan
  <2> HIDE DEF ops
  <2>3. WellFormed(Removed(ops)) /\ Sound(focus, maps, o, NoSpec, Removed(ops))
    BY <1>2, <2>2, RemovedSound
  <2> QED BY <1>5, <2>3 DEF ops
<1>6. CASE spec # NoSpec /\ out = Failed(<<>>)
  BY <1>6, NothingSound
<1>7. CASE spec # NoSpec /\ out = Done(<<Put(m, o, Entry(o.name, spec))>>)
  <2> DEFINE v == Entry(o.name, spec)
  <2>1. Wanted(o, spec) = v /\ v \in Values /\ Fits(m, v)
    BY <1>2, <1>7, WantedFacts DEF Fits
  <2> HIDE DEF v
  <2>2. out = Done(<<Put(m, o, v)>>)
    BY <1>7 DEF v
  <2> DEFINE ops == <<Put(m, o, v)>>
  <2>3. /\ ops \in Seq(Operations) /\ Tidy(ops, o) /\ Leaves(maps, ops, m, o, v)
        /\ Careful(maps, ops, o)
    BY <1>1, <1>2, <2>1, SinglePlan
  <2> HIDE DEF ops
  <2>4. WellFormed(Done(ops)) /\ Sound(focus, maps, o, spec, Done(ops))
    BY <1>2, <2>1, <2>3, DoneSound
  <2> QED BY <2>2, <2>4 DEF ops
<1> QED BY <1>4, <1>5, <1>6, <1>7

(* Every reconcile of a policy (policy_controller.go): one of another name plans
   nothing, neither when it is there nor when it is gone. *)
LEMMA PolicySound ==
  ASSUME TypeInv, PolicyInv, focus = "policy", NEW o \in Objects, NEW spec \in AllSpecs, NEW fault
  PROVE  WellFormed(Reconcile(o, spec, fault)) /\ Sound(focus, maps, o, spec, Reconcile(o, spec, fault))
<1> DEFINE out == Reconcile(o, spec, fault)
           P == WellFormed(out) /\ Sound(focus, maps, o, spec, out)
           scope == IF IsNamespacedNamed(o) THEN o.ns ELSE EmptyNamespace
           at == PolicyAt(scope)
<1> SUFFICES P
  OBVIOUS
<1>1. /\ o \in Resources /\ at \in Resources /\ o.name \in Names
      /\ o.name = RatifyPolicy => o = at
  BY ObjectFacts, ObjectsAssumption DEF PolicyAt, IsNamespacedNamed, Resources, Scopes
<1>2. ValueMaps(focus) = {"policies"} /\ ErrorMaps(focus) = {}
  BY DEF ValueMaps, ErrorMaps
<1>3. \/ spec = NoSpec /\ out = Removed(DeletePolicy(maps, scope, o.name))
      \/ spec # NoSpec /\ Ignored(focus, o) /\ out = Outcome(<<>>, "failed", FALSE)
      \/ spec # NoSpec /\ out = Failed(<<>>)
      \/ spec # NoSpec /\ ~Ignored(focus, o) /\ out = Done(<<Put("policies", at, Entry(RatifyPolicy, spec))>>)
  BY DEF Reconcile, ClusterPolicyReconcile, NamespacedPolicyReconcile, policyAddOrReplace,
         AddPolicy, Ignored
<1>4. maps["policies"][at] = Absent \/ maps["policies"][at].name = RatifyPolicy
  BY <1>1 DEF PolicyInv, Fits
<1>5. Absent.name # o.name
  BY <1>1, ObjectsAssumption
<1>6. DeletePolicy(maps, scope, o.name) =
        IF maps["policies"][at].name = o.name THEN <<Put("policies", at, Absent)>> ELSE <<>>
  BY DEF DeletePolicy, Del
<1> HIDE DEF out, scope, at
<1>7. CASE spec = NoSpec /\ out = Removed(<<Put("policies", at, Absent)>>) /\ o.name = RatifyPolicy
  <2>1. Absent \in Values /\ Fits("policies", Absent) /\ at = o
    BY <1>1, <1>7, MarkFacts DEF Fits
  <2> QED BY <1>1, <1>2, <1>7, <2>1, SinglePlan, RemovedSound
<1>8. CASE spec = NoSpec /\ out = Removed(<<>>) /\ (Ignored(focus, o) \/ maps["policies"][o] = Absent)
  <2>1. Ignored(focus, o) \/ Leaves(maps, <<>>, "policies", o, Absent)
    BY <1>8 DEF Leaves
  <2> QED BY <1>2, <1>8, <2>1, NoOps, RemovedSound
<1>9. CASE spec # NoSpec /\ Ignored(focus, o) /\ out = Outcome(<<>>, "failed", FALSE)
  <2>1. out.ops = <<>> /\ out.status = "failed" /\ out.error = FALSE
    BY <1>9 DEF Outcome
  <2>2. WellFormed(out) /\ Tidy(out.ops, o) /\ Careful(maps, out.ops, o) /\ ~Skipped(out)
    BY <2>1, NoOps DEF Skipped, WellFormed
  <2>3. Sound(focus, maps, o, spec, out)
    BY <1>9, <2>1, <2>2 DEF Sound
  <2> QED BY <2>2, <2>3
<1>10. CASE spec # NoSpec /\ out = Failed(<<>>)
  BY <1>10, NothingSound
<1>11. CASE spec # NoSpec /\ ~Ignored(focus, o) /\ out = Done(<<Put("policies", at, Entry(RatifyPolicy, spec))>>)
  <2> DEFINE v == Entry(RatifyPolicy, spec)
  <2>1. o.name = RatifyPolicy /\ at = o
    BY <1>1, <1>11 DEF Ignored
  <2>2. Wanted(o, spec) = v /\ v \in Values /\ Fits("policies", v)
    BY <1>11, <2>1, WantedFacts
  <2> HIDE DEF v
  <2>3. out = Done(<<Put("policies", o, v)>>)
    BY <1>11, <2>1 DEF v
  <2> QED BY <1>1, <1>2, <1>11, <2>2, <2>3, SinglePlan, DoneSound
<1>12. spec = NoSpec /\ out = Removed(DeletePolicy(maps, scope, o.name)) =>
         \/ out = Removed(<<Put("policies", at, Absent)>>) /\ o.name = RatifyPolicy
         \/ out = Removed(<<>>) /\ (Ignored(focus, o) \/ maps["policies"][o] = Absent)
  BY <1>1, <1>4, <1>5, <1>6 DEF Ignored
<1> QED BY <1>3, <1>7, <1>8, <1>9, <1>10, <1>11, <1>12

(* Every reconcile plans what it should. *)
LEMMA ReconcileSound ==
  ASSUME TypeInv, PolicyInv, NEW o \in Objects, NEW spec \in AllSpecs, NEW fault
  PROVE  WellFormed(Reconcile(o, spec, fault)) /\ Sound(focus, maps, o, spec, Reconcile(o, spec, fault))
<1>1. focus \in {"kmp", "certstore", "verifier", "store", "policy"}
  BY DEF TypeInv, Kinds
<1> QED BY <1>1, ProviderSound, CertStoreSound, PluginSound, PolicySound
-----------------------------------------------------------------------------
(* One operation changes one place of one map. *)
LEMMA AppliedFacts ==
  ASSUME NEW mp \in [MapNames -> [Resources -> Values]], NEW op \in Operations
  PROVE  /\ Applied(mp, op) \in [MapNames -> [Resources -> Values]]
         /\ \A m \in MapNames, r \in Resources :
              Applied(mp, op)[m][r] = IF m = op.map /\ r = op.at THEN op.value ELSE mp[m][r]
BY DEF Applied, Operations

(* The first operation and the ones after it. *)
LEMMA TailFacts ==
  ASSUME NEW ops \in Seq(Operations), ops # <<>>
  PROVE  /\ 1 \in DOMAIN ops /\ Head(ops) = ops[1] /\ Head(ops) \in Operations
         /\ Tail(ops) \in Seq(Operations)
         /\ \A i \in DOMAIN Tail(ops) : i \in Nat /\ i > 0 /\ i + 1 \in DOMAIN ops /\ Tail(ops)[i] = ops[i + 1]
         /\ \A i \in DOMAIN ops : i \in Nat /\ (i # 1 => i - 1 \in DOMAIN Tail(ops) /\ Tail(ops)[i - 1] = ops[i])
<1>1. /\ Head(ops) \in Operations /\ Tail(ops) \in Seq(Operations) /\ Len(Tail(ops)) = Len(ops) - 1
      /\ \A i \in 1 .. Len(Tail(ops)) : Tail(ops)[i] = ops[i + 1]
  BY HeadTailProperties
<1>2. Len(ops) \in Nat /\ Len(ops) > 0 /\ DOMAIN ops = 1 .. Len(ops)
  OBVIOUS
<1>3. DOMAIN Tail(ops) = 1 .. Len(Tail(ops))
  BY <1>1
<1>4. Head(ops) = ops[1]
  OBVIOUS
<1>5. ASSUME NEW i \in DOMAIN ops, i # 1
      PROVE  i - 1 \in DOMAIN Tail(ops) /\ Tail(ops)[i - 1] = ops[i]
  <2>1. i - 1 \in 1 .. Len(Tail(ops)) /\ (i - 1) + 1 = i
    BY <1>1, <1>2, <1>5
  <2> QED BY <1>1, <1>3, <2>1
<1> QED BY <1>1, <1>2, <1>3, <1>4, <1>5

(* Doing the first operation of a plan brings the maps nearer to what it leaves. *)
LEMMA OwnStep ==
  ASSUME NEW mp \in [MapNames -> [Resources -> Values]], NEW o \in Resources,
         NEW ops \in Seq(Operations), ops # <<>>, Tidy(ops, o)
  PROVE  /\ Tidy(Tail(ops), o)
         /\ \A m \in MapNames : \A v :
              Leaves(mp, ops, m, o, v) => Leaves(Applied(mp, Head(ops)), Tail(ops), m, o, v)
         /\ Careful(mp, ops, o) => Careful(Applied(mp, Head(ops)), Tail(ops), o)
<1> DEFINE op == Head(ops)
           mp2 == Applied(mp, op)
           tl == Tail(ops)
<1>1. /\ 1 \in DOMAIN ops /\ op = ops[1] /\ op \in Operations
      /\ \A i \in DOMAIN tl : i \in Nat /\ i > 0 /\ i + 1 \in DOMAIN ops /\ tl[i] = ops[i + 1]
      /\ \A i \in DOMAIN ops : i \in Nat /\ (i # 1 => i - 1 \in DOMAIN tl /\ tl[i - 1] = ops[i])
  BY TailFacts
<1>2. \A m \in MapNames, r \in Resources :
        mp2[m][r] = IF m = op.map /\ r = op.at THEN op.value ELSE mp[m][r]
  BY <1>1, AppliedFacts
<1>3. op.at = o /\ \A i \in DOMAIN tl : tl[i].map # op.map
  <2>1. op.at = o
    BY <1>1 DEF Tidy
  <2>2. ASSUME NEW i \in DOMAIN tl, tl[i].map = op.map PROVE FALSE
    <3>1. i + 1 \in DOMAIN ops /\ ops[i + 1].map = ops[1].map /\ i + 1 # 1
      BY <1>1, <2>2
    <3> QED BY <1>1, <3>1 DEF Tidy
  <2> QED BY <2>1, <2>2
<1> HIDE DEF op, mp2, tl
<1>4. Tidy(tl, o)
  <2>1. \A i \in DOMAIN tl : tl[i].at = o /\ Fits(tl[i].map, tl[i].value)
    BY <1>1 DEF Tidy
  <2>2. ASSUME NEW i \in DOMAIN tl, NEW j \in DOMAIN tl, tl[i].map = tl[j].map PROVE i = j
    <3>1. i + 1 = j + 1
      BY <1>1, <2>2 DEF Tidy
    <3> QED BY <1>1, <3>1
  <2> QED BY <2>1, <2>2 DEF Tidy
<1>5. ASSUME NEW m \in MapNames, NEW v, Leaves(mp, ops, m, o, v)
      PROVE  Leaves(mp2, tl, m, o, v)
  <2>1. CASE op.map = m
    <3>1. op.value = v
      BY <1>1, <1>5, <2>1 DEF Leaves, Tidy
    <3> QED BY <1>2, <1>3, <2>1, <3>1 DEF Leaves
  <2>2. CASE op.map # m
    <3>1. mp2[m][o] = mp[m][o]
      BY <1>2, <2>2
    <3>2. CASE \E i \in DOMAIN ops : ops[i].map = m /\ ops[i].value = v
      <4>1. PICK i \in DOMAIN ops : ops[i].map = m /\ ops[i].value = v
        BY <3>2
      <4>2. i # 1
        BY <1>1, <2>2, <4>1
      <4> QED BY <1>1, <4>1, <4>2 DEF Leaves
    <3>3. CASE mp[m][o] = v /\ \A i \in DOMAIN ops : ops[i].map # m
      BY <1>1, <3>1, <3>3 DEF Leaves
    <3> QED BY <1>5, <3>2, <3>3 DEF Leaves
  <2> QED BY <2>1, <2>2
<1>6. ASSUME Careful(mp, ops, o) PROVE Careful(mp2, tl, o)
  <2> SUFFICES ASSUME NEW m \in Guarded, NEW i \in DOMAIN tl
               PROVE  /\ tl[i].map = m => tl[i].value # Absent
                      /\ (tl[i].map = ErrorMapOf(m) /\ tl[i].value = Absent) =>
                           \/ mp2[m][o] # Absent
                           \/ \E j \in DOMAIN tl : j < i /\ tl[j].map = m
    BY DEF Careful
  <2>1. i \in Nat /\ i + 1 \in DOMAIN ops /\ tl[i] = ops[i + 1] /\ m \in MapNames
    BY <1>1 DEF Guarded, MapNames
  <2>2. tl[i].map = m => tl[i].value # Absent
    BY <1>6, <2>1 DEF Careful
  <2>3. ASSUME tl[i].map = ErrorMapOf(m), tl[i].value = Absent
        PROVE  mp2[m][o] # Absent \/ \E j \in DOMAIN tl : j < i /\ tl[j].map = m
    <3>1. mp[m][o] # Absent \/ \E j \in DOMAIN ops : j < i + 1 /\ ops[j].map = m
      BY <1>6, <2>1, <2>3 DEF Careful
    <3>2. op.map = m => mp2[m][o] # Absent
      BY <1>1, <1>2, <1>3, <1>6, <2>1 DEF Careful
    <3>3. op.map # m => mp2[m][o] = mp[m][o]
      BY <1>2, <2>1
    <3>4. ASSUME NEW j \in DOMAIN ops, j < i + 1, ops[j].map = m, op.map # m
          PROVE  \E k \in DOMAIN tl : k < i /\ tl[k].map = m
      <4>1. j \in Nat /\ j # 1 /\ j - 1 \in DOMAIN tl /\ tl[j - 1] = ops[j]
        BY <1>1, <3>4
      <4>2. j - 1 < i
        BY <2>1, <3>4, <4>1
      <4> QED BY <3>4, <4>1, <4>2
    <3> QED BY <3>1, <3>2, <3>3, <3>4
  <2> QED BY <2>2, <2>3
<1> QED BY <1>4, <1>5, <1>6 DEF op, mp2, tl

(* An operation on another object leaves a plan as good as it was. *)
LEMMA OtherStep ==
  ASSUME NEW mp \in [MapNames -> [Resources -> Values]], NEW o \in Resources,
         NEW ops, NEW op \in Operations, op.at # o
  PROVE  /\ \A m \in MapNames : Applied(mp, op)[m][o] = mp[m][o]
         /\ \A m \in MapNames : \A v : Leaves(mp, ops, m, o, v) => Leaves(Applied(mp, op), ops, m, o, v)
         /\ Careful(mp, ops, o) => Careful(Applied(mp, op), ops, o)
<1>1. \A m \in MapNames : Applied(mp, op)[m][o] = mp[m][o]
  BY AppliedFacts
<1>2. \A m \in Guarded : m \in MapNames
  BY DEF Guarded, MapNames
<1>3. \A m \in MapNames : \A v : Leaves(mp, ops, m, o, v) => Leaves(Applied(mp, op), ops, m, o, v)
  BY <1>1 DEF Leaves
<1>4. Careful(mp, ops, o) => Careful(Applied(mp, op), ops, o)
  BY <1>1, <1>2 DEF Careful
<1> QED BY <1>1, <1>3, <1>4

(* The maps of a kind are maps. *)
LEMMA KindMaps ==
  \A kind \in Kinds : \A m \in ValueMaps(kind) \cup ErrorMaps(kind) : m \in MapNames
BY DEF Kinds, ValueMaps, ErrorMaps, MapNames

(* A sound plan stays sound while it is carried out. *)
LEMMA SoundOwn ==
  ASSUME NEW kind \in Kinds, NEW mp \in [MapNames -> [Resources -> Values]], NEW o \in Resources,
         NEW spec, NEW w, NEW w2, w.ops \in Seq(Operations), w.ops # <<>>, Sound(kind, mp, o, spec, w),
         w2.ops = Tail(w.ops), w2.status = w.status, w2.error = w.error
  PROVE  Sound(kind, Applied(mp, Head(w.ops)), o, spec, w2)
<1> DEFINE mp2 == Applied(mp, Head(w.ops))
<1>1. Tidy(w.ops, o)
  BY DEF Sound
<1>2. /\ Tidy(w2.ops, o)
      /\ \A m \in MapNames : \A v : Leaves(mp, w.ops, m, o, v) => Leaves(mp2, w2.ops, m, o, v)
      /\ Careful(mp, w.ops, o) => Careful(mp2, w2.ops, o)
  BY <1>1, OwnStep
<1>3. ~Skipped(w)
  BY DEF Sound
<1>4. ~Skipped(w2)
  BY <1>3 DEF Skipped
<1> HIDE DEF mp2
<1>5. /\ \A m \in ValueMaps(kind) \cup ErrorMaps(kind) : m \in MapNames
      /\ \A m \in ErrorMaps("kmp") : m \in MapNames
  BY KindMaps DEF Kinds
<1>6. (~w2.error /\ ~Ignored(kind, o)) =>
        /\ \A m \in ValueMaps(kind) : Leaves(mp2, w2.ops, m, o, Wanted(o, spec))
        /\ \A m \in ErrorMaps(kind) : Leaves(mp2, w2.ops, m, o, Absent)
  BY <1>2, <1>5 DEF Sound
<1>7. (kind = "kmp" /\ Broken(spec)) =>
        \A m \in ErrorMaps("kmp") : Leaves(mp2, w2.ops, m, o, Failure)
  BY <1>2, <1>3, <1>5 DEF Sound
<1>8. spec # NoSpec => Careful(mp2, w2.ops, o)
  BY <1>2 DEF Sound
<1>9. Sound(kind, mp2, o, spec, w2)
  BY <1>2, <1>4, <1>6, <1>7, <1>8 DEF Sound
<1> QED BY <1>9 DEF mp2

(* A sound plan stays sound while another object's is carried out. *)
LEMMA SoundOther ==
  ASSUME NEW kind \in Kinds, NEW mp \in [MapNames -> [Resources -> Values]], NEW o \in Resources,
         NEW spec, NEW w, NEW op \in Operations, op.at # o, Sound(kind, mp, o, spec, w)
  PROVE  Sound(kind, Applied(mp, op), o, spec, w)
<1> DEFINE mp2 == Applied(mp, op)
<1>1. /\ \A m \in MapNames : \A v : Leaves(mp, w.ops, m, o, v) => Leaves(mp2, w.ops, m, o, v)
      /\ Careful(mp, w.ops, o) => Careful(mp2, w.ops, o)
  BY OtherStep
<1> HIDE DEF mp2
<1>2. /\ \A m \in ValueMaps(kind) \cup ErrorMaps(kind) : m \in MapNames
      /\ \A m \in ErrorMaps("kmp") : m \in MapNames
  BY KindMaps DEF Kinds
<1>3. Sound(kind, mp2, o, spec, w)
  BY <1>1, <1>2 DEF Sound
<1> QED BY <1>3 DEF mp2

(* A plan depends on its fields only. *)
LEMMA SoundSame ==
  ASSUME NEW kind, NEW mp, NEW o, NEW spec, NEW w, NEW w2, Sound(kind, mp, o, spec, w),
         w2.ops = w.ops, w2.status = w.status, w2.error = w.error
  PROVE  Sound(kind, mp, o, spec, w2)
BY DEF Sound, Skipped
-----------------------------------------------------------------------------
(* What a worker can be doing. *)
LEMMA WorkerFacts ==
  ASSUME TypeInv, NEW c \in Controllers
  PROVE  /\ work[c].stage \in {"idle", "build", "apply"}
         /\ work[c] = Idle <=> work[c].stage = "idle"
         /\ work[c].stage = "build" => work[c] \in Builds
         /\ work[c].stage = "apply" => work[c] \in Plans
         /\ work[c] # Idle => /\ work[c].obj \in Objects /\ work[c].spec \in AllSpecs
                              /\ ControllerOf(work[c].obj) = c
<1>1. work[c] \in {Idle} \cup Builds \cup Plans
  BY DEF TypeInv
<1>2. Idle.stage = "idle"
  BY DEF Idle
<1>3. \A w \in Builds : w.stage = "build" /\ w.obj \in Objects /\ w.spec \in AllSpecs
  BY DEF Builds
<1>4. \A w \in Plans : w.stage = "apply" /\ w.obj \in Objects /\ w.spec \in AllSpecs
  BY DEF Plans
<1>5. work[c] # Idle => ControllerOf(work[c].obj) = c
  BY DEF TypeInv
<1> QED BY <1>1, <1>2, <1>3, <1>4, <1>5

(* The same work as before, as far as the maps are concerned. *)
Alike(w, w2) ==
  /\ w2.stage = w.stage /\ (w2 = Idle <=> w = Idle)
  /\ w # Idle => w2.obj = w.obj /\ w2.spec = w.spec
  /\ w.stage = "apply" => w2.ops = w.ops /\ w2.status = w.status /\ w2.error = w.error

(* Steps that touch neither the maps nor the work, and queue what they change. *)
LEMMA KeepStep ==
  ASSUME MapsInv, TypeInv', UNCHANGED <<focus, maps, seen>>,
         \A c \in Controllers : Alike(work[c], work'[c]), queue \subseteq queue',
         \A o \in Objects \ queue' : api'[o] = api[o]
  PROVE  MapsInv'
<1> USE DEF MapsInv
<1>1. \A o \in Objects : /\ WorksOn(o)' <=> WorksOn(o)
                         /\ WorksOn(o) => Alike(work[ControllerOf(o)], work'[ControllerOf(o)])
                         /\ ControllerOf(o) \in Controllers
  BY ObjectFacts DEF WorksOn, Alike
<1>2. PlanInv'
  <2> SUFFICES ASSUME NEW c \in Controllers, work'[c].stage = "apply"
               PROVE  Sound(focus, maps, work'[c].obj, work'[c].spec, work'[c])
    BY DEF PlanInv, Working
  <2>1. work[c].stage = "apply" /\ work[c] # Idle /\ Alike(work[c], work'[c])
    BY WorkerFacts DEF Alike
  <2>2. Sound(focus, maps, work[c].obj, work[c].spec, work[c])
    BY <2>1 DEF PlanInv, Working
  <2>3. Sound(focus, maps, work[c].obj, work[c].spec, work'[c])
    BY <2>1, <2>2, SoundSame DEF Alike
  <2> QED BY <2>1, <2>3 DEF Alike
<1>3. PolicyInv'
  BY DEF PolicyInv
<1>4. ConvergeInv'
  <2> SUFFICES ASSUME NEW o \in Objects, o \notin queue'
               PROVE  /\ WorksOn(o)' => work'[ControllerOf(o)].spec = api'[o]
                      /\ (~WorksOn(o)' /\ ~Ignored(focus, o)) => Holds(focus, maps, o, Wanted(o, api'[o]))
    BY DEF ConvergeInv
  <2>1. o \notin queue /\ api'[o] = api[o]
    OBVIOUS
  <2>2. /\ WorksOn(o) => work[ControllerOf(o)].spec = api[o]
        /\ (~WorksOn(o) /\ ~Ignored(focus, o)) => Holds(focus, maps, o, Wanted(o, api[o]))
    BY <2>1 DEF ConvergeInv
  <2>3. WorksOn(o) => work'[ControllerOf(o)].spec = work[ControllerOf(o)].spec
    BY <1>1 DEF Alike, WorksOn
  <2> QED BY <1>1, <2>1, <2>2, <2>3
<1>5. BrokenInv'
  <2> SUFFICES ASSUME focus = "kmp", NEW o \in Objects, Broken(seen[o]),
                      WorksOn(o)' => \/ work'[ControllerOf(o)].stage = "build"
                                     \/ Skipped(work'[ControllerOf(o)])
               PROVE  \A m \in ErrorMaps("kmp") : maps[m][o] = Failure
    BY DEF BrokenInv
  <2> DEFINE w == work[ControllerOf(o)]
             w2 == work'[ControllerOf(o)]
  <2>1. CASE ~WorksOn(o)
    BY <2>1 DEF BrokenInv
  <2>2. CASE WorksOn(o)
    <3>1. Alike(w, w2) /\ WorksOn(o)' /\ w # Idle
      BY <1>1, <2>2 DEF WorksOn
    <3>2. w.stage \in {"build", "apply"}
      BY <1>1, <3>1, WorkerFacts
    <3>3. w.stage = "build" \/ Skipped(w)
      BY <3>1, <3>2 DEF Alike, Skipped
    <3> QED BY <3>3 DEF BrokenInv
  <2> QED BY <2>1, <2>2
<1> QED BY <1>2, <1>3, <1>4, <1>5

(* Nothing changes for who does nothing. *)
LEMMA SameIsAlike == \A w : Alike(w, w)
BY DEF Alike

(* An edit is queued, and its worker keeps what it has (informer events). *)
LEMMA EditStep ==
  ASSUME MapsInv, NEW o \in Objects, Edit(o)
  PROVE  MapsInv'
<1>1. TypeInv /\ o \in queue'
  BY DEF MapsInv, Edit
<1>2. PICK spec \in (SpecsOf[focus] \cup {NoSpec}) \ {api[o]} : api' = [api EXCEPT ![o] = spec]
  BY DEF Edit
<1>3. spec \in AllSpecs
  BY <1>1, <1>2 DEF AllSpecs, Specs, TypeInv
<1>4. ASSUME NEW c \in Controllers
      PROVE  /\ Alike(work[c], work'[c]) /\ work'[c] \in {Idle} \cup Builds \cup Plans
             /\ work'[c] # Idle => ControllerOf(work'[c].obj) = c
  <2>1. work[c] \in {Idle} \cup Builds \cup Plans
    BY <1>1 DEF TypeInv
  <2>2. CASE work'[c] = work[c]
    BY <1>1, <2>1, <2>2, WorkerFacts, SameIsAlike
  <2>3. CASE WorksOn(o) /\ c = ControllerOf(o)
    <3>1. work'[c] = [work[c] EXCEPT !.fresh = FALSE] /\ work[c] # Idle
      BY <1>1, <2>3 DEF Edit, WorksOn, TypeInv
    <3>2. CASE work[c] \in Builds
      <4>1. work'[c] \in Builds /\ work'[c].obj = work[c].obj /\ work'[c].spec = work[c].spec
        BY <3>1, <3>2 DEF Builds
      <4>2. work'[c].stage = "build" /\ work[c].stage = "build"
        BY <3>2, <4>1 DEF Builds
      <4> QED BY <1>1, <3>1, <4>1, <4>2, MarkFacts, WorkerFacts DEF Alike
    <3>3. CASE work[c] \in Plans
      <4>1. /\ work'[c] \in Plans /\ work'[c].obj = work[c].obj /\ work'[c].spec = work[c].spec
            /\ work'[c].ops = work[c].ops /\ work'[c].status = work[c].status
            /\ work'[c].error = work[c].error
        BY <3>1, <3>3 DEF Plans
      <4>2. work'[c].stage = "apply" /\ work[c].stage = "apply"
        BY <3>3, <4>1 DEF Plans
      <4> QED BY <1>1, <3>1, <4>1, <4>2, MarkFacts, WorkerFacts DEF Alike
    <3> QED BY <2>1, <3>1, <3>2, <3>3
  <2>4. ~(WorksOn(o) /\ c = ControllerOf(o)) => work'[c] = work[c]
    BY <1>1 DEF Edit, TypeInv
  <2> QED BY <2>2, <2>3, <2>4
<1>5. work' \in [Controllers -> {Idle} \cup Builds \cup Plans]
  <2>1. work' = [c \in Controllers |-> work'[c]]
    BY <1>1 DEF Edit, TypeInv
  <2> QED BY <1>4, <2>1
<1>6. TypeInv'
  BY <1>1, <1>2, <1>3, <1>4, <1>5 DEF TypeInv, Edit
<1>7. \A p \in Objects \ queue' : api'[p] = api[p]
  BY <1>1, <1>2 DEF TypeInv
<1>8. UNCHANGED <<focus, maps, seen>> /\ queue \subseteq queue'
  BY DEF Edit
<1> QED BY <1>4, <1>6, <1>7, <1>8, KeepStep

(* Steps of the queue and of requests that only others see. *)
LEMMA QuietStep ==
  ASSUME MapsInv, UNCHANGED <<focus, api, work, maps, seen>>, queue \subseteq queue',
         queue' \in SUBSET Objects
  PROVE  MapsInv'
<1>1. TypeInv'
  BY DEF MapsInv, TypeInv
<1> QED BY <1>1, KeepStep, SameIsAlike

(* The other worker goes on with another object. *)
LEMMA OtherWorker ==
  ASSUME TypeInv, NEW c \in Controllers, NEW d \in Controllers, c # d,
         work[c] # Idle, work[d] # Idle
  PROVE  work[c].obj # work[d].obj
BY WorkerFacts

(* A worker takes an object and its specification (Reconcile's Get). *)
LEMMA TakeStep ==
  ASSUME MapsInv, NEW o \in Objects, Take(o)
  PROVE  MapsInv'
<1> DEFINE c == ControllerOf(o)
           rec == [stage |-> "build", obj |-> o, spec |-> api[o], fresh |-> TRUE]
<1>1. TypeInv /\ c \in Controllers /\ api[o] \in AllSpecs
  BY ObjectFacts DEF MapsInv, TypeInv
<1>2. /\ o \in queue /\ work[c] = Idle /\ queue' = queue \ {o}
      /\ work' = [work EXCEPT ![c] = rec]
      /\ UNCHANGED <<focus, api, maps, seen>>
  BY DEF Take
<1>3. rec \in Builds /\ rec.obj = o /\ rec.spec = api[o] /\ rec.stage = "build" /\ rec # Idle
  <2>1. rec \in Builds /\ rec.obj = o /\ rec.spec = api[o] /\ rec.stage = "build"
    BY <1>1 DEF Builds
  <2> QED BY <2>1, MarkFacts
<1> HIDE DEF rec
<1>4. work'[c] = rec /\ \A d \in Controllers : d # c => work'[d] = work[d]
  BY <1>1, <1>2 DEF TypeInv
<1>5. TypeInv'
  <2>1. work' \in [Controllers -> {Idle} \cup Builds \cup Plans]
    BY <1>1, <1>2, <1>3 DEF TypeInv
  <2>2. \A d \in Controllers : work'[d] # Idle => ControllerOf(work'[d].obj) = d
    BY <1>1, <1>3, <1>4 DEF TypeInv
  <2> QED BY <1>1, <1>2, <2>1, <2>2 DEF TypeInv
<1>6. WorksOn(o)' /\ ~WorksOn(o)
  BY <1>2, <1>3, <1>4 DEF WorksOn
<1>7. \A p \in Objects : p # o => /\ WorksOn(p)' <=> WorksOn(p)
                                  /\ WorksOn(p) => work'[ControllerOf(p)] = work[ControllerOf(p)]
  BY <1>2, <1>3, <1>4, ObjectFacts DEF WorksOn
<1>8. PlanInv'
  BY <1>2, <1>3, <1>4 DEF MapsInv, PlanInv, Working
<1>9. PolicyInv'
  BY <1>2 DEF MapsInv, PolicyInv
<1>10. ConvergeInv'
  <2> SUFFICES ASSUME NEW p \in Objects, p \notin queue'
               PROVE  /\ WorksOn(p)' => work'[ControllerOf(p)].spec = api[p]
                      /\ (~WorksOn(p)' /\ ~Ignored(focus, p)) => Holds(focus, maps, p, Wanted(p, api[p]))
    BY <1>2 DEF ConvergeInv
  <2>1. CASE p = o
    BY <1>3, <1>4, <1>6, <2>1
  <2>2. CASE p # o
    <3>1. p \notin queue
      BY <1>2, <2>2
    <3> QED BY <1>7, <2>2, <3>1 DEF MapsInv, ConvergeInv
  <2> QED BY <2>1, <2>2
<1>11. BrokenInv'
  BY <1>2, <1>6, <1>7 DEF MapsInv, BrokenInv
<1> QED BY <1>5, <1>8, <1>9, <1>10, <1>11 DEF MapsInv

(* A worker has built what the specification describes, or failed to. *)
LEMMA BuildStep ==
  ASSUME MapsInv, NEW c \in Controllers, Build(c)
  PROVE  MapsInv'
<1> DEFINE w == work[c]
           o == work[c].obj
<1>1. TypeInv /\ PolicyInv /\ w.stage = "build"
  BY DEF MapsInv, Build, Working
<1>2. w # Idle /\ w \in Builds /\ o \in Objects /\ w.spec \in AllSpecs /\ ControllerOf(o) = c
  BY <1>1, WorkerFacts
<1>3. PICK fault : work' = [work EXCEPT ![c] =
        [stage |-> "apply", obj |-> @.obj, spec |-> @.spec, fresh |-> @.fresh,
         ops |-> Reconcile(o, w.spec, fault).ops, status |-> Reconcile(o, w.spec, fault).status,
         error |-> Reconcile(o, w.spec, fault).error]]
  BY DEF Build
<1> DEFINE out == Reconcile(o, w.spec, fault)
<1>4. WellFormed(out) /\ Sound(focus, maps, o, w.spec, out)
  BY <1>1, <1>2, ReconcileSound
<1>5. /\ work'[c] = [stage |-> "apply", obj |-> o, spec |-> w.spec, fresh |-> w.fresh,
                     ops |-> out.ops, status |-> out.status, error |-> out.error]
      /\ \A d \in Controllers : d # c => work'[d] = work[d]
      /\ work' = [work EXCEPT ![c] = work'[c]]
  BY <1>1, <1>3 DEF TypeInv
<1>6. UNCHANGED <<focus, api, queue, maps, seen>>
  BY DEF Build
<1> HIDE DEF out
<1>7. /\ work'[c] \in Plans /\ work'[c].obj = o /\ work'[c].spec = w.spec /\ work'[c].stage = "apply"
      /\ work'[c].ops = out.ops /\ work'[c].status = out.status /\ work'[c].error = out.error
  <2>1. w.fresh \in BOOLEAN
    BY <1>2 DEF Builds
  <2> QED BY <1>2, <1>4, <1>5, <2>1 DEF WellFormed, Plans
<1>8. work'[c] # Idle
  BY <1>7, MarkFacts
<1> HIDE DEF w
<1>9. TypeInv'
  <2>1. work' \in [Controllers -> {Idle} \cup Builds \cup Plans]
    BY <1>1, <1>5, <1>7 DEF TypeInv
  <2>2. \A d \in Controllers : work'[d] # Idle => ControllerOf(work'[d].obj) = d
    BY <1>1, <1>2, <1>5, <1>7 DEF TypeInv
  <2> QED BY <1>1, <1>6, <2>1, <2>2 DEF TypeInv
<1>10. \A p \in Objects : /\ WorksOn(p)' <=> WorksOn(p)
                          /\ WorksOn(p) => work'[ControllerOf(p)].spec = work[ControllerOf(p)].spec
                          /\ p # o => work'[ControllerOf(p)] = work[ControllerOf(p)] \/ ~WorksOn(p)
  BY <1>2, <1>5, <1>7, <1>8, ObjectFacts DEF WorksOn, w
<1>11. PlanInv'
  <2>1. Sound(focus, maps, o, w.spec, work'[c])
    BY <1>4, <1>7, SoundSame
  <2>2. ASSUME NEW d \in Controllers, work'[d].stage = "apply"
        PROVE  Sound(focus, maps, work'[d].obj, work'[d].spec, work'[d])
    BY <1>5, <1>7, <2>1, <2>2 DEF MapsInv, PlanInv, Working
  <2> QED BY <1>6, <2>2 DEF PlanInv, Working
<1>12. PolicyInv'
  BY <1>1, <1>6 DEF PolicyInv
<1>13. ConvergeInv'
  BY <1>6, <1>10 DEF MapsInv, ConvergeInv
<1>14. BrokenInv'
  <2> SUFFICES ASSUME focus = "kmp", NEW p \in Objects, Broken(seen[p]),
                      WorksOn(p)' => \/ work'[ControllerOf(p)].stage = "build"
                                     \/ Skipped(work'[ControllerOf(p)])
               PROVE  \A m \in ErrorMaps("kmp") : maps[m][p] = Failure
    BY <1>6 DEF BrokenInv
  <2>1. CASE p = o
    BY <1>1, <1>2, <2>1 DEF MapsInv, BrokenInv, w
  <2>2. CASE p # o
    BY <1>10, <2>2 DEF MapsInv, BrokenInv
  <2> QED BY <2>1, <2>2
<1> QED BY <1>9, <1>11, <1>12, <1>13, <1>14 DEF MapsInv

(* The next operation of a plan (a Store or Delete of a sync.Map). *)
LEMMA ApplyStep ==
  ASSUME MapsInv, NEW c \in Controllers, Apply(c)
  PROVE  MapsInv'
<1> DEFINE w == work[c]
           o == work[c].obj
           op == Head(work[c].ops)
<1>1. TypeInv /\ w.stage = "apply" /\ w.ops # <<>>
  BY DEF MapsInv, Apply, Working
<1>2. w # Idle /\ w \in Plans /\ o \in Objects /\ ControllerOf(o) = c /\ o \in Resources
  BY <1>1, WorkerFacts, ObjectFacts
<1>3. w.ops \in Seq(Operations) /\ op \in Operations /\ Tail(w.ops) \in Seq(Operations)
  BY <1>1, <1>2, TailFacts DEF Plans
<1>4. Sound(focus, maps, o, w.spec, w)
  BY <1>1 DEF MapsInv, PlanInv, Working
<1>5. op.at = o /\ Fits(op.map, op.value)
  BY <1>1, <1>3, <1>4, TailFacts DEF Sound, Tidy
<1>6. UNCHANGED <<focus, api, queue, seen>> /\ maps' = Applied(maps, op)
  BY DEF Apply
<1>7. /\ work'[c] = [w EXCEPT !.ops = Tail(@)]
      /\ \A d \in Controllers : d # c => work'[d] = work[d]
      /\ work' = [work EXCEPT ![c] = work'[c]]
  BY <1>1 DEF Apply, TypeInv
<1>8. /\ work'[c] \in Plans /\ work'[c].obj = o /\ work'[c].spec = w.spec /\ work'[c].stage = "apply"
      /\ work'[c].ops = Tail(w.ops) /\ work'[c].status = w.status /\ work'[c].error = w.error
  BY <1>2, <1>3, <1>7 DEF Plans
<1>9. work'[c] # Idle
  BY <1>8, MarkFacts
<1>10. maps \in [MapNames -> [Resources -> Values]] /\ focus \in Kinds
  BY <1>1 DEF TypeInv
<1>11. \A p \in Resources : p # o => \A m \in MapNames : maps'[m][p] = maps[m][p]
  BY <1>3, <1>5, <1>6, <1>10, OtherStep
<1> HIDE DEF op, w
<1>12. TypeInv'
  <2>1. work' \in [Controllers -> {Idle} \cup Builds \cup Plans]
    BY <1>1, <1>7, <1>8 DEF TypeInv
  <2>2. \A d \in Controllers : work'[d] # Idle => ControllerOf(work'[d].obj) = d
    BY <1>1, <1>2, <1>7, <1>8 DEF TypeInv
  <2>3. maps' \in [MapNames -> [Resources -> Values]]
    BY <1>3, <1>6, <1>10, AppliedFacts
  <2> QED BY <1>1, <1>6, <2>1, <2>2, <2>3 DEF TypeInv
<1>13. \A p \in Objects : /\ WorksOn(p)' <=> WorksOn(p)
                          /\ WorksOn(p) => work'[ControllerOf(p)].spec = work[ControllerOf(p)].spec
                          /\ p # o => work'[ControllerOf(p)] = work[ControllerOf(p)] \/ ~WorksOn(p)
  BY <1>2, <1>7, <1>8, <1>9, ObjectFacts DEF WorksOn, w
<1>14. WorksOn(o)
  BY <1>2 DEF WorksOn, w
<1>15. PlanInv'
  <2> SUFFICES ASSUME NEW d \in Controllers, work'[d].stage = "apply"
               PROVE  Sound(focus, maps', work'[d].obj, work'[d].spec, work'[d])
    BY <1>6 DEF PlanInv, Working
  <2>1. CASE d = c
    <3>1. Sound(focus, Applied(maps, Head(w.ops)), o, w.spec, work'[c])
      BY <1>1, <1>2, <1>3, <1>4, <1>8, <1>10, SoundOwn
    <3> QED BY <1>6, <1>8, <2>1, <3>1 DEF op, w
  <2>2. CASE d # c
    <3>1. work'[d] = work[d] /\ work[d].stage = "apply" /\ work[d] # Idle
      BY <1>1, <1>7, <2>2, WorkerFacts
    <3>2. Sound(focus, maps, work[d].obj, work[d].spec, work[d])
      BY <3>1 DEF MapsInv, PlanInv, Working
    <3>3. work[d].obj # o /\ work[d].obj \in Resources
      BY <1>1, <1>2, <2>2, <3>1, OtherWorker, WorkerFacts, ObjectFacts DEF w
    <3>4. Sound(focus, Applied(maps, op), work[d].obj, work[d].spec, work[d])
      BY <1>3, <1>5, <1>10, <3>2, <3>3, SoundOther
    <3> QED BY <1>6, <3>1, <3>4
  <2> QED BY <2>1, <2>2
<1>16. PolicyInv'
  <2> SUFFICES ASSUME NEW r \in Resources PROVE Fits("policies", maps'["policies"][r])
    BY DEF PolicyInv
  <2>1. maps'["policies"][r] = IF "policies" = op.map /\ r = op.at THEN op.value
                               ELSE maps["policies"][r]
    BY <1>3, <1>6, <1>10, AppliedFacts DEF MapNames
  <2>2. Fits("policies", maps["policies"][r])
    BY DEF MapsInv, PolicyInv
  <2> QED BY <1>5, <2>1, <2>2
<1>17. ConvergeInv'
  <2> SUFFICES ASSUME NEW p \in Objects, p \notin queue
               PROVE  /\ WorksOn(p)' => work'[ControllerOf(p)].spec = api[p]
                      /\ (~WorksOn(p)' /\ ~Ignored(focus, p)) => Holds(focus, maps', p, Wanted(p, api[p]))
    BY <1>6 DEF ConvergeInv
  <2>1. /\ WorksOn(p) => work[ControllerOf(p)].spec = api[p]
        /\ (~WorksOn(p) /\ ~Ignored(focus, p)) => Holds(focus, maps, p, Wanted(p, api[p]))
    BY DEF MapsInv, ConvergeInv
  <2>2. ASSUME ~WorksOn(p), Holds(focus, maps, p, Wanted(p, api[p]))
        PROVE  Holds(focus, maps', p, Wanted(p, api[p]))
    <3>1. p # o /\ p \in Resources
      BY <1>14, <2>2, ObjectFacts
    <3> QED BY <1>10, <1>11, <2>2, <3>1, KindMaps DEF Holds
  <2> QED BY <1>13, <2>1, <2>2
<1>18. BrokenInv'
  <2> SUFFICES ASSUME focus = "kmp", NEW p \in Objects, Broken(seen[p]),
                      WorksOn(p)' => \/ work'[ControllerOf(p)].stage = "build"
                                     \/ Skipped(work'[ControllerOf(p)]),
                      NEW m \in ErrorMaps("kmp")
               PROVE  maps'[m][p] = Failure
    BY <1>6 DEF BrokenInv
  <2>1. p # o
    <3>1. ~Skipped(w)
      BY <1>1, <1>4 DEF Sound
    <3>2. ~Skipped(work'[c]) /\ work'[c].stage = "apply"
      BY <1>8, <3>1 DEF Skipped
    <3> QED BY <1>2, <1>13, <1>14, <3>2
  <2>2. maps[m][p] = Failure
    BY <1>13, <2>1 DEF MapsInv, BrokenInv
  <2>3. m \in MapNames /\ p \in Resources
    BY KindMaps, ObjectFacts DEF Kinds
  <2> QED BY <1>11, <2>1, <2>2, <2>3
<1> QED BY <1>12, <1>15, <1>16, <1>17, <1>18 DEF MapsInv

(* A plan that is carried out leaves what it should. *)
LEMMA LeavesNow ==
  \A mp, m, o, v : Leaves(mp, <<>>, m, o, v) => mp[m][o] = v
BY DEF Leaves

(* The status update and the return of a reconcile; an error queues the object
   again. *)
LEMMA FinishStep ==
  ASSUME MapsInv, NEW c \in Controllers, Finish(c)
  PROVE  MapsInv'
<1> DEFINE w == work[c]
<1>0. PICK o : o = work[c].obj
  OBVIOUS
<1>1. TypeInv /\ w.stage = "apply" /\ w.ops = <<>>
  BY DEF MapsInv, Finish, Working
<1>2. w # Idle /\ w \in Plans /\ o \in Objects /\ ControllerOf(o) = c /\ w.spec \in AllSpecs
  BY <1>0, <1>1, WorkerFacts
<1>3. Sound(focus, maps, o, w.spec, w)
  BY <1>0, <1>1 DEF MapsInv, PlanInv, Working
<1>4. /\ UNCHANGED <<focus, api, maps>>
      /\ work' = [work EXCEPT ![c] = Idle]
      /\ seen' = [seen EXCEPT ![o] = IF Skipped(w) THEN @ ELSE w.spec]
  BY <1>0 DEF Finish, Returned, Skipped
<1>5. queue \subseteq queue' /\ queue' \subseteq queue \cup {o} /\ (w.error => o \in queue')
  BY <1>0 DEF Finish, Requeued
<1>6. work'[c] = Idle /\ \A d \in Controllers : d # c => work'[d] = work[d]
  BY <1>1, <1>4 DEF TypeInv
<1>7. seen'[o] = (IF Skipped(w) THEN seen[o] ELSE w.spec) /\ \A p \in Objects : p # o => seen'[p] = seen[p]
  BY <1>1, <1>2, <1>4 DEF TypeInv
<1>8. WorksOn(o) /\ ~WorksOn(o)'
  BY <1>0, <1>2, <1>6 DEF WorksOn
<1>9. \A p \in Objects : p # o => /\ WorksOn(p)' <=> WorksOn(p)
                                  /\ WorksOn(p) => work'[ControllerOf(p)] = work[ControllerOf(p)]
  BY <1>0, <1>2, <1>6, ObjectFacts DEF WorksOn
<1>10. TypeInv'
  <2>1. work' \in [Controllers -> {Idle} \cup Builds \cup Plans]
    BY <1>1, <1>4 DEF TypeInv
  <2>2. \A d \in Controllers : work'[d] # Idle => ControllerOf(work'[d].obj) = d
    BY <1>1, <1>6 DEF TypeInv
  <2>3. seen' \in [Objects -> AllSpecs]
    BY <1>1, <1>2, <1>4 DEF TypeInv
  <2> QED BY <1>1, <1>2, <1>4, <1>5, <2>1, <2>2, <2>3 DEF TypeInv
<1>11. PlanInv'
  <2>1. Idle.stage # "apply"
    BY DEF Idle
  <2> QED BY <1>4, <1>6, <2>1 DEF MapsInv, PlanInv, Working
<1>12. PolicyInv'
  BY <1>4 DEF MapsInv, PolicyInv
<1> HIDE DEF w
<1>13. ConvergeInv'
  <2> SUFFICES ASSUME NEW p \in Objects, p \notin queue'
               PROVE  /\ WorksOn(p)' => work'[ControllerOf(p)].spec = api[p]
                      /\ (~WorksOn(p)' /\ ~Ignored(focus, p)) => Holds(focus, maps, p, Wanted(p, api[p]))
    BY <1>4 DEF ConvergeInv
  <2>1. p \notin queue
    BY <1>5
  <2>2. CASE p = o
    <3>1. ~w.error /\ w.spec = api[p]
      BY <1>2, <1>5, <1>8, <2>1, <2>2 DEF MapsInv, ConvergeInv, w
    <3>2. ~Ignored(focus, p) => Holds(focus, maps, p, Wanted(p, api[p]))
      BY <1>1, <1>3, <2>2, <3>1, LeavesNow DEF Sound, Holds
    <3> QED BY <1>8, <2>2, <3>2
  <2>3. CASE p # o
    BY <1>9, <2>1, <2>3 DEF MapsInv, ConvergeInv
  <2> QED BY <2>2, <2>3
<1>14. BrokenInv'
  <2> SUFFICES ASSUME focus = "kmp", NEW p \in Objects, Broken(seen'[p]),
                      WorksOn(p)' => \/ work'[ControllerOf(p)].stage = "build"
                                     \/ Skipped(work'[ControllerOf(p)])
               PROVE  \A m \in ErrorMaps("kmp") : maps[m][p] = Failure
    BY <1>4 DEF BrokenInv
  <2>1. CASE p = o /\ Skipped(w)
    BY <1>2, <1>7, <2>1 DEF MapsInv, BrokenInv, w
  <2>2. CASE p = o /\ ~Skipped(w)
    BY <1>1, <1>3, <1>7, <2>2, LeavesNow DEF Sound
  <2>3. CASE p # o
    BY <1>7, <1>9, <2>3 DEF MapsInv, BrokenInv
  <2> QED BY <2>1, <2>2, <2>3
<1> QED BY <1>10, <1>11, <1>12, <1>13, <1>14 DEF MapsInv

(* Empty maps hold what no objects ask for. *)
LEMMA EmptyFacts ==
  /\ EmptyMaps \in [MapNames -> [Resources -> Values]]
  /\ \A m \in MapNames, r \in Resources : EmptyMaps[m][r] = Absent
BY MarkFacts DEF EmptyMaps, MapNames

Started ==
  /\ focus \in Kinds /\ api \in [Objects -> AllSpecs] /\ maps = EmptyMaps
  /\ queue = {o \in Objects : api[o] # NoSpec} /\ work = [c \in Controllers |-> Idle]
  /\ seen = [o \in Objects |-> NoSpec]

(* A process that starts has every object queued and nothing in its maps. *)
LEMMA StartInv == Started => MapsInv
<1> SUFFICES ASSUME Started PROVE MapsInv
  OBVIOUS
<1> USE DEF Started
<1>1. TypeInv
  BY EmptyFacts DEF TypeInv, AllSpecs
<1>2. PlanInv
  BY DEF PlanInv, Working, Idle
<1>3. PolicyInv
  BY EmptyFacts DEF PolicyInv, Fits, MapNames
<1>4. ConvergeInv
  <2> SUFFICES ASSUME NEW o \in Objects, o \notin queue
               PROVE  ~WorksOn(o) /\ Holds(focus, maps, o, Wanted(o, api[o]))
    BY DEF ConvergeInv
  <2>1. ~WorksOn(o)
    BY ObjectFacts DEF WorksOn
  <2>2. Wanted(o, api[o]) = Absent /\ o \in Resources
    BY ObjectFacts DEF Wanted
  <2> QED BY <2>1, <2>2, EmptyFacts, KindMaps DEF Holds
<1>5. BrokenInv
  BY DEF BrokenInv, Broken
<1> QED BY <1>1, <1>2, <1>3, <1>4, <1>5 DEF MapsInv

(* The maps, the plans and the queue fit each other, whatever users do. *)
THEOREM MapsInvariant == Spec => []MapsInv
<1>1. Init => MapsInv
  BY StartInv, StoredAssumption DEF Init, AllSpecs, Started
<1>2. MapsInv /\ [Next]_vars => MapsInv'
  <2> SUFFICES ASSUME MapsInv, [Next]_vars
               PROVE  MapsInv'
    OBVIOUS
  <2>1. queue \in SUBSET Objects
    BY DEF MapsInv, TypeInv
  <2>2. ASSUME NEW o \in Objects, Resync(o) \/ TakeFails(o) PROVE MapsInv'
    <3>1. UNCHANGED <<focus, api, work, maps, seen>> /\ queue' \in {queue, queue \cup {o}}
      BY <2>2 DEF Resync, TakeFails
    <3> QED BY <2>1, <3>1, QuietStep
  <2>3. CASE Begin \/ FirstLoad \/ SecondLoad \/ End \/ UNCHANGED vars
    <3>1. UNCHANGED <<focus, api, queue, work, maps, seen>>
      BY <2>3 DEF Begin, FirstLoad, SecondLoad, End, vars
    <3> QED BY <2>1, <3>1, QuietStep
  <2>4. CASE Restart
    <3>1. Started'
      BY <2>4 DEF Restart, MapsInv, TypeInv, Started
    <3> QED BY <3>1, StartInv, PTL
  <2> QED BY <2>2, <2>3, <2>4, EditStep, TakeStep, BuildStep, ApplyStep, FinishStep
          DEF Next, Step
<1> QED BY <1>1, <1>2, PTL DEF Spec

(* An object that nobody will reconcile again is in force with its latest
   specification, or has left nothing behind. *)
THEOREM SettledIsInForce == Spec => []MapsConverge
<1>1. MapsInv => MapsConverge
  BY DEF MapsInv, ConvergeInv, MapsConverge, Settled, Misnamed, Ignored, InForce, Holds, Wanted
<1> QED BY <1>1, MapsInvariant, PTL

(* Requests get the error of a provider that cannot be built, not the secrets of
   an earlier specification. *)
THEOREM BrokenIsRefused == Spec => []BrokenProviderIsRefused
<1>1. MapsInv => BrokenProviderIsRefused
  BY DEF MapsInv, BrokenInv, BrokenProviderIsRefused, Broken
<1> QED BY <1>1, MapsInvariant, PTL
-----------------------------------------------------------------------------
(* A request looks where it may: in its own scope, in the cluster-wide one, and
   for certificate stores anywhere when it is cluster-wide (hasAccessToProvider,
   hasAccessToStore). *)
LEMMA LookupFacts ==
  ASSUME focus \in Kinds, NEW ns \in Scopes, NEW l \in Lookups(ns), l # Refused
  PROVE  /\ l \in [first : MapNames, second : MapNames, at : Resources]
         /\ focus \in ByError => /\ l.second \in Guarded /\ l.first = ErrorMapOf(l.second)
                                 /\ MayRead(ns, l.at)
<1>1. ASSUME NEW r \in Resources, NEW v \in Guarded, l = ErrorThenValue(ErrorMapOf(v), v, r)
      PROVE  /\ l \in [first : MapNames, second : MapNames, at : Resources]
             /\ l.second \in Guarded /\ l.first = ErrorMapOf(l.second) /\ l.at = r
  <2>1. v \in MapNames /\ ErrorMapOf(v) \in MapNames
    BY DEF Guarded, MapNames, ErrorMapOf
  <2> QED BY <1>1, <2>1 DEF ErrorThenValue
<1>2. ObjectsOf[focus] \subseteq Resources
  BY ObjectsAssumption
<1>3. CASE focus = "kmp"
  <2>1. PICK r \in ObjectsOf[focus] : l = GetCertificatesFromMap(ns, r) \/ l = GetKeysFromMap(ns, r)
    BY <1>3 DEF Lookups
  <2>2. /\ hasAccessToProvider(ns, r)
        /\ \/ l = ErrorThenValue("certErrs", "certs", r)
           \/ l = ErrorThenValue("keyErrs", "keys", r)
    BY <2>1 DEF GetCertificatesFromMap, GetKeysFromMap
  <2>3. MayRead(ns, r)
    BY <2>2 DEF hasAccessToProvider, IsNamespacedNamed, MayRead
  <2>4. \E v \in Guarded : l = ErrorThenValue(ErrorMapOf(v), v, r)
    BY <2>2 DEF Guarded, ErrorMapOf
  <2> QED BY <1>1, <1>2, <2>3, <2>4
<1>4. CASE focus = "certstore"
  <2>1. PICK r \in ObjectsOf[focus] : l = GetCertsFromStore(ns, r)
    BY <1>4 DEF Lookups
  <2>2. IsNamespacedNamed(r)
    BY <1>4, ObjectsAssumption
  <2>3. prependNamespaceToStoreName(r) = {r}
    BY <2>2 DEF prependNamespaceToStoreName
  <2>4. hasAccessToStore(ns, r) /\ l = ErrorThenValue("storeErrs", "certStores", r)
    BY <2>1, <2>3 DEF GetCertsFromStore
  <2>5. MayRead(ns, r)
    BY <1>4, <2>4 DEF hasAccessToStore, MayRead
  <2>6. "certStores" \in Guarded /\ ErrorMapOf("certStores") = "storeErrs"
    BY DEF Guarded, ErrorMapOf
  <2> QED BY <1>1, <1>2, <2>4, <2>5, <2>6
<1>5. CASE focus \in {"verifier", "store", "policy"}
  <2>1. \E m \in {"verifiers", "stores", "policies"} : l = ScopeThenCluster(m, ns)
    BY <1>5 DEF Lookups, GetVerifiers, GetStores, GetPolicy
  <2>2. [ns |-> ns, name |-> RatifyPolicy] \in Resources
    BY ObjectsAssumption DEF Resources
  <2> QED BY <1>5, <2>1, <2>2 DEF ScopeThenCluster, MapNames, ByError
<1> QED BY <1>3, <1>4, <1>5 DEF Kinds

(* Steps that leave the request and the maps alone and remove nothing. *)
LEMMA SameRequest ==
  ASSUME RequestInv, UNCHANGED <<focus, request, maps>>, Removing' => Removing
  PROVE  RequestInv'
<1>1. LookupInv' /\ NotFoundInv' /\ Isolated'
  BY DEF RequestInv, LookupInv, NotFoundInv, Isolated, MayRead
<1>2. KnownInv'
  BY DEF RequestInv, KnownInv
<1> QED BY <1>1, <1>2 DEF RequestInv

(* A request that begins knows what it saw, unless something is being removed. *)
LEMMA BeginStep ==
  ASSUME MapsInv, Begin
  PROVE  RequestInv'
<1>1. focus \in Kinds /\ UNCHANGED <<focus, work, maps>>
  BY DEF MapsInv, TypeInv, Begin
<1>a. PICK ns \in Scopes : \E l \in Lookups(ns) \ {Refused} :
        request' = [stage |-> "first", ns |-> ns, lookup |-> l, found |-> {},
                    known |-> ~Removing /\ \E m \in {l.first, l.second} : maps[m][l.at] # Absent]
  BY DEF Begin
<1>2. PICK l \in Lookups(ns) \ {Refused} :
        request' = [stage |-> "first", ns |-> ns, lookup |-> l, found |-> {},
                    known |-> ~Removing /\ \E m \in {l.first, l.second} : maps[m][l.at] # Absent]
  BY <1>a
<1> DEFINE known == ~Removing /\ \E m \in {l.first, l.second} : maps[m][l.at] # Absent
<1>3. /\ l \in [first : MapNames, second : MapNames, at : Resources]
      /\ focus \in ByError => /\ l.second \in Guarded /\ l.first = ErrorMapOf(l.second)
                              /\ MayRead(ns, l.at)
  BY <1>1, <1>2, LookupFacts
<1>4. known \in BOOLEAN
  OBVIOUS
<1>5. known => ~Removing /\ (maps[l.first][l.at] # Absent \/ maps[l.second][l.at] # Absent)
  OBVIOUS
<1>6. request' = [stage |-> "first", ns |-> ns, lookup |-> l, found |-> {}, known |-> known]
  BY <1>2
<1> HIDE DEF known
<1>7. /\ request' \in RequestSet /\ request'.stage = "first" /\ request'.ns = ns
      /\ request'.lookup = l /\ request'.found = {} /\ request'.known = known
  BY <1>3, <1>4, <1>6 DEF RequestSet, LookupSet
<1>8. LookupInv'
  BY <1>1, <1>3, <1>7 DEF LookupInv, MayRead
<1>9. KnownInv'
  BY <1>1, <1>5, <1>7 DEF KnownInv, Removing
<1>10. NotFoundInv' /\ Isolated'
  BY <1>7 DEF NotFoundInv, Isolated
<1> QED BY <1>7, <1>8, <1>9, <1>10 DEF RequestInv

(* What a request becomes when it goes on, ends, or something is removed. *)
LEMMA RequestFacts ==
  ASSUME request \in RequestSet
  PROVE  /\ \A st \in {"error", "found", "notfound"}, f \in SUBSET Resources :
              /\ Ended(st, f) \in RequestSet /\ Ended(st, f).stage = st /\ Ended(st, f).found = f
              /\ Ended(st, f).ns = request.ns /\ Ended(st, f).known = request.known
         /\ GoesOn \in RequestSet /\ GoesOn.stage = "second" /\ GoesOn.found = request.found
         /\ GoesOn.ns = request.ns /\ GoesOn.known = request.known
         /\ GoesOn.lookup = request.lookup
BY DEF RequestSet, LookupSet, Ended, GoesOn

(* A request that ends with an answer other than "not found". *)
LEMMA EndedStep ==
  ASSUME RequestInv, request \in RequestSet, UNCHANGED <<focus, work, maps>>,
         NEW st \in {"error", "found"}, NEW f \in SUBSET Resources, request' = Ended(st, f),
         ~(focus = "certstore" /\ request.ns = EmptyNamespace) =>
           \/ \A r \in f : r.ns = request.ns
           \/ \A r \in f : r.ns = EmptyNamespace
  PROVE  RequestInv'
<1>1. /\ request' \in RequestSet /\ request'.stage = st /\ request'.found = f
      /\ request'.ns = request.ns /\ request'.known = request.known /\ request # Idle
  BY RequestFacts, MarkFacts
<1>2. request'.known /\ focus \in ByError => ~Removing
  BY <1>1 DEF RequestInv, KnownInv
<1>3. KnownInv'
  BY <1>1, <1>2 DEF KnownInv, Removing
<1>4. LookupInv' /\ NotFoundInv' /\ Isolated'
  BY <1>1 DEF LookupInv, NotFoundInv, Isolated
<1> QED BY <1>1, <1>3, <1>4 DEF RequestInv

(* The first load: the error, or the entries of the request's own scope. *)
LEMMA FirstLoadStep ==
  ASSUME MapsInv, RequestInv, FirstLoad
  PROVE  RequestInv'
<1> DEFINE l == request.lookup
           own == InScope(maps, l.first, request.ns)
<1>1. request.stage = "first" /\ UNCHANGED <<focus, work, maps>>
  BY DEF FirstLoad
<1>2. request # Idle /\ request \in RequestSet
  BY <1>1 DEF RequestInv, Idle
<1>3. own \in SUBSET Resources /\ \A r \in own : r.ns = request.ns
  BY DEF InScope
<1>4. \/ focus \in ByError /\ maps[l.first][l.at] # Absent /\ request' = Ended("error", {})
      \/ focus \in ByError /\ maps[l.first][l.at] = Absent /\ request' = GoesOn
      \/ focus \notin ByError /\ request' = Ended("found", own)
      \/ focus \notin ByError /\ request' = GoesOn
  BY DEF FirstLoad
<1> HIDE DEF own
<1>5. CASE request' = Ended("error", {})
  BY <1>1, <1>2, <1>5, EndedStep
<1>6. CASE request' = Ended("found", own)
  BY <1>1, <1>2, <1>3, <1>6, EndedStep
<1>7. CASE request' = GoesOn /\ (focus \in ByError => maps[l.first][l.at] = Absent)
  <2>1. /\ request' \in RequestSet /\ request'.stage = "second" /\ request'.found = request.found
        /\ request'.ns = request.ns /\ request'.known = request.known /\ request'.lookup = l
    BY <1>2, <1>7, RequestFacts
  <2>2. LookupInv'
    BY <1>1, <1>2, <2>1 DEF RequestInv, LookupInv, MayRead
  <2>3. ASSUME request.known, focus \in ByError PROVE ~Removing /\ maps[l.second][l.at] # Absent
    BY <1>1, <1>2, <1>7, <2>3 DEF RequestInv, KnownInv
  <2>4. KnownInv'
    BY <1>1, <2>1, <2>3 DEF KnownInv, Removing
  <2>5. request.found = {}
    BY <1>1, <1>2 DEF RequestInv, LookupInv
  <2>6. NotFoundInv' /\ Isolated'
    BY <2>1, <2>5 DEF NotFoundInv, Isolated
  <2> QED BY <2>1, <2>2, <2>4, <2>6 DEF RequestInv
<1> QED BY <1>4, <1>5, <1>6, <1>7

(* The second load: the value, or the cluster-wide entries. *)
LEMMA SecondLoadStep ==
  ASSUME MapsInv, RequestInv, SecondLoad
  PROVE  RequestInv'
<1> DEFINE l == request.lookup
           all == InScope(maps, l.second, EmptyNamespace)
<1>1. request.stage = "second" /\ UNCHANGED <<focus, work, maps>>
  BY DEF SecondLoad
<1>2. request # Idle /\ request \in RequestSet
  BY <1>1 DEF RequestInv, Idle
<1>3. all \in SUBSET Resources /\ \A r \in all : r.ns = EmptyNamespace
  BY DEF InScope
<1>4. \/ focus \in ByError /\ maps[l.second][l.at] # Absent /\ request' = Ended("found", {l.at})
      \/ focus \in ByError /\ maps[l.second][l.at] = Absent /\ request' = Ended("notfound", {})
      \/ request' = Ended("found", all)
  BY DEF SecondLoad
<1> HIDE DEF all
<1>5. CASE focus \in ByError /\ request' = Ended("found", {l.at})
  <2>1. l \in [first : MapNames, second : MapNames, at : Resources] /\ MayRead(request.ns, l.at)
    BY <1>1, <1>2, <1>5 DEF RequestInv, LookupInv
  <2>2. {l.at} \in SUBSET Resources
    BY <2>1
  <2>3. ~(focus = "certstore" /\ request.ns = EmptyNamespace) => l.at.ns \in {request.ns, EmptyNamespace}
    BY <2>1 DEF MayRead
  <2> QED BY <1>1, <1>2, <1>5, <2>2, <2>3, EndedStep
<1>6. CASE focus \in ByError /\ maps[l.second][l.at] = Absent /\ request' = Ended("notfound", {})
  <2>1. /\ request' \in RequestSet /\ request'.stage = "notfound" /\ request'.found = {}
        /\ request'.known = request.known
    BY <1>2, <1>6, RequestFacts
  <2>2. ~request.known
    BY <1>1, <1>2, <1>6 DEF RequestInv, KnownInv
  <2>3. LookupInv' /\ KnownInv' /\ NotFoundInv' /\ Isolated'
    BY <1>1, <1>6, <2>1, <2>2 DEF LookupInv, KnownInv, NotFoundInv, Isolated
  <2> QED BY <2>1, <2>3 DEF RequestInv
<1>7. CASE request' = Ended("found", all)
  BY <1>1, <1>2, <1>3, <1>7, EndedStep
<1> QED BY <1>4, <1>5, <1>6, <1>7

(* No request, no promise. *)
LEMMA NoRequest == request = Idle => RequestInv
BY DEF RequestInv, LookupInv, KnownInv, NotFoundInv, Isolated

(* Taking a deleted object makes the request forget what it knew. *)
LEMMA TakeRequest ==
  ASSUME MapsInv, RequestInv, NEW o \in Objects, Take(o)
  PROVE  RequestInv'
<1> DEFINE c == ControllerOf(o)
           rec == [stage |-> "build", obj |-> o, spec |-> api[o], fresh |-> TRUE]
<1>1. /\ work' = [work EXCEPT ![c] = rec] /\ UNCHANGED <<focus, maps>>
      /\ request' = IF api[o] = NoSpec /\ request # Idle
                    THEN [request EXCEPT !.known = FALSE] ELSE request
  BY DEF Take
<1>2. work \in [Controllers -> {Idle} \cup Builds \cup Plans] /\ c \in Controllers
  BY ObjectFacts DEF MapsInv, TypeInv
<1>3. CASE request = Idle
  <2>1. (request = Idle)'
    BY <1>1, <1>3
  <2> QED BY <2>1, NoRequest, PTL
<1>4. CASE api[o] = NoSpec /\ request # Idle
  <2>1. request \in RequestSet /\ request' = [request EXCEPT !.known = FALSE]
    BY <1>1, <1>4 DEF RequestInv
  <2>2. /\ request' \in RequestSet /\ request'.stage = request.stage /\ request'.ns = request.ns
        /\ request'.lookup = request.lookup /\ request'.found = request.found
        /\ request'.known = FALSE
    BY <2>1 DEF RequestSet
  <2>3. LookupInv' /\ NotFoundInv' /\ Isolated'
    BY <1>1, <1>4, <2>2 DEF RequestInv, LookupInv, NotFoundInv, Isolated, MayRead
  <2>4. KnownInv'
    BY <2>2 DEF KnownInv
  <2> QED BY <2>2, <2>3, <2>4 DEF RequestInv
<1>5. CASE api[o] # NoSpec /\ request # Idle
  <2>1. rec.spec # NoSpec
    BY <1>5
  <2> HIDE DEF rec, c
  <2>2. Removing' => Removing
    BY <1>1, <1>2, <2>1 DEF Removing
  <2> QED BY <1>1, <1>5, <2>2, SameRequest
<1> QED BY <1>3, <1>4, <1>5

(* The first operation of a careful plan. *)
LEMMA CarefulHead ==
  ASSUME NEW mp, NEW o, NEW ops \in Seq(Operations), ops # <<>>, Careful(mp, ops, o),
         NEW m \in Guarded
  PROVE  /\ Head(ops).map = m => Head(ops).value # Absent
         /\ (Head(ops).map = ErrorMapOf(m) /\ Head(ops).value = Absent) => mp[m][o] # Absent
<1>1. 1 \in DOMAIN ops /\ Head(ops) = ops[1] /\ \A j \in DOMAIN ops : ~(j < 1)
  BY TailFacts
<1> QED BY <1>1 DEF Careful

(* What a request knows stays: the value is stored before the error goes. *)
LEMMA ApplyRequest ==
  ASSUME MapsInv, RequestInv, NEW c \in Controllers, Apply(c)
  PROVE  RequestInv'
<1> DEFINE w == work[c]
           o == work[c].obj
           op == Head(work[c].ops)
           l == request.lookup
<1>1. TypeInv /\ w.stage = "apply" /\ w.ops # <<>>
  BY DEF MapsInv, Apply, Working
<1>2. w # Idle /\ w \in Plans /\ o \in Objects /\ o \in Resources
  BY <1>1, WorkerFacts, ObjectFacts
<1>3. w.ops \in Seq(Operations) /\ op \in Operations
  BY <1>1, <1>2, TailFacts DEF Plans
<1>4. Sound(focus, maps, o, w.spec, w)
  BY <1>1 DEF MapsInv, PlanInv, Working
<1>5. op.at = o
  BY <1>1, <1>3, <1>4, TailFacts DEF Sound, Tidy
<1>6. /\ UNCHANGED <<focus, request>> /\ maps' = Applied(maps, op)
      /\ work' = [work EXCEPT ![c].ops = Tail(@)]
  BY DEF Apply
<1>7. \A m \in MapNames, r \in Resources :
        maps'[m][r] = IF m = op.map /\ r = o THEN op.value ELSE maps[m][r]
  BY <1>1, <1>3, <1>5, <1>6, AppliedFacts DEF TypeInv
<1>8. Removing' => Removing
  <2>1. \A d \in Controllers : d # c => work'[d] = work[d]
    BY <1>1, <1>6 DEF TypeInv
  <2>2. work'[c].spec = w.spec
    BY <1>1, <1>2, <1>6 DEF TypeInv, Plans
  <2> QED BY <1>2, <2>1, <2>2 DEF Removing
<1>9. LookupInv' /\ NotFoundInv' /\ Isolated'
  BY <1>6 DEF RequestInv, LookupInv, NotFoundInv, Isolated, MayRead
<1> HIDE DEF w, op, l
<1>10. ASSUME request # Idle, request.known, focus \in ByError,
              request.stage \in {"first", "second"}
       PROVE  /\ request.stage = "first" =>
                   maps'[l.first][l.at] # Absent \/ maps'[l.second][l.at] # Absent
              /\ request.stage = "second" => maps'[l.second][l.at] # Absent
  <2>1. /\ l.first \in MapNames /\ l.second \in MapNames /\ l.at \in Resources
        /\ l.second \in Guarded /\ l.first = ErrorMapOf(l.second)
    BY <1>10 DEF RequestInv, LookupInv, l
  <2>2. l.first # l.second
    BY <2>1 DEF Guarded, ErrorMapOf
  <2>3. /\ ~Removing
        /\ request.stage = "first" => maps[l.first][l.at] # Absent \/ maps[l.second][l.at] # Absent
        /\ request.stage = "second" => maps[l.second][l.at] # Absent
    BY <1>10 DEF RequestInv, KnownInv, l
  <2>4. w.spec # NoSpec
    BY <1>2, <2>3 DEF Removing, w
  <2>5. Careful(maps, w.ops, o)
    BY <1>4, <2>4 DEF Sound
  <2>6. /\ op.map = l.second => op.value # Absent
        /\ (op.map = l.first /\ op.value = Absent) => maps[l.second][o] # Absent
    BY <1>1, <1>3, <2>1, <2>5, CarefulHead DEF op, w
  <2> QED BY <1>7, <2>1, <2>2, <2>3, <2>6
<1>11. KnownInv'
  <2> SUFFICES ASSUME request # Idle, request.known, focus \in ByError
               PROVE  /\ ~Removing'
                      /\ request.stage = "first" =>
                           maps'[l.first][l.at] # Absent \/ maps'[l.second][l.at] # Absent
                      /\ request.stage = "second" => maps'[l.second][l.at] # Absent
                      /\ request.stage # "notfound"
    BY <1>6 DEF KnownInv, l
  <2>1. ~Removing /\ request.stage # "notfound"
    BY DEF RequestInv, KnownInv
  <2> QED BY <1>8, <1>10, <2>1
<1>12. request' \in {Idle} \cup RequestSet
  BY <1>6 DEF RequestInv
<1> QED BY <1>9, <1>11, <1>12 DEF RequestInv

(* What requests look up fits what the workers have still to do. *)
THEOREM RequestInvariant == Spec => []RequestInv
<1>1. Init => RequestInv
  BY NoRequest DEF Init
<1>2. MapsInv /\ RequestInv /\ [Next]_vars => RequestInv'
  <2> SUFFICES ASSUME MapsInv, RequestInv, [Next]_vars
               PROVE  RequestInv'
    OBVIOUS
  <2>1. TypeInv
    BY DEF MapsInv
  <2>2. ASSUME NEW o \in Objects, Edit(o) PROVE RequestInv'
    <3>1. UNCHANGED <<focus, request, maps>>
      BY <2>2 DEF Edit
    <3>2. ASSUME NEW c \in Controllers, work'[c] # Idle, work'[c].spec = NoSpec
          PROVE  work[c] # Idle /\ work[c].spec = NoSpec
      <4>1. CASE work'[c] = work[c]
        BY <3>2, <4>1
      <4>2. CASE WorksOn(o) /\ c = ControllerOf(o)
        <5>1. work'[c] = [work[c] EXCEPT !.fresh = FALSE] /\ work[c] # Idle
          BY <2>1, <2>2, <4>2 DEF Edit, WorksOn, TypeInv
        <5>2. work[c] \in Builds \cup Plans
          BY <2>1, <5>1 DEF TypeInv
        <5>3. work'[c].spec = work[c].spec
          BY <5>1, <5>2 DEF Builds, Plans
        <5> QED BY <3>2, <5>1, <5>3
      <4>3. ~(WorksOn(o) /\ c = ControllerOf(o)) => work'[c] = work[c]
        BY <2>1, <2>2 DEF Edit, TypeInv
      <4> QED BY <4>1, <4>2, <4>3
    <3>3. Removing' => Removing
      BY <3>2 DEF Removing
    <3> QED BY <3>1, <3>3, SameRequest
  <2>3. ASSUME NEW o \in Objects, Resync(o) \/ TakeFails(o) PROVE RequestInv'
    <3>1. UNCHANGED <<focus, request, maps, work>>
      BY <2>3 DEF Resync, TakeFails
    <3> QED BY <3>1, SameRequest DEF Removing
  <2>4. ASSUME NEW c \in Controllers, Build(c) PROVE RequestInv'
    <3>1. UNCHANGED <<focus, request, maps>>
      BY <2>4 DEF Build
    <3>2. work[c] # Idle
      BY <2>1, <2>4, WorkerFacts DEF Build, Working
    <3>3. work'[c].spec = work[c].spec /\ \A d \in Controllers : d # c => work'[d] = work[d]
      BY <2>1, <2>4 DEF Build, TypeInv
    <3>4. Removing' => Removing
      BY <3>2, <3>3 DEF Removing
    <3> QED BY <3>1, <3>4, SameRequest
  <2>5. ASSUME NEW c \in Controllers, Finish(c) PROVE RequestInv'
    <3>1. UNCHANGED <<focus, request, maps>> /\ work' = [work EXCEPT ![c] = Idle]
      BY <2>5 DEF Finish, Returned
    <3>2. work'[c] = Idle /\ \A d \in Controllers : d # c => work'[d] = work[d]
      BY <2>1, <3>1 DEF TypeInv
    <3>3. Removing' => Removing
      BY <3>2 DEF Removing
    <3> QED BY <3>1, <3>3, SameRequest
  <2>6. CASE End \/ Restart
    <3>1. (request = Idle)'
      BY <2>6 DEF End, Restart
    <3> QED BY <3>1, NoRequest, PTL
  <2>7. CASE UNCHANGED vars
    <3>1. UNCHANGED <<focus, request, maps, work>>
      BY <2>7 DEF vars
    <3> QED BY <3>1, SameRequest DEF Removing
  <2> QED BY <2>2, <2>3, <2>4, <2>5, <2>6, <2>7, TakeRequest, ApplyRequest, BeginStep,
             FirstLoadStep, SecondLoadStep DEF Next, Step
<1> QED BY <1>1, <1>2, MapsInvariant, PTL DEF Spec

(* No request gets a resource of another namespace, nor a mixture of its own and
   the cluster's. *)
THEOREM RequestsAreIsolated == Spec => []Isolated
<1>1. RequestInv => Isolated
  BY DEF RequestInv
<1> QED BY <1>1, RequestInvariant, PTL

(* What was known when a request began, and is not being removed, is not reported
   as missing. *)
THEOREM KnownStaysFound == Spec => []KnownIsFound
<1>1. RequestInv => KnownIsFound
  BY DEF RequestInv, KnownInv, NotFoundInv, KnownIsFound
<1> QED BY <1>1, RequestInvariant, PTL
=============================================================================
