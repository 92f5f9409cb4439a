---------------------------- MODULE ResourceMaps ----------------------------
(***************************************************************************)
(* The process-wide maps that the resource controllers fill and requests   *)
(* read: pkg/keymanagementprovider/keymanagementprovider.go (certificates, *)
(* keys and the errors met while fetching them) and pkg/customresources    *)
(* (certificate stores, verifiers, stores, policies).                      *)
(*                                                                         *)
(* A sync.Map makes each of its operations atomic, not a sequence of them. *)
(* A writer is therefore the sequence of its operations and a reader the   *)
(* pair of its loads; ResourceControllers interleaves them.                *)
(***************************************************************************)
EXTENDS Naturals, Sequences

CONSTANTS Namespaces,       \* namespaces of the cluster
          Names,            \* names of objects
          RatifyNamespace   \* {} or {the namespace in RATIFY_NAMESPACE}

EmptyNamespace == "none"    \* the empty string: the scope of cluster-wide objects
Scopes == Namespaces \cup {EmptyNamespace}
Resources == [ns : Scopes, name : Names]
RatifyPolicy == "ratify-policy"

(* An entry: what was built from spec, with the name it was added under. *)
Entry(name, spec) == [name |-> name, spec |-> spec]
Absent == [name |-> "absent"]                \* no entry
Failure == [name |-> "failure"]              \* an error kept in an error map

(* Names that the code writes "ns/name", or "name" for cluster-wide objects. *)
IsNamespacedNamed(r) == r.ns # EmptyNamespace

EmptyMaps ==
  [m \in {"certs", "keys", "certErrs", "keyErrs", "certStores", "storeErrs",
          "verifiers", "stores", "policies"} |-> [r \in Resources |-> Absent]]

(* One operation on one map. *)
Put(m, r, v) == [map |-> m, at |-> r, value |-> v]
Del(m, r) == Put(m, r, Absent)
Applied(maps, op) == [maps EXCEPT ![op.map][op.at] = op.value]

-----------------------------------------------------------------------------
(* Writers. *)

(* The bug of dropping the error before the certificates are there. *)
setCertificatesInMap_ErrorFirst(r, v) == <<Del("certErrs", r), Put("certs", r, v)>>

setCertificatesInMap(r, v) == <<Put("certs", r, v), Del("certErrs", r)>>
setKeysInMap(r, v) == <<Put("keys", r, v), Del("keyErrs", r)>>
SaveSecrets(r, v) == setKeysInMap(r, v) \o setCertificatesInMap(r, v)
SetCertificateError(r) == <<Put("certErrs", r, Failure)>>
SetKeyError(r) == <<Put("keyErrs", r, Failure)>>
DeleteResourceFromMap(r) ==
  <<Del("certs", r), Del("keys", r), Del("certErrs", r), Del("keyErrs", r)>>

CertStoreAdd(r, v) == <<Put("certStores", r, v), Del("storeErrs", r)>>
CertStoreDelete(r) == <<Del("certStores", r), Del("storeErrs", r)>>

AddVerifier(scope, name, spec) ==
  <<Put("verifiers", [ns |-> scope, name |-> name], Entry(name, spec))>>
DeleteVerifier(scope, name) == <<Del("verifiers", [ns |-> scope, name |-> name])>>
AddStore(scope, name, spec) ==
  <<Put("stores", [ns |-> scope, name |-> name], Entry(name, spec))>>
DeleteStore(scope, name) == <<Del("stores", [ns |-> scope, name |-> name])>>

(* A scope has one policy, kept with the name it was added under. *)
PolicyAt(scope) == [ns |-> scope, name |-> RatifyPolicy]
AddPolicy(scope, policyName, spec) ==
  <<Put("policies", PolicyAt(scope), Entry(policyName, spec))>>

(* The bug of deleting the scope's policy whatever its name is. *)
DeletePolicy_AnyName(maps, scope, policyName) == <<Del("policies", PolicyAt(scope))>>

DeletePolicy(maps, scope, policyName) ==
  IF maps["policies"][PolicyAt(scope)].name = policyName
  THEN <<Del("policies", PolicyAt(scope))>> ELSE <<>>

-----------------------------------------------------------------------------
(* Readers.  ns is the namespace of the request, empty for a cluster-wide one. *)

(* The bug of not looking at the namespace. *)
hasAccessToProvider_Any(ns, r) == TRUE

hasAccessToProvider(ns, r) ==
  IF ns = EmptyNamespace THEN ~IsNamespacedNamed(r)
  ELSE r.ns = ns \/ ~IsNamespacedNamed(r)

(* Unlike a provider's, a certificate store's name must be namespaced, and a
   cluster-wide request may read every store. *)
hasAccessToStore(ns, r) == ns = EmptyNamespace \/ r.ns = ns

prependNamespaceToStoreName(r) ==
  IF IsNamespacedNamed(r) THEN {r} ELSE {[r EXCEPT !.ns = n] : n \in RatifyNamespace}

(* A lookup that goes to an error map and then to a values map, of resource r. *)
ErrorThenValue(errs, vals, r) == [first |-> errs, second |-> vals, at |-> r]
Refused == [first |-> "refused"]

GetCertificatesFromMap(ns, r) ==
  IF hasAccessToProvider(ns, r) THEN ErrorThenValue("certErrs", "certs", r) ELSE Refused

GetKeysFromMap(ns, r) ==
  IF hasAccessToProvider(ns, r) THEN ErrorThenValue("keyErrs", "keys", r) ELSE Refused

GetCertsFromStore(ns, r) ==
  IF prependNamespaceToStoreName(r) = {} \/ ~hasAccessToStore(ns, r) THEN Refused
  ELSE ErrorThenValue("storeErrs", "certStores", CHOOSE p \in prependNamespaceToStoreName(r) : TRUE)

(* All the entries of a scope. *)
InScope(maps, m, scope) ==
  {r \in Resources : r.ns = scope /\ maps[m][r] # Absent}

(* A lookup that takes a scope's entries and, when there are none, the cluster's. *)
ScopeThenCluster(m, ns) == [first |-> m, second |-> m, at |-> [ns |-> ns, name |-> RatifyPolicy]]
GetVerifiers(ns) == ScopeThenCluster("verifiers", ns)
GetStores(ns) == ScopeThenCluster("stores", ns)
GetPolicy(ns) == ScopeThenCluster("policies", ns)
=============================================================================
