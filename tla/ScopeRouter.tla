----------------------------- MODULE ScopeRouter -----------------------------
(***************************************************************************)
(* The scope table of internal/executor/executor.go: three Go maps         *)
(* (repository, registry, wildcard) from a scope to an executor, the       *)
(* functions that register a scope in them and the one that routes an      *)
(* artifact through them.  The Cosign verifier and the store multiplexer   *)
(* keep tables of the same shape.                                          *)
(*                                                                         *)
(* A host name is the sequence of its dot-separated labels.  The label "*" *)
(* stands for the wildcard character: the code counts the stars and looks  *)
(* for the prefix "*.", so a star glued to other characters behaves like a *)
(* star label that is not first.  A scope or an artifact is a record       *)
(*   host   - its labels;                                                  *)
(*   path   - its repository path, "none" when the string has no slash;    *)
(*   ref    - whether a tag or a digest follows the path;                  *)
(*   parses - whether the registry library accepts the string.             *)
(***************************************************************************)
EXTENDS Naturals, Sequences, FiniteSets

RepositoryKey(host, path) == <<"repository", host, path>>
RegistryKey(host) == <<"registry", host, "none">>
WildcardKey(suffix) == <<"wildcard", suffix, "none">>

(***************************************************************************)
(* The three maps as one function whose keys say which map they belong to. *)
(***************************************************************************)
EmptyTable == [k \in {} |-> {}]

(* What a registration returns: the error, if any, and the table it leaves. *)
Registered(t) == [ok |-> TRUE, table |-> t]
Rejected(t) == [ok |-> FALSE, table |-> t]

Extend(t, key, e) == [k \in DOMAIN t \cup {key} |-> IF k = key THEN e ELSE t[k]]

(* The bug of overwriting an entry in place of refusing the duplicate. *)
InsertNew_Overwrites(t, key, e) == Registered(Extend(t, key, e))

(* A map assignment behind the "already registered" test. *)
InsertNew(t, key, e) ==
  IF key \in DOMAIN t THEN Rejected(t) ELSE Registered(Extend(t, key, e))

Stars(host) == Cardinality({i \in DOMAIN host : host[i] = "*"})

(* registerRepository refuses stars, unparsable scopes, tags and digests. *)
registerRepository(t, s, e) ==
  IF Stars(s.host) > 0 \/ s.path = "*" \/ ~s.parses \/ s.ref
  THEN Rejected(t)
  ELSE InsertNew(t, RepositoryKey(s.host, s.path), e)

(***************************************************************************)
(* registerRegistry: an exact registry, or a wildcard that must be the     *)
(* first label of a longer name; the wildcard map is keyed by the rest.    *)
(***************************************************************************)
registerRegistry(t, s, e) ==
  CASE ~s.parses -> Rejected(t)
    [] s.parses /\ Stars(s.host) = 0 -> InsertNew(t, RegistryKey(s.host), e)
    [] s.parses /\ Stars(s.host) = 1 ->
         IF Len(s.host) > 1 /\ s.host[1] = "*"
         THEN InsertNew(t, WildcardKey(Tail(s.host)), e)
         ELSE Rejected(t)
    [] OTHER -> Rejected(t)

(***************************************************************************)
(* registerExecutor refuses the empty scope and chooses the map by the     *)
(* presence of a slash.                                                    *)
(***************************************************************************)
EmptyScope(s) == s.host = <<>> /\ s.path = "none"

registerExecutor(t, s, e) ==
  IF EmptyScope(s) THEN Rejected(t)
  ELSE IF s.path # "none" THEN registerRepository(t, s, e)
  ELSE registerRegistry(t, s, e)

Found(e) == [ok |-> TRUE, target |-> e]
NotFound == [ok |-> FALSE]

(* The bug of looking for the registry before the repository. *)
matchExecutor_RegistryFirst(t, a) ==
  IF ~a.parses THEN NotFound
  ELSE IF RegistryKey(a.host) \in DOMAIN t THEN Found(t[RegistryKey(a.host)])
  ELSE IF RepositoryKey(a.host, a.path) \in DOMAIN t
       THEN Found(t[RepositoryKey(a.host, a.path)])
  ELSE IF Len(a.host) > 1 /\ WildcardKey(Tail(a.host)) \in DOMAIN t
       THEN Found(t[WildcardKey(Tail(a.host))])
  ELSE NotFound

(***************************************************************************)
(* matchExecutor: exact repository, then exact registry, then the wildcard *)
(* entry for the name with its first label cut off.                        *)
(***************************************************************************)
matchExecutor(t, a) ==
  IF ~a.parses THEN NotFound
  ELSE IF RepositoryKey(a.host, a.path) \in DOMAIN t
       THEN Found(t[RepositoryKey(a.host, a.path)])
  ELSE IF RegistryKey(a.host) \in DOMAIN t THEN Found(t[RegistryKey(a.host)])
  ELSE IF Len(a.host) > 1 /\ WildcardKey(Tail(a.host)) \in DOMAIN t
       THEN Found(t[WildcardKey(Tail(a.host))])
  ELSE NotFound

-----------------------------------------------------------------------------
(***************************************************************************)
(* What a scope means, said without tables: the reference that the runs    *)
(* and the proofs hold the functions above against.                        *)
(***************************************************************************)
StarFree(host) == \A i \in DOMAIN host : host[i] # "*"
StarFirst(host) ==
  Len(host) > 1 /\ \A i \in DOMAIN host : (host[i] = "*") <=> (i = 1)

(* The scopes and artifacts the registry library can hand over: a tag or a
   digest follows a path, and a string that parses names a host. *)
ScopeStrings ==
  {s \in [host : Seq(STRING), path : STRING, ref : BOOLEAN, parses : BOOLEAN] :
     (s.ref => s.path # "none") /\ (s.parses => s.host # <<>>)}

(* A reference names a repository, and its host has no star. *)
References == {a \in ScopeStrings : a.parses => a.path # "none" /\ StarFree(a.host)}

(* A repository without stars, a registry without stars, or a registry whose
   first label, and no other, is a star. *)
Legal(s) ==
  /\ s.parses /\ ~s.ref /\ s.host # <<>>
  /\ IF s.path # "none" THEN StarFree(s.host) /\ s.path # "*"
     ELSE StarFree(s.host) \/ StarFirst(s.host)

(* The documented meaning: "*.ex" stands for every subdomain of ex, however
   many labels it has in front. *)
Covers(s, a) ==
  /\ s.path \in {"none", a.path}
  /\ \/ s.host = a.host
     \/ /\ StarFirst(s.host) /\ Len(a.host) >= Len(s.host)
        /\ \A i \in 2..Len(s.host) : s.host[i] = a.host[i + Len(a.host) - Len(s.host)]

Specificity(s) == IF s.path # "none" THEN 3 ELSE IF s.host[1] # "*" THEN 2 ELSE 1

(* A repository before a registry before a wildcard, the longer wildcard first. *)
MoreSpecific(s, u) ==
  \/ Specificity(s) > Specificity(u)
  \/ Specificity(s) = Specificity(u) /\ Len(s.host) > Len(u.host)

(* Of lists of scopes, every scope is legal and in one place of one list. *)
LegalClaims(lists) ==
  \A i \in DOMAIN lists : \A j \in DOMAIN lists[i] :
    /\ Legal(lists[i][j])
    /\ \A k \in DOMAIN lists : \A l \in DOMAIN lists[k] :
         lists[k][l] = lists[i][j] => k = i /\ l = j
=============================================================================
