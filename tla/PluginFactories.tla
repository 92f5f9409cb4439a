--------------------------- MODULE PluginFactories ---------------------------
(***************************************************************************)
(* The factories an executor is assembled from: verifiers                  *)
(* (internal/verifier/factory.go, cosign/register.go), the multiplexed     *)
(* store (internal/store/factory.go) and the policy enforcer               *)
(* (internal/policyenforcer/factory.go).                                   *)
(*                                                                         *)
(* What a plugin's own constructor does with its parameters is one bit,    *)
(* "creates".  Options are records:                                        *)
(*   verifier - name, type, creates, policies (Cosign's trust policies,    *)
(*              each with scopes and creates);                             *)
(*   store    - type, scopes, creates;                                     *)
(*   policy   - given (the Go pointer is not nil), type, creates.          *)
(* A factory returns [ok, val]; val is left out with an error.             *)
(***************************************************************************)
EXTENDS ScopeRouter, SequencesExt

Made(v) == [ok |-> TRUE, val |-> v]
Failed == [ok |-> FALSE]

(* The types registered by the packages the provider's main imports. *)
VerifierTypes == {"cosign", "notation"}
StoreTypes == {"registry-store", "filesystem-oci-store"}
PolicyTypes == {"threshold-policy"}

(* Runs Do on every element until one fails, as a Go loop with early return. *)
UntilFailure(Do(_, _), start, seq) ==
  LET after[i \in 0..Len(seq)] ==
        IF i = 0 THEN start
        ELSE IF after[i - 1].ok THEN Do(after[i - 1], seq[i]) ELSE after[i - 1]
  IN after[Len(seq)]

-----------------------------------------------------------------------------
(***************************************************************************)
(* The Cosign verifier's own scope table: registerVerifier and             *)
(* matchVerifier repeat the executor's rules.                              *)
(***************************************************************************)
registerVerifier(t, s, v) == registerExecutor(t, s, v)

(* The bug of a router that forgets the wildcard map. *)
matchVerifier_NoWildcard(t, a) ==
  matchExecutor([k \in {x \in DOMAIN t : x[1] # "wildcard"} |-> t[k]], a)

matchVerifier(t, a) == matchExecutor(t, a)

(***************************************************************************)
(* NewVerifier of cosign/register.go: every trust policy is registered     *)
(* under its own scopes, or under the executor's when it has none.         *)
(***************************************************************************)
PolicyScopes(policy, globalScopes) ==
  IF policy.scopes = <<>> THEN globalScopes ELSE policy.scopes

AddTrustPolicy(acc, policy, globalScopes) ==
  IF ~policy.creates THEN Rejected(acc.table)
  ELSE UntilFailure(LAMBDA a, s : registerVerifier(a.table, s, policy),
                    acc, PolicyScopes(policy, globalScopes))

newCosignVerifier(opt, globalScopes) ==
  LET built == UntilFailure(LAMBDA a, p : AddTrustPolicy(a, p, globalScopes),
                            Registered(EmptyTable), opt.policies)
  IN IF opt.policies # <<>> /\ opt.creates /\ built.ok
     THEN Made([type |-> "cosign", routes |-> built.table])
     ELSE Failed

(* New of verifier/factory.go: the type picks the constructor. *)
newVerifier(opt, globalScopes) ==
  IF opt.name = "none" \/ opt.type \notin VerifierTypes THEN Failed
  ELSE IF opt.type = "cosign" THEN newCosignVerifier(opt, globalScopes)
  ELSE IF opt.creates THEN Made([type |-> opt.type, routes |-> EmptyTable])
  ELSE Failed

(* NewVerifiers: at least one, and all of them or none. *)
NewVerifiers(opts, globalScopes) ==
  LET made == [i \in DOMAIN opts |-> newVerifier(opts[i], globalScopes)]
  IN IF opts # <<>> /\ \A i \in DOMAIN opts : made[i].ok
     THEN Made([i \in DOMAIN opts |-> made[i].val])
     ELSE Failed

-----------------------------------------------------------------------------
(* External: ratify.StoreMux, which registers and matches like the executor. *)
StoreMuxRegister(t, s, store) == registerExecutor(t, s, store)
StoreMuxMatch(t, a) == matchExecutor(t, a)

newStore(opt) == opt.type \in StoreTypes /\ opt.creates

(***************************************************************************)
(* New of store/factory.go.  Several stores share no global scopes, so     *)
(* each of them must bring its own.                                        *)
(***************************************************************************)
StoreScopes(opts, i, globalScopes) ==
  IF opts[i].scopes # <<>> THEN opts[i].scopes
  ELSE IF Len(opts) > 1 THEN <<>> ELSE globalScopes

AddStore(acc, opts, i, globalScopes) ==
  IF StoreScopes(opts, i, globalScopes) = <<>> \/ ~newStore(opts[i])
  THEN Rejected(acc.table)
  ELSE UntilFailure(LAMBDA a, s : StoreMuxRegister(a.table, s, opts[i]),
                    acc, StoreScopes(opts, i, globalScopes))

NewStore(opts, globalScopes) ==
  LET built == UntilFailure(LAMBDA a, i : AddStore(a, opts, i, globalScopes),
                            Registered(EmptyTable),
                            [i \in DOMAIN opts |-> i])
  IN IF opts # <<>> /\ built.ok THEN Made(built.table) ELSE Failed

-----------------------------------------------------------------------------
(* New of policyenforcer/factory.go, called only when a policy is given. *)
PolicyMade(policy) ==
  ~policy.given \/ (policy.type \in PolicyTypes /\ policy.creates)

-----------------------------------------------------------------------------
(***************************************************************************)
(* Which options are usable, said without tables.                          *)
(***************************************************************************)
TrustPolicyOptions == [scopes : Seq(ScopeStrings), creates : BOOLEAN]
VerifierOptions == [name : STRING, type : STRING, creates : BOOLEAN,
                    policies : Seq(TrustPolicyOptions)]
StoreOptions == [type : STRING, scopes : Seq(ScopeStrings), creates : BOOLEAN]
PolicyOptions == [given : BOOLEAN, type : STRING, creates : BOOLEAN]

LegalVerifier(opt, globalScopes) ==
  /\ opt.name # "none" /\ opt.type \in VerifierTypes /\ opt.creates
  /\ opt.type = "cosign" =>
       /\ opt.policies # <<>>
       /\ \A i \in DOMAIN opt.policies : opt.policies[i].creates
       /\ LegalClaims([i \in DOMAIN opt.policies |->
                         PolicyScopes(opt.policies[i], globalScopes)])

LegalStores(opts, globalScopes) ==
  /\ opts # <<>>
  /\ \A i \in DOMAIN opts : newStore(opts[i]) /\ StoreScopes(opts, i, globalScopes) # <<>>
  /\ LegalClaims([i \in DOMAIN opts |-> StoreScopes(opts, i, globalScopes)])
=============================================================================
