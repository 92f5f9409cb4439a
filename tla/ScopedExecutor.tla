--------------------------- MODULE ScopedExecutor ---------------------------
(***************************************************************************)
(* NewScopedExecutor of internal/executor/executor.go: builds the plugins  *)
(* of every group of options and registers the resulting executor under    *)
(* every scope of the group, giving up at the first error.                 *)
(* A group of options is a record scopes, verifiers, stores, policy.       *)
(***************************************************************************)
EXTENDS PluginFactories

(* newExecutor: verifiers, then the store, then the policy. *)
newExecutor(opt) ==
  LET verifiers == NewVerifiers(opt.verifiers, opt.scopes)
      stores == NewStore(opt.stores, opt.scopes)
  IN IF verifiers.ok /\ stores.ok /\ PolicyMade(opt.policy)
     THEN Made([verifiers |-> verifiers.val, store |-> stores.val,
                options |-> opt])
     ELSE Failed

(* One turn of the loop over the groups of options. *)
AddExecutor(acc, opt) ==
  LET made == newExecutor(opt)
  IN IF opt.scopes = <<>> \/ ~made.ok THEN Rejected(acc.table)
     ELSE UntilFailure(LAMBDA a, s : registerExecutor(a.table, s, made.val),
                       acc, opt.scopes)

NewScopedExecutor(opts) ==
  LET built == UntilFailure(AddExecutor, Registered(EmptyTable), opts)
  IN IF opts # <<>> /\ built.ok THEN Made(built.table) ELSE Failed

-----------------------------------------------------------------------------
(***************************************************************************)
(* Which configurations are usable and where their artifacts go, said      *)
(* without tables and without an order: opts may have any index set.       *)
(***************************************************************************)
GroupOptions == [scopes : Seq(ScopeStrings), verifiers : Seq(VerifierOptions),
                 stores : Seq(StoreOptions), policy : PolicyOptions]

LegalGroup(opt) ==
  /\ opt.scopes # <<>> /\ opt.verifiers # <<>>
  /\ \A i \in DOMAIN opt.verifiers : LegalVerifier(opt.verifiers[i], opt.scopes)
  /\ LegalStores(opt.stores, opt.scopes)
  /\ PolicyMade(opt.policy)

LegalConfiguration(opts) ==
  /\ DOMAIN opts # {}
  /\ \A i \in DOMAIN opts : LegalGroup(opts[i])
  /\ LegalClaims([i \in DOMAIN opts |-> opts[i].scopes])

(* The scopes of opts that cover a, each as a group and a place in it. *)
Covering(opts, a) ==
  {p \in UNION {{i} \X DOMAIN opts[i].scopes : i \in DOMAIN opts} :
     a.parses /\ Covers(opts[p[1]].scopes[p[2]], a)}

(* The table sends a to the group with the one most specific covering scope; it
   has nowhere to send a only when no scope covers it but wildcards that are two
   or more labels above it. *)
RoutedByScope(table, opts, a) ==
  LET got == matchExecutor(table, a)
      At(p) == opts[p[1]].scopes[p[2]]
  IN /\ got.ok => \E p \in Covering(opts, a) :
                    /\ got.target.options = opts[p[1]]
                    /\ \A q \in Covering(opts, a) \ {p} : MoreSpecific(At(p), At(q))
     /\ ~got.ok => \A p \in Covering(opts, a) : Len(At(p).host) < Len(a.host)

(* Behind the executor that a reaches, the store and every Cosign verifier have
   a route for a if one of their options leaves its scopes to the executor. *)
RoutedInside(table, a) ==
  LET got == matchExecutor(table, a)
      opt == got.target.options
  IN got.ok =>
       /\ (\E i \in DOMAIN opt.stores : opt.stores[i].scopes = <<>>)
             => StoreMuxMatch(got.target.store, a).ok
       /\ \A i \in DOMAIN opt.verifiers :
            (/\ opt.verifiers[i].type = "cosign"
             /\ \E j \in DOMAIN opt.verifiers[i].policies :
                  opt.verifiers[i].policies[j].scopes = <<>>)
              => matchVerifier(got.target.verifiers[i].routes, a).ok
=============================================================================
