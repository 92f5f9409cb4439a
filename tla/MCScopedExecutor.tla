-------------------------- MODULE MCScopedExecutor --------------------------
(***************************************************************************)
(* Every short list of option groups over a small set of scopes, and the   *)
(* references that tell the scopes apart.                                  *)
(***************************************************************************)
EXTENDS ScopedBuild

CONSTANT MaxGroups    \* most groups of options in one configuration

Scope(host, path) == [host |-> host, path |-> path, ref |-> FALSE, parses |-> TRUE]

Scopes ==
  { Scope(<<"a", "ex">>, "r"),               \* a.ex/r
    Scope(<<"a", "ex">>, "none"),            \* a.ex
    Scope(<<"*", "ex">>, "none"),            \* *.ex
    Scope(<<"*", "a", "ex">>, "none"),       \* *.a.ex
    Scope(<<"*", "*", "ex">>, "none"),       \* *.*.ex
    Scope(<<"a", "*">>, "none"),             \* a.*
    Scope(<<"*", "ex">>, "r"),               \* *.ex/r
    Scope(<<"*">>, "none"),                  \* *
    [Scope(<<>>, "none") EXCEPT !.parses = FALSE] } \* the empty scope

BadScopes ==
  { [Scope(<<"a", "ex">>, "r") EXCEPT !.ref = TRUE],    \* a.ex/r:tag
    [Scope(<<"b", "ex">>, "r") EXCEPT !.parses = FALSE] }

ReferencesToTry ==
  { Scope(h, p) : h \in { <<"ex">>, <<"a", "ex">>, <<"b", "ex">>, <<"a", "a", "ex">>,
                          <<"b", "a", "ex">>, <<"c", "b", "a", "ex">> },
                  p \in { "r", "q" } }
  \cup { [Scope(<<"a", "ex">>, "r") EXCEPT !.parses = FALSE] }

Notation == [name |-> "n", type |-> "notation", creates |-> TRUE, policies |-> <<>>]
TrustPolicy(scopes) == [scopes |-> scopes, creates |-> TRUE]
Cosign(policies) == [name |-> "c", type |-> "cosign", creates |-> TRUE, policies |-> policies]
Store(scopes) == [type |-> "registry-store", scopes |-> scopes, creates |-> TRUE]
NoPolicy == [given |-> FALSE, type |-> "none", creates |-> FALSE]
Threshold == [given |-> TRUE, type |-> "threshold-policy", creates |-> TRUE]

Group(scopes, verifiers, stores, policy) ==
  [scopes |-> scopes, verifiers |-> verifiers, stores |-> stores, policy |-> policy]

(* Well-built plugin choices: one store for the group's scopes, or two with their own. *)
Plugins(scopes) ==
  { Group(scopes, <<Notation>>, <<Store(<<>>)>>, NoPolicy),
    Group(scopes, <<Cosign(<<TrustPolicy(<<>>)>>), Notation>>, <<Store(<<>>)>>, Threshold),
    Group(scopes, <<Cosign(<<TrustPolicy(<<Scope(<<"d", "ex">>, "none")>>), TrustPolicy(<<>>)>>)>>,
          <<Store(<<>>)>>, NoPolicy),
    Group(scopes, <<Notation>>, <<Store(<<Scope(<<"a", "ex">>, "none")>>),
                                  Store(<<Scope(<<"*", "ex">>, "none")>>)>>, NoPolicy) }

FreshScope == Scope(<<"b", "ex">>, "none")

(* One group per way for a plugin to be refused. *)
Refused ==
  LET G(v, s, p) == Group(<<FreshScope>>, v, s, p)
  IN { G(<<>>, <<Store(<<>>)>>, NoPolicy),
       G(<<[Notation EXCEPT !.name = "none"]>>, <<Store(<<>>)>>, NoPolicy),
       G(<<[Notation EXCEPT !.type = "sbom"]>>, <<Store(<<>>)>>, NoPolicy),
       G(<<[Notation EXCEPT !.creates = FALSE]>>, <<Store(<<>>)>>, NoPolicy),
       G(<<Cosign(<<>>)>>, <<Store(<<>>)>>, NoPolicy),
       G(<<Cosign(<<TrustPolicy(<<>>), TrustPolicy(<<>>)>>)>>, <<Store(<<>>)>>, NoPolicy),
       G(<<Cosign(<<[TrustPolicy(<<>>) EXCEPT !.creates = FALSE]>>)>>, <<Store(<<>>)>>, NoPolicy),
       G(<<Notation>>, <<>>, NoPolicy),
       G(<<Notation>>, <<Store(<<>>), Store(<<Scope(<<"a", "ex">>, "none")>>)>>, NoPolicy),
       G(<<Notation>>, <<[Store(<<>>) EXCEPT !.creates = FALSE]>>, NoPolicy),
       G(<<Notation>>, <<Store(<<>>)>>, [Threshold EXCEPT !.type = "rego"]) }

ScopeLists == {<<>>} \cup {<<s>> : s \in Scopes \cup BadScopes} \cup (Scopes \X Scopes)

Groups == (UNION {Plugins(sl) : sl \in ScopeLists}) \cup Refused

Lists == UNION {[1..n -> Groups] : n \in 0..MaxGroups}
=============================================================================
