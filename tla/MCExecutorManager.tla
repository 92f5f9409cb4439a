------------------------- MODULE MCExecutorManager -------------------------
(***************************************************************************)
(* Specs for the small instances of ExecutorManager: one for a registry,   *)
(* one for a repository in it, and one whose verifier type is not          *)
(* registered; and requests for the repository, for its neighbour and for  *)
(* a registry nobody claims.                                               *)
(***************************************************************************)
EXTENDS ExecutorManager

Verifier(type) == [name |-> "v", type |-> type, creates |-> TRUE, policies |-> <<>>]
CRStore == [type |-> "registry-store", creates |-> TRUE]
Reference(host, path) == [host |-> host, path |-> path, ref |-> FALSE, parses |-> TRUE]
CRSpec(scope, type, stores) ==
  [scopes |-> <<scope>>, verifiers |-> <<Verifier(type)>>, stores |-> stores,
   policy |-> [given |-> FALSE, type |-> "none", creates |-> FALSE]]

SpecA == CRSpec(Reference(<<"a", "ex">>, "none"), "notation", <<CRStore>>)
SpecB == CRSpec(Reference(<<"a", "ex">>, "r"), "notation", <<CRStore>>)
SpecBad == CRSpec(Reference(<<"c", "ex">>, "none"), "sbom", <<CRStore>>)

(* Two objects clash when both use the same spec; SpecBad never builds. *)
ThreeSpecs == {SpecA, SpecB, SpecBad}

Requests == {Reference(<<"a", "ex">>, "r"), Reference(<<"a", "ex">>, "q"),
             Reference(<<"b", "ex">>, "r")}
=============================================================================
