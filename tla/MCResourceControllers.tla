------------------------ MODULE MCResourceControllers ------------------------
(* A small instance of ResourceControllers. *)
EXTENDS ResourceControllers

ClusterWide == [ns |-> "none", name |-> "ratify-policy"]
OfTeam == [ns |-> "team", name |-> "ratify-policy"]
Misplaced == [ns |-> "team", name |-> "other"]

(* A cluster-wide object and one of a namespace; a second policy in the latter. *)
TwoScopes == [kind \in Kinds |->
  CASE kind = "certstore" -> {OfTeam}
    [] kind = "policy" -> {ClusterWide, OfTeam, Misplaced}
    [] OTHER -> {ClusterWide, OfTeam}]

Params(raw, type, name) == [raw |-> raw, type |-> type, name |-> name]

(* Good specifications of each kind and the ways in which one is broken. *)
GoodAndBad == [kind \in Kinds |->
  CASE kind = "kmp" -> {Params("p1", "known", "none"), Params("p2", "known", "bad interval"),
                        Params("none", "known", "none")}
    [] kind = "certstore" -> {Params("p1", "known", "none"), Params("p2", "known", "none"),
                              Params("p1", "unknown", "none")}
    [] kind = "verifier" -> {Params("p1", "known", "none"), Params("none", "none", "known"),
                             Params("garbled", "known", "none"), Params("p1", "none", "unknown")}
    [] kind = "store" -> {Params("p1", "none", "known"), Params("none", "none", "known"),
                          Params("p1", "none", "unknown")}
    [] kind = "policy" -> {Params("p1", "known", "none"), Params("garbled", "known", "none")}]

(* The process starts with a policy of another name beside the one to come. *)
Misplacement(kind) == [o \in Objects |->
  IF kind = "policy" /\ o = Misplaced THEN Params("p1", "known", "none") ELSE NoSpec]

(* A third edit where only one object comes and goes. *)
Edits == [kind \in Kinds |-> IF kind = "certstore" THEN 3 ELSE 2]
=============================================================================
