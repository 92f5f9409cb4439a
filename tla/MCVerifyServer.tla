--------------------------- MODULE MCVerifyServer ---------------------------
(* Small instances of VerifyServer. *)
EXTENDS VerifyServer, TLC

TwoTags == [a \in {"app", "db"} |-> "tag"]
AllForms == [a \in {"app", "pinned", "broken"} |->
  CASE a = "app" -> "tag" [] a = "pinned" -> "digest" [] a = "broken" -> "malformed"]

(* Requests with one key each, for either handler. *)
SingleKeys == {[op |-> op, keys |-> <<a>>] : op \in Ops, a \in Artifacts}

(* Key lists that overlap in opposite orders. *)
Overlapping == {[op |-> "mutate", keys |-> <<"app", "db">>],
                [op |-> "mutate", keys |-> <<"db", "app">>]}

Symmetric == Permutations(Handlers)
=============================================================================
