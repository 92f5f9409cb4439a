----------------------------- MODULE PolicyTrees -----------------------------
(***************************************************************************)
(* Two conversions of trees: the rules of a threshold policy, read from    *)
(* JSON (internal/policyenforcer/threshold/parse.go), and the report of a  *)
(* validation, rendered for the response (internal/httpserver/response.go).*)
(*                                                                         *)
(* A JSON value is a record with its type t ("nil" when it is missing);    *)
(* the number v of a threshold is in tenths.  A Go slice that is nil is    *)
(* the sequence <<>>.                                                      *)
(***************************************************************************)
EXTENDS Integers, Sequences

Refusal == [ok |-> FALSE]

(* A value of the wanted type, or of none. *)
parseOrNil(value, type) == value.t \in {"nil", type}

(* A conversion from float64 to int cuts off the fraction. *)
Truncated(tenths) == IF tenths >= 0 THEN tenths \div 10 ELSE -((-tenths) \div 10)

RECURSIVE parseRule(_)
parseRule(raw) ==
  LET list == IF raw.rules.t = "list" THEN raw.rules.v ELSE <<>>
      nested == [i \in DOMAIN list |->
                   IF list[i].t = "map" THEN parseRule(list[i]) ELSE Refusal]
  IN IF /\ raw.t = "map"
        /\ parseOrNil(raw.verifierName, "string")
        /\ parseOrNil(raw.threshold, "number")
        /\ parseOrNil(raw.rules, "list")
        /\ \A i \in DOMAIN list : nested[i].ok
     THEN [ok |-> TRUE,
           verifier |-> IF raw.verifierName.t = "nil" THEN "" ELSE raw.verifierName.v,
           threshold |-> IF raw.threshold.t = "nil" THEN 0 ELSE Truncated(raw.threshold.v),
           rules |-> nested]
     ELSE Refusal

(* Parameters of another Go type than a map are copied into one, if they can be;
   accepts is the judgement of NewThresholdPolicyEnforcer on the rule. *)
newThresholdPolicy(parameters) ==
  IF /\ parameters.is = "map" \/ parameters.copies
     /\ parameters.policy.t = "map" /\ parameters.accepts
  THEN parseRule(parameters.policy) ELSE Refusal

-----------------------------------------------------------------------------
(* A result that is nil, or whose detail cannot be marshalled, is rendered as nil. *)
NilResult == [nil |-> TRUE]

(* The bug of giving the reason only where there is no detail. *)
convertVerificationResult_DetailOnly(src) ==
  IF src.nil \/ src.detail = "unmarshallable" THEN NilResult
  ELSE [nil |-> FALSE, verifierName |-> src.verifier, detail |-> src.detail,
        errorReason |-> IF src.detail = "" THEN src.err ELSE ""]

convertVerificationResult(src) ==
  IF src.nil \/ src.detail = "unmarshallable" THEN NilResult
  ELSE [nil |-> FALSE, verifierName |-> src.verifier, errorReason |-> src.err, detail |-> src.detail]

RECURSIVE convertValidationReport(_)
convertValidationReport(src) ==
  IF src.nil THEN NilResult
  ELSE [nil |-> FALSE, subject |-> src.subject,
        results |-> [i \in DOMAIN src.results |-> convertVerificationResult(src.results[i])],
        artifactReports |-> [i \in DOMAIN src.artifactReports |->
                               convertValidationReport(src.artifactReports[i])]]

convertResult(src) ==
  IF src.nil THEN NilResult
  ELSE [nil |-> FALSE, succeeded |-> src.succeeded,
        artifactReports |-> [i \in DOMAIN src.artifactReports |->
                               convertValidationReport(src.artifactReports[i])]]
=============================================================================
