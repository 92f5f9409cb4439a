--------------------------- MODULE ReportVerifiers ---------------------------
(***************************************************************************)
(* The verifier plugins of plugins/verifier that judge a document attached *)
(* to an image: vulnerability reports (SARIF), SBOMs (SPDX), licences and  *)
(* JSON schemas.  Each is VerifyReference of its package: an operator from *)
(* its configuration (config), the descriptor (desc) of the reference and  *)
(* what the store holds (manifest) to "accepted", "rejected" or "error".   *)
(*                                                                         *)
(*   desc     - type, annotations (from names to [valid, age]);            *)
(*   manifest - fetched, blobs; a blob has fetched, media (its media type, *)
(*              which is also the schema it satisfies), parses and the     *)
(*              document: runs of a scanner, or packages.                  *)
(***************************************************************************)
EXTENDS Integers, Sequences

CONSTANT LowerCase     \* a function from upper-case words to lower-case ones

Lower(word) == IF word \in DOMAIN LowerCase THEN LowerCase[word] ELSE word
Elements(seq) == {seq[i] : i \in DOMAIN seq}
Verdict(condition) == IF condition THEN "accepted" ELSE "rejected"

-----------------------------------------------------------------------------
(* Vulnerability reports: the first blob, and in it the first run. *)
DefaultCreatedAnnotation == "created"
CreatedAnnotationName(config) ==
  IF config.annotation = "none" THEN DefaultCreatedAnnotation ELSE config.annotation

extractCreationTimestamp(name, desc) ==
  name \in DOMAIN desc.annotations /\ desc.annotations[name].valid

(* "none" is no limit; time.Since is negative for a report from the future. *)
validateMaximumAge(config, age) == config.maximumAge.parses /\ age <= config.maximumAge.limit

(* A schema of the configuration's own or the embedded one. *)
verifyJSONSchema(config, desc, blob) ==
  /\ desc.type = "sarif"
  /\ IF config.schemaURL # "none" THEN config.schemaURL = blob.media ELSE blob.media = "sarif"

Results(report) == Elements(report.runs[1].results)

(* Rules are kept by id: of several with one id the last one counts. *)
RuleOf(report, id) ==
  LET rules == report.runs[1].rules
      same == {i \in DOMAIN rules : rules[i].id = id}
  IN rules[CHOOSE i \in same : \A j \in same : j <= i]
HasRule(report, id) == \E i \in DOMAIN report.runs[1].rules : report.runs[1].rules[i].id = id

verifyDenyListCVEs(report, denylist) ==
  /\ "none" \notin Results(report)
  /\ {Lower(id) : id \in Results(report)} \cap {Lower(cve) : cve \in denylist} = {}

(* The severity is in the help text, for two scanners only. *)
extractSeverity(scanner, rule) ==
  IF scanner \in {"trivy", "grype"} /\ rule.severity # "none" THEN {Lower(rule.severity)} ELSE {}

(* The bug of passing over a result whose rule is not found. *)
Judged_SkipsUnknown(report, id, disallowed) ==
  ~HasRule(report, id)
    \/ extractSeverity(Lower(report.runs[1].scanner), RuleOf(report, id))
         \notin {{}} \cup {{Lower(s)} : s \in disallowed}

Judged(report, id, disallowed) ==
  /\ id # "none" /\ HasRule(report, id)
  /\ extractSeverity(Lower(report.runs[1].scanner), RuleOf(report, id))
       \notin {{}} \cup {{Lower(s)} : s \in disallowed}

verifyDisallowedSeverities(report, disallowed) ==
  \A id \in Results(report) : Judged(report, id, disallowed)

processSarifReport(config, report) ==
  /\ report.parses /\ report.runs # <<>>
  /\ config.denylist # {} => verifyDenyListCVEs(report, config.denylist)
  /\ config.disallowed # {} => verifyDisallowedSeverities(report, config.disallowed)

VerifyVulnerabilities(config, desc, manifest) ==
  LET name == CreatedAnnotationName(config)
      blob == manifest.blobs[1]
  IN IF ~config.parses THEN "error"
     ELSE Verdict(/\ extractCreationTimestamp(name, desc)
                  /\ config.maximumAge.given => validateMaximumAge(config, desc.annotations[name].age)
                  /\ manifest.fetched /\ manifest.blobs # <<>> /\ blob.fetched
                  /\ \/ config.passthrough
                     \/ verifyJSONSchema(config, desc, blob) /\ processSarifReport(config, blob))

-----------------------------------------------------------------------------
(* SBOMs.  A licence expression is the set of its words. *)
ContainsLicense(expression, disallowed) == disallowed \in {Lower(w) : w \in expression}
GetPackageLicenses(doc) == Elements(doc.packages)

loadDisallowedPackagesMap(packages) ==
  [infos |-> packages, names |-> {p.name : p \in {q \in packages : q.version = "none"}}]

filterDisallowedPackages(packages, licenses, map) ==
  {p \in packages :
     \/ \E l \in licenses : ContainsLicense(p.license, Lower(l))
     \/ p.name \in map.names
     \/ [name |-> p.name, version |-> p.version] \in map.infos}

getViolations(doc, licenses, packages) ==
  filterDisallowedPackages(GetPackageLicenses(doc), licenses, loadDisallowedPackagesMap(packages))

processSpdxJSONMediaType(config, blob) ==
  /\ blob.parses
  /\ (config.licenses # {} \/ config.packages # {}) =>
       getViolations(blob, config.licenses, config.packages) = {}

(* The loop over the blobs returns from its first turn. *)
VerifySbom(config, desc, manifest) ==
  IF ~config.parses THEN "error"
  ELSE Verdict(/\ manifest.fetched /\ manifest.blobs # <<>>
               /\ manifest.blobs[1].fetched
               /\ desc.type = "spdx" /\ processSpdxJSONMediaType(config, manifest.blobs[1]))

-----------------------------------------------------------------------------
(***************************************************************************)
(* Licences and schemas: every blob in turn, the first one that cannot be  *)
(* fetched is an error, the first one that is not allowed a rejection.     *)
(***************************************************************************)
FilterPackageLicenses(packages, allowed) == {p \in packages : p.license \notin allowed}

EachBlob(judged) ==
  LET stop == {i \in DOMAIN judged : judged[i] # "accepted"}
  IN IF stop = {} THEN "accepted" ELSE judged[CHOOSE i \in stop : \A j \in stop : i <= j]

VerifyLicenses(config, desc, manifest) ==
  LET Judge(blob) == IF ~blob.fetched \/ ~blob.parses THEN "error"
                     ELSE Verdict(FilterPackageLicenses(GetPackageLicenses(blob), config.allowed) = {})
  IN IF ~config.parses \/ ~manifest.fetched THEN "error"
     ELSE IF manifest.blobs = <<>> THEN "rejected"
     ELSE EachBlob([i \in DOMAIN manifest.blobs |-> Judge(manifest.blobs[i])])

processMediaType(schemas, blob) == blob.media \in DOMAIN schemas /\ schemas[blob.media] = blob.content

VerifySchemas(config, desc, manifest) ==
  LET Judge(blob) == IF ~blob.fetched THEN "error"
                     ELSE Verdict(processMediaType(config.schemas, blob))
  IN IF ~config.parses \/ ~manifest.fetched THEN "error"
     ELSE IF manifest.blobs = <<>> THEN "rejected"
     ELSE EachBlob([i \in DOMAIN manifest.blobs |-> Judge(manifest.blobs[i])])
=============================================================================
