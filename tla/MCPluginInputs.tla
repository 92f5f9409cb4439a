--------------------------- MODULE MCPluginInputs ---------------------------
(***************************************************************************)
(* Inputs for TLC of the plugins of PluginInputs: every kind of key        *)
(* provider in every kind of trust store, CA bundles, reports, SBOMs,      *)
(* licences and schemas with their configurations, and sources and         *)
(* surroundings of every provider of credentials.  The trees of            *)
(* PolicyTrees are two more suites: the rules of a policy as JSON, and     *)
(* reports with nested reports.                                            *)
(***************************************************************************)
EXTENDS PluginInputs, PolicyTrees

-----------------------------------------------------------------------------
(* Trust: certificates c1 and c2 behind every kind of provider. *)
Item(kind, cert) == [kind |-> kind, cert |-> cert]
Items == {Item("cert", "c1"), Item("cert", "c2"), Item("bad", "none"), Item("key", "none"), Item("text", "none")}
Bundles == (UNION {[1..n -> Items] : n \in 0..2}) \cup {<<Item("text", "none"), Item("cert", "c1"), Item("text", "none")>>}

Entry(is, leads, file, reads, certs) ==
  [is |-> is, leads |-> leads, file |-> file, reads |-> reads, certs |-> certs]
Entries == {Entry("file", "none", "f1", TRUE, {"c1"}), Entry("file", "none", "f2", FALSE, {}),
            Entry("link", "file", "f1", TRUE, {"c1"}), Entry("link", "dir", "none", TRUE, {}),
            Entry("link", "nowhere", "none", TRUE, {}), Entry("dir", "none", "none", TRUE, {}),
            Entry("invalid", "none", "none", TRUE, {}), Entry("file", "none", "f3", TRUE, {"c2"})}
Paths == UNION {[1..n -> Entries] : n \in 0..2}

Secret(type, pem) == [fetched |-> TRUE, type |-> type, archive |-> "ok", pem |-> pem]
Secrets == {Secret(t, p) : t \in {"pem", "pkcs12", "other"},
              p \in {<<>>, <<Item("cert", "c1"), Item("text", "none")>>, <<Item("key", "none"), Item("cert", "c2")>>,
                     <<Item("cert", "c1"), Item("bad", "none")>>}}
           \cup {[Secret("pkcs12", <<Item("cert", "c1")>>) EXCEPT !.archive = "broken"],
                 [Secret("pem", <<Item("cert", "c1")>>) EXCEPT !.fetched = FALSE]}
Vault(secrets) == [parses |-> TRUE, vaultURL |-> "url", certificates |-> secrets, identities |-> {"managed"}]

Provider(name, options) == [name |-> name, options |-> options]
Providers ==
  {Provider("inline", [parses |-> TRUE, pem |-> b]) : b \in Bundles}
  \cup {Provider("files", [parses |-> TRUE, paths |-> <<p>>]) : p \in Paths}
  \cup {Provider("files", [parses |-> TRUE, paths |-> <<>>])}
  \cup {Provider("azurekeyvault", Vault(<<s>>)) : s \in Secrets}
  \cup {Provider("azurekeyvault", Vault(<<s, t>>)) : s, t \in Secrets}
  \cup {Provider("azurekeyvault", [Vault(<<>>) EXCEPT !.identities = {}]),
        Provider("unknown", [parses |-> TRUE])}

Few == {Provider("inline", [parses |-> TRUE, pem |-> <<Item("cert", "c1")>>]),
        Provider("files", [parses |-> TRUE, paths |-> <<<<>>>>]),
        Provider("azurekeyvault", Vault(<<Secret("pem", <<Item("cert", "c2")>>)>>))}
Option(type, providers) == [type |-> type, providers |-> providers]
OptionLists ==
  {<<Option("ca", {p})>> : p \in Providers}
  \cup {<<Option(t, ps)>> : t \in {"none", "tsa", "other"}, ps \in SUBSET Few}
  \cup {<<Option(t, ps), Option(u, qs)>> : t, u \in {"none", "ca", "tsa"}, ps, qs \in SUBSET Few}
  \cup {<<>>}
TrustInputs == {[parses |-> TRUE, scopes |-> {}, identities |-> i, certificates |-> o] :
                  i \in {{}, {"me"}}, o \in OptionLists}

-----------------------------------------------------------------------------
(* Documents. *)
Folding == [CVE |-> "cve", HIGH |-> "high", GPL |-> "gpl", Trivy |-> "trivy"]

Rule(id, severity) == [id |-> id, severity |-> severity]
Run(scanner, rules, results) == [scanner |-> scanner, rules |-> rules, results |-> results]
Blob(media, runs) == [fetched |-> TRUE, media |-> media, parses |-> TRUE, runs |-> runs,
                      packages |-> <<>>, content |-> media]
RuleLists == {<<>>, <<Rule("CVE", "HIGH")>>, <<Rule("CVE", "HIGH"), Rule("CVE", "low")>>,
              <<Rule("CVE", "none"), Rule("other", "low")>>}
ResultLists == {<<>>, <<"CVE">>, <<"none">>, <<"other", "CVE">>, <<"cve">>}
Reports == {Blob("sarif", <<Run(s, r, f)>>) : s \in {"Trivy", "unknown"}, r \in RuleLists, f \in ResultLists}
           \cup {Blob("sarif", <<>>), Blob("text", <<Run("Trivy", <<>>, <<>>)>>),
                 [Blob("sarif", <<>>) EXCEPT !.fetched = FALSE], [Blob("sarif", <<>>) EXCEPT !.parses = FALSE],
                 Blob("sarif", <<Run("Trivy", <<>>, <<>>), Run("Trivy", <<>>, <<"CVE">>)>>)}
Manifest(blobs) == [fetched |-> TRUE, blobs |-> blobs]
Described(type, age) == [type |-> type, annotations |-> [n \in {"created"} |-> [valid |-> TRUE, age |-> age]]]
Age(given, limit) == [given |-> given, parses |-> TRUE, limit |-> limit]
Scan(age, denylist, disallowed, pass) ==
  [parses |-> TRUE, annotation |-> "none", maximumAge |-> age, schemaURL |-> "none", passthrough |-> pass,
   denylist |-> denylist, disallowed |-> disallowed]
Scans == {Scan(a, d, s, p) : a \in {Age(FALSE, 0), Age(TRUE, 1)}, d \in SUBSET {"cve"},
            s \in SUBSET {"high", "low"}, p \in BOOLEAN}
         \cup {[Scan(Age(FALSE, 0), {}, {}, FALSE) EXCEPT !.annotation = "other"],
               [Scan(Age(FALSE, 0), {}, {}, FALSE) EXCEPT !.schemaURL = "text"],
               [Scan(Age(FALSE, 0), {}, {}, FALSE) EXCEPT !.parses = FALSE]}
ScanInputs ==
  {[config |-> c, desc |-> Described("sarif", a), manifest |-> Manifest(<<b>>)] :
     c \in Scans, a \in {1, 2}, b \in Reports}
  \cup {[config |-> Scan(Age(FALSE, 0), {}, {}, FALSE), desc |-> d, manifest |-> m] :
          d \in {Described("other", 0), [Described("sarif", 0) EXCEPT !.annotations = [n \in {} |-> 0]]},
          m \in {Manifest(<<>>), [Manifest(<<>>) EXCEPT !.fetched = FALSE], Manifest(<<Blob("sarif", <<>>)>>)}}

Package(name, version, license) == [name |-> name, version |-> version, license |-> license]
Packages == {Package(n, v, l) : n \in {"p", "q"}, v \in {"1", "2"}, l \in {{"GPL", "OR", "mit"}, {"mit"}}}
Sbom(packages) == [Blob("spdx", <<>>) EXCEPT !.packages = packages]
Sboms == {Sbom(ps) : ps \in UNION {[1..n -> Packages] : n \in 0..2}}
         \cup {[Sbom(<<>>) EXCEPT !.parses = FALSE], [Sbom(<<>>) EXCEPT !.fetched = FALSE]}
SbomConfigs == {[parses |-> TRUE, licenses |-> l, packages |-> p] : l \in SUBSET {"gpl", "apache"},
             p \in SUBSET {[name |-> "p", version |-> "none"], [name |-> "q", version |-> "1"]}}
SbomInputs == {[config |-> c, desc |-> Described(t, 0), manifest |-> Manifest(<<b>>)] :
                 c \in SbomConfigs, t \in {"spdx", "other"}, b \in Sboms}

Allowed == {[parses |-> TRUE, allowed |-> a] : a \in SUBSET {{"mit"}, {"GPL", "OR", "mit"}}}
FewSboms == {Sbom(<<>>), Sbom(<<Package("p", "1", {"mit"})>>), Sbom(<<Package("q", "1", {"GPL", "OR", "mit"})>>),
             [Sbom(<<>>) EXCEPT !.parses = FALSE], [Sbom(<<>>) EXCEPT !.fetched = FALSE]}
LicenseInputs == {[config |-> c, desc |-> Described("spdx", 0), manifest |-> Manifest(bs)] :
                    c \in Allowed, bs \in UNION {[1..n -> FewSboms] : n \in 0..2}}

Schemas == {[parses |-> TRUE, schemas |-> s] : s \in {[m \in {} |-> "none"], [m \in {"text"} |-> "text"]}}
SchemaBlobs == {Blob("text", <<>>), Blob("sarif", <<>>), [Blob("text", <<>>) EXCEPT !.content = "other"],
                [Blob("text", <<>>) EXCEPT !.fetched = FALSE]}
SchemaInputs == {[config |-> c, desc |-> Described("text", 0), manifest |-> Manifest(bs)] :
                   c \in Schemas, bs \in UNION {[1..n -> SchemaBlobs] : n \in 0..2}}

-----------------------------------------------------------------------------
(* CA bundles, beside every kind of credential option. *)
Static == [given |-> TRUE, provider |-> "static", parses |-> TRUE]
CredentialOptions == {Static, [Static EXCEPT !.parses = FALSE], [Static EXCEPT !.provider = "azure"],
                      [Static EXCEPT !.provider = "none"], [Static EXCEPT !.given = FALSE]}
InBase64(given, decodes, pem) == [given |-> given, decodes |-> decodes, pem |-> pem]
StoreInputs ==
  {[parses |-> TRUE, caPem |-> a, caBase64 |-> b, credential |-> Static] : a \in Bundles,
     b \in {InBase64(FALSE, TRUE, <<>>), InBase64(TRUE, FALSE, <<>>)}
           \cup {InBase64(TRUE, TRUE, p) : p \in Bundles}}
  \cup {[parses |-> p, caPem |-> <<>>, caBase64 |-> InBase64(FALSE, TRUE, <<>>), credential |-> c] :
          p \in BOOLEAN, c \in CredentialOptions}

-----------------------------------------------------------------------------
(* Credentials: registries of every form, two of them with six labels. *)
Artifact(host, url, acr, instance) == [host |-> host, url |-> url, acr |-> acr, instance |-> instance]
A == <<"a", "io">>
B == <<"b", "io">>
EcrHost == <<"account", "dkr", "ecr", "west", "amazonaws", "com">>
SixLabels == <<"one", "two", "three", "four", "b", "io">>
AcrHost == <<"x-registry", "east", "cr", "aliyuncs", "com">>
Plain == Artifact(A, FALSE, FALSE, "none")
WithScheme == Artifact(EcrHost, TRUE, TRUE, "none")
Acr(instance) == Artifact(AcrHost, FALSE, TRUE, instance)

Auths(hosts) == [h \in hosts |-> h]
File(state, hosts) == [state |-> state, auths |-> Auths(hosts)]
PullSecret(state, type, hosts) ==
  [state |-> state, type |-> type, json |-> type = "dockerconfigjson", auths |-> Auths(hosts)]
SecretsOf == [own |-> PullSecret("ok", "dockerconfigjson", {A, B}),
              foreign |-> PullSecret("ok", "dockerconfigjson", {B}),
              old |-> PullSecret("ok", "dockercfg", {A}),
              opaque |-> PullSecret("ok", "opaque", {}),
              broken |-> PullSecret("broken", "dockerconfigjson", {}),
              missing |-> PullSecret("missing", "none", {}),
              unreachable |-> PullSecret("unreachable", "none", {})]
Account(pull) == [state |-> "ok", pull |-> pull]
NoAccount == [state |-> "unreachable", pull |-> <<>>]

AllVariables == AwsVariables \cup acrVariables
                \cup {"RATIFY_NAMESPACE", "ALIBABA_CLOUD_ACR_INSTANCE_ID"}
Env(names) == [n \in names |-> CASE n = "AWS_REGION" -> "north"
                                 [] n = "ALIBABA_CLOUD_ACR_INSTANCE_ID" -> "env id"
                                 [] OTHER -> "set"]
World(docker, account, names, cloud) ==
  [docker |-> docker, cluster |-> TRUE, secrets |-> SecretsOf, account |-> account,
   env |-> Env(names), cloud |-> cloud]
Rich == World(File("ok", {A}), Account(<<"own">>), AllVariables, <<60, 60>>)
Poor == World(File("absent", {}), NoAccount, {}, <<0, 0>>)

Conf(name) == [name |-> name, parses |-> TRUE, path |-> "none", secrets |-> <<>>,
               instances |-> [i \in {} |-> "none"], defaultID |-> "none"]
Setting(conf, artifact, world) ==
  [source |-> [given |-> TRUE, conf |-> conf, artifact |-> artifact], world |-> world]

Docker == {Setting([Conf("dockerConfig") EXCEPT !.path = p], a, [Rich EXCEPT !.docker = d]) :
             p \in {"none", "given"}, a \in {Plain, WithScheme},
             d \in {File("absent", {}), File("broken", {}), File("ok", {A}), File("ok", {B}),
                   [File("ok", {}) EXCEPT !.auths = [h \in {A} |-> Nobody]]}}
Names == DOMAIN SecretsOf
Kubernetes == {Setting([Conf("k8Secrets") EXCEPT !.secrets = s], Plain, [Rich EXCEPT !.account = a]) :
                 s \in {<<>>} \cup {<<n>> : n \in Names} \cup {<<"foreign", "own">>},
                 a \in {NoAccount, Account(<<"own">>), Account(<<"foreign">>),
                        Account(<<"old", "own">>), Account(<<"opaque", "missing", "own">>)}}
Aws == {Setting(Conf("awsEcrBasic"), a, [Rich EXCEPT !.cloud = l, !.env = Env(e)]) :
          a \in {Plain, Artifact(EcrHost, FALSE, FALSE, "none"), Artifact(SixLabels, FALSE, FALSE, "none"),
                 WithScheme},
          l \in {<<0, 0>>, <<60, 60>>, <<4, 60>>, <<4, 0>>, <<5, 0>>}, e \in {{}, AwsVariables}}
Alibaba == {Setting([Conf("alibabacloudAcrBasic") EXCEPT !.instances = i, !.defaultID = d], a,
                    [Rich EXCEPT !.env = Env(e)]) :
              i \in {[n \in {} |-> "none"], [n \in {"x"} |-> "id"], [n \in {"x"} |-> "none"],
                     [n \in {"defaultInstance"} |-> "id"]},
              d \in {"none", "default id"}, a \in {Plain, Acr("x"), Acr("defaultInstance"), Acr("none")},
              e \in {acrVariables, AllVariables}}
CredentialInputs ==
  Docker \cup Kubernetes \cup Aws \cup Alibaba
  \cup {Setting(Conf("unknown"), Plain, Rich),
        [source |-> [given |-> FALSE, artifact |-> Plain], world |-> Rich],
        Setting([Conf("dockerConfig") EXCEPT !.parses = FALSE], Plain, Rich),
        Setting(Conf("k8Secrets"), Plain, [Poor EXCEPT !.cluster = FALSE]),
        Setting(Conf("alibabacloudAcrBasic"), Plain, Poor)}

InputsOf ==
  [s \in Suites |->
     CASE s = "trust" -> TrustInputs [] s = "scan" -> ScanInputs [] s = "sbom" -> SbomInputs
       [] s = "license" -> LicenseInputs [] s = "schema" -> SchemaInputs
       [] s = "store" -> StoreInputs [] s = "credential" -> CredentialInputs]

-----------------------------------------------------------------------------
(* The value of a field of the wrong type is never looked at. *)
Json(type, v) == [t |-> type, v |-> v]
Missing == [t |-> "nil"]
RawRule(name, threshold, rules) ==
  [t |-> "map", verifierName |-> name, threshold |-> threshold, rules |-> rules]
LeafRules == {RawRule(n, h, Missing) : n \in {Missing, Json("string", "v"), Json("number", "any")},
             h \in {Missing, Json("number", 15), Json("string", 10)}}
Inner == LeafRules \cup {RawRule(Missing, Json("number", 10), Json("list", <<l>>)) : l \in LeafRules}
               \cup {Missing}
RawRules == Inner \cup {RawRule(Missing, Json("number", h), Json("list", <<a, b>>)) :
                          h \in {20, -5}, a, b \in Inner}
                  \cup {RawRule(Missing, Missing, Json("string", <<>>))}
PolicyInputs == {[is |-> i, copies |-> c, policy |-> r, accepts |-> e] :
                   i \in {"map", "other"}, c, e \in BOOLEAN, r \in RawRules}

Verified(err, detail) == [nil |-> FALSE, verifier |-> "v", err |-> err, detail |-> detail]
Outcomes == {<<>>, <<NilResult>>, <<Verified("", "d"), Verified("e", "d")>>, <<Verified("e", "unmarshallable")>>}
Flat == {[nil |-> FALSE, subject |-> "s", results |-> r, artifactReports |-> <<>>] : r \in Outcomes}
Nested == {[nil |-> FALSE, subject |-> "s", results |-> r, artifactReports |-> <<f>>] :
             r \in Outcomes, f \in Flat \cup {NilResult}}
RenderInputs == {[nil |-> FALSE, succeeded |-> s, artifactReports |-> <<a, b>>] :
                   s \in BOOLEAN, a, b \in Flat \cup Nested} \cup {NilResult}

TreeInit == /\ \/ suite = "policy" /\ input \in PolicyInputs
               \/ suite = "render" /\ input \in RenderInputs
            /\ result = <<>>

Converting == /\ result = <<>>
              /\ \/ suite = "policy" /\ result' = <<newThresholdPolicy(input)>>
                 \/ suite = "render" /\ result' = <<convertResult(input)>>
              /\ UNCHANGED <<suite, input>>

-----------------------------------------------------------------------------
(* What is found, and what is shown of it, at each place of a list of results. *)
Reported(results) == {<<i, results[i].verifier, results[i].err, results[i].detail>> :
                     i \in {j \in DOMAIN results : ~results[j].nil /\ results[j].detail # "unmarshallable"}}
Shown(results) == {<<i, results[i].verifierName, results[i].errorReason, results[i].detail>> :
                     i \in {j \in DOMAIN results : ~results[j].nil}}

RECURSIVE SameReport(_, _)
SameReport(src, out) ==
  \/ src.nil /\ out.nil
  \/ /\ ~src.nil /\ ~out.nil
     /\ src.subject = out.subject
     /\ Reported(src.results) = Shown(out.results)
     /\ Len(src.results) = Len(out.results)
     /\ Len(src.artifactReports) = Len(out.artifactReports)
     /\ \A i \in DOMAIN src.artifactReports : SameReport(src.artifactReports[i], out.artifactReports[i])

RECURSIVE SameRule(_, _)
SameRule(raw, rule) ==
  /\ raw.verifierName.t # "nil" => rule.verifier = raw.verifierName.v
  /\ raw.threshold.t # "nil" => (rule.threshold * 10 - raw.threshold.v) \in -9..9
  /\ raw.rules.t # "nil" =>
       /\ Len(rule.rules) = Len(raw.rules.v)
       /\ \A i \in DOMAIN rule.rules : SameRule(raw.rules.v[i], rule.rules[i])

(* No rule of a policy and no finding of a verifier is lost on the way: a policy
   that is accepted has every rule of its source at its place, with its verifier
   and its threshold but for the fraction, and never comes without a rule that
   was of the wrong type; a response shows every result and its reason at its
   place among the nested reports, except where its detail cannot be marshalled
   (parseRule, convertValidationReport, convertVerificationResult). *)
TreesAreWhole ==
  result # <<>> =>
    /\ suite = "policy" => (result[1].ok => SameRule(input.policy, result[1]))
    /\ suite = "render" =>
         /\ result[1].nil <=> input.nil
         /\ ~input.nil =>
              /\ result[1].succeeded = input.succeeded
              /\ \A i \in DOMAIN input.artifactReports :
                   SameReport(input.artifactReports[i], result[1].artifactReports[i])
=============================================================================
