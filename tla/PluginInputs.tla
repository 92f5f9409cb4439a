---------------------------- MODULE PluginInputs ----------------------------
(***************************************************************************)
(* What plugins make of their inputs: the trust a Notation verifier and a  *)
(* registry store are built with (KeyProviders), the verdicts of the       *)
(* plugins that judge documents (ReportVerifiers), the credentials a       *)
(* registry is shown (RegistryAuth).  A behaviour hands one input to one   *)
(* plugin and looks at what it returns.                                    *)
(***************************************************************************)
EXTENDS KeyProviders, ReportVerifiers, RegistryAuth

CONSTANT Inputs    \* from the name of a suite to the inputs its plugin is tried with

Documents == {"scan", "sbom", "license", "schema"}
Suites == Documents \cup {"trust", "store", "credential"}

IsList(seq) == seq \in Seq(Elements(seq))

(* A file that is met twice on a walk is the same file. *)
OneFileSystem(provider) ==
  provider.name = "files" =>
    \A n \in DOMAIN provider.options.paths :
      LET path == provider.options.paths[n]
      IN /\ IsList(path)
         /\ \A i, j \in Visited(path) : path[i].file = path[j].file =>
              path[i].reads = path[j].reads /\ path[i].certs = path[j].certs

(* A registry's entry in a file or a secret is its own, and a list of secrets
   names secrets. *)
Stored(auths) == \A h \in DOMAIN auths : auths[h] = h
SoundCredentials(source, world) ==
  /\ \A h \in DOMAIN world.docker.auths : world.docker.auths[h] \in {h, Nobody}
  /\ \A n \in DOMAIN world.secrets : Stored(world.secrets[n].auths)
  /\ world.account.pull \in Seq(DOMAIN world.secrets)
  /\ (source.given /\ source.conf.name = "k8Secrets") => source.conf.secrets \in Seq(DOMAIN world.secrets)
  /\ world.cloud \in [1..2 -> Nat]

(* Go slices are sequences; all else of an input may be anything. *)
ASSUME InputsAssumption ==
  /\ \A i \in Inputs["trust"] :
       /\ IsList(i.certificates)
       /\ \A n \in DOMAIN i.certificates : \A p \in i.certificates[n].providers : OneFileSystem(p)
  /\ \A s \in Documents : \A i \in Inputs[s] : IsList(i.manifest.blobs)
  /\ \A i \in Inputs["scan"] : \A b \in Elements(i.manifest.blobs) :
       IsList(b.runs) /\ \A r \in Elements(b.runs) : IsList(r.rules)
  /\ \A i \in Inputs["sbom"] : \A p \in i.config.packages : p = [name |-> p.name, version |-> p.version]
  /\ \A i \in Inputs["credential"] : SoundCredentials(i.source, i.world)

VARIABLES suite,    \* which plugin
          input,    \* its input
          result    \* what it returned: a sequence of at most one result

judgeVars == <<suite, input, result>>

-----------------------------------------------------------------------------
DocumentVerdict(s, config, desc, manifest) ==
  CASE s = "scan" -> VerifyVulnerabilities(config, desc, manifest)
    [] s = "sbom" -> VerifySbom(config, desc, manifest)
    [] s = "license" -> VerifyLicenses(config, desc, manifest)
    [] s = "schema" -> VerifySchemas(config, desc, manifest)

Returned(s, i) ==
  CASE s \in Documents -> DocumentVerdict(s, i.config, i.desc, i.manifest)
    [] s = "trust" -> newNotationVerifier(i)
    [] s = "store" -> newRegistryStore(i)
    [] s = "credential" -> CredentialFor(i.source, i.world)

JudgeInit == /\ suite \in Suites
             /\ input \in Inputs[suite]
             /\ result = <<>>

Judging == /\ result = <<>>
           /\ result' = <<Returned(suite, input)>>
           /\ UNCHANGED <<suite, input>>

JudgeSpec == JudgeInit /\ [][Judging]_judgeVars

-----------------------------------------------------------------------------
(* What a provider's source says, read without its parser. *)
PemsOf(p) ==
  CASE p.name = "inline" -> {p.options.pem}
    [] p.name = "azurekeyvault" -> {p.options.certificates[i].pem : i \in DOMAIN p.options.certificates}
    [] OTHER -> {}
PathsOf(p) == IF p.name = "files" THEN Elements(p.options.paths) ELSE {}
FilesIn(path) == {path[i] : i \in {j \in DOMAIN path :
                    path[j].is = "file" \/ (path[j].is = "link" /\ path[j].leads = "file")}}
Readable(p) ==
  /\ \A pem \in PemsOf(p) : \A i \in DOMAIN pem : pem[i].kind # "bad"
  /\ \A path \in PathsOf(p) : \A f \in FilesIn(path) : f.reads
Says(p) ==
  (UNION {{pem[i].cert : i \in {j \in DOMAIN pem : pem[j].kind = "cert"}} : pem \in PemsOf(p)})
  \cup (UNION {UNION {f.certs : f \in FilesIn(path)} : path \in PathsOf(p)})

(* The options of a Notation verifier that are for a type of trust store. *)
Named(type) == IF type = "ca" THEN {"none", "ca"} ELSE {type}
PlacesOf(type) == {i \in DOMAIN input.certificates : input.certificates[i].type \in Named(type)}
ProvidersOf(type) == UNION {input.certificates[i].providers : i \in PlacesOf(type)}

NotationTrustsExactly ==
  \A type \in TrustStoreTypes :
    /\ GetCertificates(result[1].store, type) = UNION {Says(p) : p \in ProvidersOf(type)}
    /\ \A p \in ProvidersOf(type) :
         /\ Readable(p)
         /\ p.name = "azurekeyvault" => AzureGetCertificates(CreateKeyProvider(p).certs).ok
         /\ p.name = "inline" => DecodeCertificates(p.options.pem) = CreateKeyProvider(p)
    /\ \A i, j \in PlacesOf(type) : i = j
    /\ type \in result[1].policy.stores <=> PlacesOf(type) # {}

(* The certificates of the bundle that a registry store is to use. *)
BundleOf(params) == IF params.caPem # <<>> THEN params.caPem ELSE params.caBase64.pem
RegistryTrustsExactly ==
  LET given == input.caPem # <<>> \/ input.caBase64.given
      said == {BundleOf(input)[i].cert : i \in {j \in DOMAIN BundleOf(input) :
                                                  BundleOf(input)[j].kind = "cert"}}
  IN /\ result[1].system <=> ~given
     /\ given => result[1].roots = said /\ said # {}

(* A Notation verifier that is built trusts, for each type of trust store,
   exactly the certificates that the sources configured for this type contain:
   none is dropped because its neighbour does not parse, none is taken over
   from another type, and a type is configured at most once (the key
   providers, initTrustStore, trustStore.GetCertificates).  A registry store
   that is made trusts the certificates of its bundle that parse, at least one,
   and the system's roots only when no bundle is given, so that a bundle of no
   use never widens the trust (createHTTPClient). *)
TrustsExactlyConfigured ==
  (result # <<>> /\ suite \in {"trust", "store"} /\ result[1].ok) =>
    CASE suite = "trust" -> NotationTrustsExactly [] suite = "store" -> RegistryTrustsExactly

-----------------------------------------------------------------------------
Fold(words) == {Lower(w) : w \in words}

(* The severity a report states for a finding, if any: its last rule of this id counts. *)
SeveritiesOf(run, id) ==
  LET same == {i \in DOMAIN run.rules : run.rules[i].id = id}
  IN {run.rules[i].severity : i \in {j \in same : \A k \in same : k <= j}}

(* What an accepted document may not contain, in the part that is looked at. *)
Clean(s, c, manifest) ==
  LET first == manifest.blobs[1]
      run == first.runs[1]
  IN CASE s = "scan" ->
            c.passthrough \/ \A id \in Elements(run.results) :
              /\ (c.denylist # {} \/ c.disallowed # {}) => id # "none"
              /\ Lower(id) \notin Fold(c.denylist)
              /\ c.disallowed # {} =>
                   /\ SeveritiesOf(run, id) \notin {{}, {"none"}}
                   /\ Fold(SeveritiesOf(run, id)) \cap Fold(c.disallowed) = {}
       [] s = "sbom" ->
            \A p \in Elements(first.packages) :
              /\ Fold(p.license) \cap Fold(c.licenses) = {}
              /\ \A d \in c.packages : p.name = d.name => d.version \notin {"none", p.version}
       [] s = "license" ->
            \A b \in Elements(manifest.blobs) : \A p \in Elements(b.packages) : p.license \in c.allowed
       [] s = "schema" ->
            \A b \in Elements(manifest.blobs) : b.media \in DOMAIN c.schemas /\ c.schemas[b.media] = b.content

(* Configuration d of a plugin asks for what c asks for, and restricts no more. *)
Looser(s, d, c) ==
  CASE s = "scan" ->
         /\ <<d.parses, d.annotation, d.maximumAge, d.schemaURL>> =
              <<c.parses, c.annotation, c.maximumAge, c.schemaURL>>
         /\ c.passthrough => d.passthrough
         /\ d.denylist \subseteq c.denylist /\ d.disallowed \subseteq c.disallowed
    [] s = "sbom" ->
         d.parses = c.parses /\ d.licenses \subseteq c.licenses /\ d.packages \subseteq c.packages
    [] s = "license" -> d.parses = c.parses /\ c.allowed \subseteq d.allowed
    [] s = "schema" ->
         /\ d.parses = c.parses /\ DOMAIN c.schemas \subseteq DOMAIN d.schemas
         /\ \A m \in DOMAIN c.schemas : d.schemas[m] = c.schemas[m]

Configs == [s \in Documents |-> {i.config : i \in Inputs[s]}]

(* A document is accepted only when it was fetched and read, nothing is denied in
   the part of it that the plugin looks at (of a scan or an SBOM the first blob,
   of a SARIF report its first run), and whatever the configuration needs to know
   of this part, such as the rule and severity of every finding, is there; and
   dropping a restriction never turns an accepted document into a rejected one
   (VerifyReference of the plugins). *)
AcceptsOnlyClean ==
  (suite \in Documents /\ result # <<>> /\ result[1] = "accepted") =>
    /\ input.config.parses /\ input.manifest.fetched /\ input.manifest.blobs # <<>>
    /\ input.manifest.blobs[1].fetched
    /\ Clean(suite, input.config, input.manifest)
    /\ \A d \in Configs[suite] : Looser(suite, d, input.config) =>
         DocumentVerdict(suite, d, input.desc, input.manifest) = "accepted"

(* A report that is accepted contains no deny-listed CVE and no disallowed
   severity, in any of its runs, as the comments on verifyDenyListCVEs and on
   verifyDisallowedSeverities say. *)
NoDeniedFindingIsAccepted ==
  (suite = "scan" /\ result # <<>> /\ result[1] = "accepted" /\ ~input.config.passthrough) =>
    \A run \in Elements(input.manifest.blobs[1].runs) : \A id \in Elements(run.results) :
      /\ Lower(id) \notin Fold(input.config.denylist)
      /\ Fold(SeveritiesOf(run, id)) \cap Fold(input.config.disallowed) = {}

-----------------------------------------------------------------------------
(* The id configured for an instance of ACR, or else the default one. *)
IdFor(instance, source, world) ==
  IF instance \in DOMAIN SourceConf(source).instances \ {"defaultInstance"}
  THEN SourceConf(source).instances[instance] ELSE acrDefault(SourceConf(source), world)

(* A registry is shown nothing that was stored for another one, of the cloud
   accounts' tokens only one for the region or the instance that its own name
   gives, and never one of the region or instance of the environment when its
   name gives another (the Provide functions, down to AuthData and
   acrInstancesConfig).  The providers take the name at its word: any name of six
   labels is shown the account's ECR token for its fourth, and an ACR name of an
   instance that is not configured the token of the default instance. *)
CredentialsStayHome ==
  (suite = "credential" /\ result # <<>> /\ result[1].ok) =>
    LET host == input.source.artifact.host
        cred == result[1].cred
    IN /\ cred.kind \in {"none", "stored", "ecr", "acr"}
       /\ cred.kind = "stored" => cred.owner = host
       /\ cred.kind = "ecr" => Len(host) >= 6 /\ cred.owner = <<host[4]>>
       /\ cred.kind = "acr" =>
            /\ input.source.artifact.acr
            /\ cred.owner = <<IdFor(input.source.artifact.instance, input.source, input.world)>>
=============================================================================
