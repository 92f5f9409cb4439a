---------------------------- MODULE KeyProviders ----------------------------
(***************************************************************************)
(* What the constructors behind PluginFactories' bit "creates" do with     *)
(* their parameters, where they decide what is trusted: the key providers  *)
(* (inline, files, Azure Key Vault) and the trust store of the Notation    *)
(* verifier they fill, the roots of the registry store's HTTP client.      *)
(*                                                                         *)
(* Certificates are model values.  A bundle of PEM data is a sequence of   *)
(* items, each a record of its kind: "cert" (with the certificate), "bad"  *)
(* (a CERTIFICATE block that does not parse), "key" (another block) or     *)
(* "text" (what is no block).  A constructor returns [ok, certs] or [ok].  *)
(***************************************************************************)
EXTENDS Naturals, Sequences, FiniteSets

Certs(c) == [ok |-> TRUE, certs |-> c]
NoCerts == [ok |-> FALSE, certs |-> {}]

(* Runs the next of a Go loop's steps unless an earlier one has failed. *)
Gathered(results) ==
  IF \A i \in DOMAIN results : results[i].ok
  THEN Certs(UNION {results[i].certs : i \in DOMAIN results}) ELSE NoCerts

-----------------------------------------------------------------------------
(* pem.Decode skips text before a block; only text at the end is left over. *)
LeftOver(pem) == pem # <<>> /\ pem[Len(pem)].kind = "text"
CertificatesOf(pem) == {pem[i].cert : i \in {j \in DOMAIN pem : pem[j].kind = "cert"}}
HasBad(pem) == \E i \in DOMAIN pem : pem[i].kind = "bad"

(* The inline provider: everything must decode, and there must be a certificate. *)
parseCertificatesFromPEM(pem) ==
  IF LeftOver(pem) \/ HasBad(pem) \/ CertificatesOf(pem) = {} THEN NoCerts
  ELSE Certs(CertificatesOf(pem))
InlineProvider(options) ==
  IF options.parses THEN parseCertificatesFromPEM(options.pem) ELSE NoCerts

(* The same rules, for the legacy key management providers. *)
DecodeCertificates(pem) ==
  IF LeftOver(pem) \/ HasBad(pem) \/ CertificatesOf(pem) = {} THEN NoCerts
  ELSE Certs(CertificatesOf(pem))

-----------------------------------------------------------------------------
(***************************************************************************)
(* Azure Key Vault: every secret must be fetched and hold a certificate.   *)
(* A secret has a content type and a value; what follows the last block of *)
(* its PEM data is ignored.                                                *)
(***************************************************************************)

(* The bug of passing over a certificate that does not parse. *)
parseCertificateInPem_Skips(pem) == Certs(CertificatesOf(pem))

parseCertificateInPem(pem) == IF HasBad(pem) THEN NoCerts ELSE Certs(CertificatesOf(pem))

(* ToPEM makes blocks of the archive; text around them, if any, has no part in it. *)
parseCertificateInPKCS12(secret) ==
  IF secret.archive # "ok" THEN NoCerts ELSE parseCertificateInPem(secret.pem)

extractCertificateFromResponse(secret) ==
  LET chain == CASE secret.type = "pkcs12" -> parseCertificateInPKCS12(secret)
                 [] secret.type = "pem" -> parseCertificateInPem(secret.pem)
                 [] OTHER -> NoCerts
  IN IF chain.certs = {} THEN NoCerts ELSE chain

fetchChainFromSecrets(secret) ==
  IF secret.fetched THEN extractCertificateFromResponse(secret) ELSE NoCerts
fetchCertificateChain(secret) ==
  IF fetchChainFromSecrets(secret).certs = {} THEN NoCerts ELSE fetchChainFromSecrets(secret)

fetchAllCertificates(secrets) ==
  LET all == Gathered([i \in DOMAIN secrets |-> fetchCertificateChain(secrets[i])])
  IN IF all.certs = {} THEN NoCerts ELSE all

(* Workload identity, then managed identity: at least one must be there. *)
CreateCredentialChain(identities) == identities # {}
AzureKeyVaultProvider(options) ==
  IF options.parses /\ options.vaultURL # "none" /\ options.certificates # <<>>
     /\ CreateCredentialChain(options.identities)
  THEN fetchAllCertificates(options.certificates) ELSE NoCerts
AzureGetCertificates(cached) == IF cached = {} THEN NoCerts ELSE Certs(cached)

-----------------------------------------------------------------------------
(***************************************************************************)
(* Files: a path is the sequence of what filepath.Walk visits, records of  *)
(* what is there ("invalid", "file", "dir" or "link"), where a link leads  *)
(* ("file", "dir", "nowhere"), the physical file and its contents.         *)
(***************************************************************************)
isSymbolicLink(entry) == entry.is = "link"
Physical(entry) == IF isSymbolicLink(entry) THEN entry.leads = "file" ELSE entry.is = "file"
ReadCertificateFile(entry) == IF entry.reads THEN Certs(entry.certs) ELSE NoCerts

(* The physical files, each read once; one that cannot be read ends the walk. *)
Visited(path) == {i \in DOMAIN path : Physical(path[i])}
loadCertificatesFromPath(path) ==
  LET firsts == {i \in Visited(path) : \A j \in Visited(path) :
                   path[j].file = path[i].file => i <= j}
  IN IF \E i \in firsts : ~ReadCertificateFile(path[i]).ok THEN NoCerts
     ELSE Certs(UNION {ReadCertificateFile(path[i]).certs : i \in firsts})

FileSystemProvider(options) ==
  IF options.parses /\ options.paths # <<>>
  THEN Gathered([i \in DOMAIN options.paths |-> loadCertificatesFromPath(options.paths[i])])
  ELSE NoCerts

-----------------------------------------------------------------------------
(* The factory: an entry is a provider's name and its options. *)
CreateKeyProvider(entry) ==
  CASE entry.name = "inline" -> InlineProvider(entry.options)
    [] entry.name = "files" -> FileSystemProvider(entry.options)
    [] entry.name = "azurekeyvault" -> AzureKeyVaultProvider(entry.options)
    [] OTHER -> NoCerts

(***************************************************************************)
(* The Notation verifier.  A trust store option has a type, "none" when it *)
(* is left out, and a set of providers, which Go visits in any order.  The *)
(* trust store maps types to certificates.                                 *)
(***************************************************************************)
TrustStoreTypes == {"ca", "tsa", "signingAuthority"}
getTrustStoreType(type) == IF type = "none" THEN "ca" ELSE type

addKeyProvider(store, storeType, certs) ==
  [t \in DOMAIN store \cup {storeType} |->
     (IF t \in DOMAIN store THEN store[t] ELSE {}) \cup (IF t = storeType THEN certs ELSE {})]

EmptyStore == [t \in {} |-> {}]
NoTrust == [ok |-> FALSE, store |-> EmptyStore, types |-> {}]
AddTrustStore(acc, opt) ==
  LET storeType == getTrustStoreType(opt.type)
  IN IF ~acc.ok \/ storeType \notin TrustStoreTypes \/ storeType \in acc.types
        \/ \E p \in opt.providers : ~CreateKeyProvider(p).ok
     THEN NoTrust
     ELSE [ok |-> TRUE, types |-> acc.types \cup {storeType},
           store |-> IF opt.providers = {} THEN acc.store
                     ELSE addKeyProvider(acc.store, storeType,
                            UNION {CreateKeyProvider(p).certs : p \in opt.providers})]
initTrustStore(opts) ==
  LET after[i \in 0..Len(opts)] ==
        IF i = 0 THEN [ok |-> TRUE, store |-> EmptyStore, types |-> {}]
        ELSE AddTrustStore(after[i - 1], opts[i])
  IN IF opts = <<>> THEN NoTrust ELSE after[Len(opts)]

OrAny(list) == IF list = {} THEN {"*"} ELSE list
initTrustPolicyDocument(scopes, identities, types) ==
  [scopes |-> OrAny(scopes), identities |-> OrAny(identities), stores |-> types]

newNotationVerifier(params) ==
  LET trust == initTrustStore(params.certificates)
  IN IF params.parses /\ trust.ok
     THEN [ok |-> TRUE, store |-> trust.store,
           policy |-> initTrustPolicyDocument(params.scopes, params.identities, trust.types)]
     ELSE [ok |-> FALSE]

(* What a verification is given for one of the stores of the policy. *)
GetCertificates(store, storeType) == IF storeType \in DOMAIN store THEN store[storeType] ELSE {}

-----------------------------------------------------------------------------
(***************************************************************************)
(* The registry store.  Its CA bundle is given as PEM data (<<>> when it   *)
(* is left out) or in base64, a record: is it given, does it decode, the   *)
(* PEM data in it.  Its credentials are chosen by the type in the options. *)
(***************************************************************************)
createStaticCredentialProvider(opts) == opts.parses
NewCredentialProvider(opts) ==
  /\ opts.given /\ opts.provider \in {"static", "azure"}
  /\ opts.provider = "static" => createStaticCredentialProvider(opts)

Client(ok, system, roots) == [ok |-> ok, system |-> system, roots |-> roots]
NoClient == Client(FALSE, FALSE, {})

(* AppendCertsFromPEM takes the certificates that parse and passes over all else;
   it fails when it took none. *)
WithRoots(pem) ==
  IF CertificatesOf(pem) = {} THEN NoClient ELSE Client(TRUE, FALSE, CertificatesOf(pem))

(* The bug of going on with the system's roots when the bundle is of no use. *)
createHTTPClient_FallsBack(caPem, caBase64) ==
  IF caPem # <<>> /\ CertificatesOf(caPem) # {} THEN WithRoots(caPem)
  ELSE IF caBase64.given /\ caBase64.decodes /\ CertificatesOf(caBase64.pem) # {}
       THEN WithRoots(caBase64.pem)
  ELSE Client(TRUE, TRUE, {})

(* PEM data is preferred: beside it the bundle in base64 is not even decoded. *)
createHTTPClient(caPem, caBase64) ==
  IF caPem = <<>> /\ ~caBase64.given THEN Client(TRUE, TRUE, {})
  ELSE IF caPem # <<>> THEN WithRoots(caPem)
  ELSE IF caBase64.decodes THEN WithRoots(caBase64.pem) ELSE NoClient

newRegistryStore(params) ==
  IF params.parses /\ NewCredentialProvider(params.credential)
  THEN createHTTPClient(params.caPem, params.caBase64) ELSE NoClient
=============================================================================
