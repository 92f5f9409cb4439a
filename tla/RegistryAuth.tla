---------------------------- MODULE RegistryAuth ----------------------------
(***************************************************************************)
(* The providers of registry credentials of pkg/common/oras/authprovider:  *)
(* docker configuration, Kubernetes secrets, AWS ECR and Alibaba Cloud     *)
(* ACR, and the factory that picks one by name.                            *)
(*                                                                         *)
(* A provider's configuration and what it finds around it are records:     *)
(*   artifact - url (has a scheme), host (the labels of its name), acr (is *)
(*              it a name of that cloud), instance (of the ACR registry);  *)
(*   conf     - name, parses, path, secrets, instances, defaultID;         *)
(*   world    - docker (a file: its state, "absent", "broken" or "ok", and *)
(*              auths, from hosts to the owners of the credentials),       *)
(*              cluster (is there one), secrets, account (state, pull),    *)
(*              env (the values of the variables that are set), cloud (the *)
(*              lifetimes of the tokens it grants).                        *)
(* Times are in minutes, and "none" stands for an empty string.            *)
(***************************************************************************)
EXTENDS Naturals, Sequences, FiniteSetsExt

(***************************************************************************)
(* A credential is the kind of its origin and its owner, a sequence: the   *)
(* host under whose name it was stored, the region of an ECR token of the  *)
(* account, the instance that an ACR token was granted for.                *)
(***************************************************************************)
Credential(kind, owner) == [kind |-> kind, owner |-> owner]
NoCredential == Credential("none", <<>>)
Provided(c) == [ok |-> TRUE, cred |-> c]
Denied == [ok |-> FALSE, cred |-> NoCredential]

(* GetRegistryHostName *)
HasHostName(artifact) == ~artifact.url /\ artifact.host # <<>>

-----------------------------------------------------------------------------
(* Docker configuration: without a path the default file, which need not exist.
   An entry without a user, a password and a token is nobody's. *)
Nobody == <<>>

defaultCreate(conf) == conf.parses
defaultProvide(conf, world, artifact) ==
  LET auths == world.docker.auths
  IN IF world.docker.state = "broken" \/ (world.docker.state = "absent" /\ conf.path # "none")
     THEN Denied
     ELSE IF ~HasHostName(artifact) THEN Denied
     ELSE IF artifact.host \notin DOMAIN auths THEN Provided(NoCredential)
     ELSE IF auths[artifact.host] = Nobody THEN Provided(NoCredential)
     ELSE Provided(Credential("stored", auths[artifact.host]))

-----------------------------------------------------------------------------
(***************************************************************************)
(* Kubernetes secrets: those of the configuration in order, then the pull  *)
(* secrets of the service account.  A secret has a state ("missing",       *)
(* "unreachable", "broken" or "ok"), a type, perhaps the entry             *)
(* .dockerconfigjson, and auths as above.  GoOn is what a secret that      *)
(* decides nothing leaves.                                                 *)
(***************************************************************************)
GoOn == [ok |-> FALSE, cred |-> Credential("next", <<>>)]

k8sCreate(conf, world) == conf.parses /\ world.cluster /\ "RATIFY_NAMESPACE" \in DOMAIN world.env

(* The bug of taking the only credential of a secret whatever host it is for. *)
resolveCredentialFromSecret_AnyHost(hostName, secret) ==
  IF ~secret.json \/ secret.state = "broken" THEN Denied
  ELSE IF DOMAIN secret.auths = {} THEN GoOn
  ELSE Provided(Credential("stored", secret.auths[CHOOSE h \in DOMAIN secret.auths : TRUE]))

resolveCredentialFromSecret(hostName, secret) ==
  IF ~secret.json \/ secret.state = "broken" THEN Denied
  ELSE IF hostName \notin DOMAIN secret.auths THEN GoOn
  ELSE Provided(Credential("stored", secret.auths[hostName]))

TrySecret(secret, types, otherwise, hostName) ==
  IF secret.state = "missing" THEN GoOn
  ELSE IF secret.state = "unreachable" THEN Denied
  ELSE IF secret.type \in types THEN resolveCredentialFromSecret(hostName, secret)
  ELSE otherwise

(* The loop over the names of secrets returns at the first one that decides. *)
FirstDecided(names, world, types, otherwise, hostName) ==
  LET Tried(i) == TrySecret(world.secrets[names[i]], types, otherwise, hostName)
      decided == {i \in DOMAIN names : Tried(i) # GoOn}
  IN IF decided = {} THEN GoOn ELSE Tried(Min(decided))

(* A configured secret of another type is an error, a pull secret is passed over. *)
FromConfigured(conf, world, hostName) ==
  FirstDecided(conf.secrets, world, {"dockerconfigjson"}, Denied, hostName)
FromAccount(world, hostName) ==
  IF world.account.state = "unreachable" THEN Denied
  ELSE FirstDecided(world.account.pull, world, {"dockercfg", "dockerconfigjson"}, GoOn, hostName)

k8sProvide(conf, world, artifact) ==
  LET configured == FromConfigured(conf, world, artifact.host)
      fromAccount == FromAccount(world, artifact.host)
  IN IF ~HasHostName(artifact) THEN Denied
     ELSE IF configured # GoOn THEN configured
     ELSE IF fromAccount # GoOn THEN fromAccount
     ELSE Denied

-----------------------------------------------------------------------------
(***************************************************************************)
(* AWS ECR: a token is the account's, good for every registry it has in    *)
(* one region.  A provider keeps the last one per registry (AuthData) and  *)
(* fetches one that is missing or about to expire.  cloud is the sequence  *)
(* of lifetimes of the tokens that would be granted, 0 for a refusal.      *)
(***************************************************************************)
ecrMargin == 5
EmptyAuthData == [h \in {} |-> 0]
AwsVariables == {"AWS_REGION", "AWS_ROLE_ARN", "AWS_WEB_IDENTITY_TOKEN_FILE"}

awsCreate(conf) == conf.parses
exists(authData, registry) == registry \in DOMAIN authData

(* The fourth label of a name that has six, whoever the name belongs to. *)
RegionFromRegistry(host) == IF Len(host) >= 6 THEN host[4] ELSE "none"

(* AuthData after a fetch. *)
Fetched(authData) == [ok |-> TRUE, data |-> authData]
EcrToken(region, life) == [region |-> region, life |-> life]
getEcrAuthToken(authData, world, artifact, granted) ==
  IF ~(AwsVariables \subseteq DOMAIN world.env) \/ ~HasHostName(artifact)
     \/ RegionFromRegistry(artifact.host) = "none" \/ granted = 0
  THEN [ok |-> FALSE]
  ELSE Fetched([h \in DOMAIN authData \cup {artifact.host} |->
                  IF h = artifact.host THEN EcrToken(RegionFromRegistry(artifact.host), granted)
                  ELSE authData[h]])

(* About to expire, in the provider's eyes. *)
NeedsRefresh(token) == ecrMargin > token.life

awsProvide(authData, world, artifact) ==
  LET first == IF exists(authData, artifact.host) THEN Fetched(authData)
               ELSE getEcrAuthToken(authData, world, artifact, world.cloud[1])
      second == IF ~first.ok \/ ~NeedsRefresh(first.data[artifact.host]) THEN first
                ELSE getEcrAuthToken(first.data, world, artifact, world.cloud[2])
  IN IF ~HasHostName(artifact) \/ ~second.ok THEN Denied
     ELSE Provided(Credential("ecr", <<second.data[artifact.host].region>>))

-----------------------------------------------------------------------------
(***************************************************************************)
(* Alibaba Cloud ACR: a token is of an instance, the one configured for    *)
(* the name in the host or the default one, which is kept among the others *)
(* under a name of its own.                                                *)
(***************************************************************************)
acrVariables == {"ALIBABA_CLOUD_ROLE_ARN", "ALIBABA_CLOUD_OIDC_PROVIDER_ARN",
                 "ALIBABA_CLOUD_OIDC_TOKEN_FILE"}
acrDefault(conf, world) ==
  IF conf.defaultID # "none" THEN conf.defaultID
  ELSE IF "ALIBABA_CLOUD_ACR_INSTANCE_ID" \in DOMAIN world.env
       THEN world.env["ALIBABA_CLOUD_ACR_INSTANCE_ID"] ELSE "none"
acrCreate(conf, world) ==
  conf.parses /\ (acrDefault(conf, world) # "none" \/ DOMAIN conf.instances # {})
acrInstancesConfig(conf, world) ==
  [n \in DOMAIN conf.instances \cup {"defaultInstance"} |->
     IF n = "defaultInstance" THEN acrDefault(conf, world) ELSE conf.instances[n]]

getRegionFromArtifact(artifact) == artifact.acr
acrInstance(instances, artifact) ==
  IF artifact.instance \in DOMAIN instances THEN instances[artifact.instance]
  ELSE instances["defaultInstance"]

getAcrAuthToken(instances, world, artifact) ==
  LET id == acrInstance(instances, artifact)
  IN IF /\ acrVariables \subseteq DOMAIN world.env /\ HasHostName(artifact)
        /\ getRegionFromArtifact(artifact) /\ id # "none" /\ world.cloud[1] # 0
     THEN Provided(Credential("acr", <<id>>)) ELSE Denied
acrProvide(conf, world, artifact) ==
  getAcrAuthToken(acrInstancesConfig(conf, world), world, artifact)

-----------------------------------------------------------------------------
(* The factory, and one call of the provider it made. *)
BuiltIn == {"dockerConfig", "k8Secrets", "awsEcrBasic", "alibabacloudAcrBasic"}
NoConf == [name |-> "dockerConfig", parses |-> TRUE, path |-> "none"]
Creates(conf, world) ==
  CASE conf.name = "dockerConfig" -> defaultCreate(conf)
    [] conf.name = "k8Secrets" -> k8sCreate(conf, world)
    [] conf.name = "awsEcrBasic" -> awsCreate(conf)
    [] conf.name = "alibabacloudAcrBasic" -> acrCreate(conf, world)
CreateAuthProviderFromConfig(conf, world) == conf.name \in BuiltIn /\ Creates(conf, world)

Provide(conf, world, artifact) ==
  CASE conf.name = "dockerConfig" -> defaultProvide(conf, world, artifact)
    [] conf.name = "k8Secrets" -> k8sProvide(conf, world, artifact)
    [] conf.name = "awsEcrBasic" -> awsProvide(EmptyAuthData, world, artifact)
    [] conf.name = "alibabacloudAcrBasic" -> acrProvide(conf, world, artifact)

(* The credential callback of DownloadPlugin, which makes a provider of its own
   each time it is asked. *)
SourceConf(source) == IF source.given THEN source.conf ELSE NoConf
CredentialFor(source, world) ==
  LET conf == SourceConf(source)
  IN IF CreateAuthProviderFromConfig(conf, world) THEN Provide(conf, world, source.artifact)
     ELSE Denied
=============================================================================
