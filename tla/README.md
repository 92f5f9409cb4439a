# Ratify: TLA+ models, checks and proofs

Ratify is an external data provider for Gatekeeper: it answers whether the
images of a workload are signed as a policy demands (verify) and turns tags into
digests (mutate). This directory models the Gatekeeper provider of the
repository (`src/internal`, `src/cmd/ratify-gatekeeper-provider`) and the
packages it grew out of (`src/pkg`, `src/plugins`) in TLA+, checks the models with
TLC on small instances and proves the properties that matter most with TLAPS for
every instance.

## 1. Inventory

The provider:

| Component | Source | State | Operations | Hard behaviour |
|---|---|---|---|---|
| Scope router | `internal/executor/executor.go` | three maps: repository, registry, wildcard | register a scope, match an artifact | precedence, wildcards, duplicates, partial registration |
| Plugin factories | `internal/verifier/factory.go`, `verifier/cosign/register.go`, `store/factory.go`, `policyenforcer/factory.go` | the Cosign verifier's and the store's own scope tables | build verifiers, store, policy from options | inherited scopes, early returns |
| CRD controller, executor manager | `internal/controller` | options per object, the executor pointer, object statuses | reconcile, upsert, delete, refresh, update status | stale informer, edits during a reconcile, swallowed errors, random map order, restarts, one broken object among good ones |
| HTTP handlers | `internal/httpserver/handlers.go`, `server.go` | two TTL caches, singleflight group, contexts | verify, mutate | calls shared by requests with different deadlines, executor replaced during a call, waiting on each other |
| Configuration watcher | `internal/httpserver/config/config.go` | executor pointer, inotify watch | load, watch, re-watch, reload | torn reads, replaced inodes, lost watches |
| TLS secret watcher | `internal/httpserver/tlssecret/certwatcher.go` | certificate pointer, CA pool pointer, watches | load, watch, serve a handshake | three files rotated together but read one by one |
| Credential cache | `internal/store/credentialprovider`, `internal/cache/inmemory` | items with expiry | get, fetch, set, clean up | concurrent misses, lifetimes computed before they are used, clocks |
| Manager, rotator, `Run`, `main` | `internal/manager`, `httpserver/server.go`, `cmd/ratify-gatekeeper-provider` | readiness channel, signal channel, listener | start, serve, shut down | three goroutines that wait for each other, early returns in each of them, signals during start-up, requests in flight |
| Key providers, Notation | `internal/verifier/keyprovider`, `internal/verifier/notation` | certificates and keys read at construction | fetch, parse, build the trust store and policy | one item of several that cannot be read |
| Stores, static credentials | `internal/store` | none | build from options | options that cannot be used |
| Threshold policy, response rendering | `internal/policyenforcer/threshold`, `httpserver/response.go` | none | parse, render | recursion, defaults, dropped errors |

The packages under `pkg/` and the plugins:

| Component | Source | State | Operations | Hard behaviour |
|---|---|---|---|---|
| Resource controllers | `pkg/controllers` | work queues, object statuses | reconcile one kind of object, cluster-wide or namespaced | edits during a reconcile, retries, an update of the status that is itself an event |
| Resource maps | `pkg/customresources`, `pkg/keymanagementprovider` | `sync.Map`s of verifiers, stores, policies, certificates, keys and errors, some nested | set, delete, look up with a fallback | readers and writers between two operations on two maps, namespaces |
| ORAS auth providers | `pkg/common/oras/authprovider` | tokens and their expiry | make a provider, provide a credential | several secrets and registries, expired tokens |
| Plugin download and execution | `pkg/common/plugin` | an executable on disk | download, find, execute with retries | the file is replaced while it is run, and by several downloads at once |
| Document plugins | `plugins/verifier` | none | judge a report, an SBOM, licences, schemas | what is missing or unreadable in a document |

How they interact. Options come from Executor objects (CRD controller) or from
one file (configuration watcher); both call `NewScopedExecutor`, which calls the
factories and fills the scope router; the factories call the constructors of key
providers, stores and policies. The result is stored behind one atomic pointer.
The handlers load that pointer once per call, that is, once per cache miss, and
cache what it answers. Stores ask the credential cache for registry credentials.
The TLS watcher only shares the process. `Run` starts the serving goroutine, which
waits for the manager's certificate rotator when TLS is on. In the older packages
the controllers fill the resource maps and requests read them; a verifier or store
object may download its plugin, for which it asks an auth provider.

`PROJECT.json` lists every component, the modelled and the other ones, and under
"hazards" what is hard to test, at its line, with the properties about it.

## 2. Modules

| Module | Models | Extends |
|---|---|---|
| `ScopeRouter` | the scope table, registration and routing, as operators | |
| `PluginFactories` | the factories and the Cosign verifier's table | `ScopeRouter` |
| `ScopedExecutor` | `newExecutor`, `NewScopedExecutor` | `PluginFactories` |
| `ScopedBuild` | hands option groups to `NewScopedExecutor` and looks at the executor it returns | `ScopedExecutor` |
| `ExecutorManager` | API server, informer, reconciler, executor manager | `ScopedExecutor` |
| `VerifyServer` | handlers, singleflight, caches, replacement of the executor | |
| `FileWatcher` | external: files, inodes, fsnotify | |
| `ConfigWatcher` | the configuration watcher | `FileWatcher`; implements `ServedFile` |
| `ServedFile` | abstract: what a server that follows a file promises | |
| `CertWatcher` | the TLS secret watcher | `FileWatcher` |
| `CredentialCache` | cached credential provider, in-memory cache, Azure lifetimes | |
| `Startup` | `main`, manager, rotator, `Run` and its shutdown | |
| `ResourceMaps` | the shared maps of `pkg/`: every operation, the access rules, the look-ups | |
| `ResourceControllers` | the nine reconcilers of `pkg/controllers`, requests, restarts | `ResourceMaps` |
| `RegistryAuth` | the four auth providers, as operators | |
| `PluginHost` | download, search and execution of a plugin | |
| `KeyProviders` | key providers, Notation, the registry store with its CA bundle and its credential factory: constructors as operators | |
| `ReportVerifiers` | the verdicts of the document plugins, as operators | |
| `PluginInputs` | hands an input to one plugin or provider and looks at what it returns | `KeyProviders`, `ReportVerifiers`, `RegistryAuth` |
| `PolicyTrees` | threshold parsing and response rendering, recursive operators | |
| `MC...` | instances for TLC, with the inputs to enumerate | the module named (`MCScopedExecutor`: `ScopedBuild`; `MCPlugins`: `MCScopedExecutor`, `MCPluginInputs` and `PluginHost`) |
| `..._proofs` | theorems and proofs | the module named; `ExecutorManager_proofs` also `ScopedBuild`, `PluginHost_proofs` also `PluginInputs` |

The string `"none"` stands for Go's empty string (and for "no status", "no error")
wherever a proof speaks about it, since the prover's solver has no empty string.

Definitions with a suffix after an underscore (`Lead_Always`,
`handleEvent_NoRewatch`...) are plausible bugs of the definition before the
underscore. No specification uses them; they serve to show that a property
notices the bug.

**Scope router, factories, executor.** A host name is the sequence of its labels, so
that "the star is the first label" and "cut one label off" are what the code does on
strings. The three Go maps are one function whose keys name their map. A Go loop with
early return is a recursive function of the number of turns, which stops changing at
the first error. What a plugin's constructor does with its own parameters is one bit.
The modules also say, without tables and loops, which scopes are legal and which of
them cover an artifact (`Covers`, as the comments on the scopes say: a wildcard
covers every subdomain, however deep), when a list of option groups is legal
(`LegalConfiguration`) and where an artifact belongs then (`RoutedByScope`,
`RoutedInside`). `ScopedBuild` holds every executor that is built against that, TLC
for short lists of groups and the proofs for all lists.

**Executor manager.** A reconcile is cut where it gives up control: after `Get`
(which reads the informer's copy), after the manager's critical section and after the
status update. Between the cuts users create, update and delete objects, the informer
delivers and resyncs, and the process may restart, which empties memory and leaves
the API server's objects and statuses. `current` in a reconcile stands for its copy's
resourceVersion: a status update with an outdated copy is refused, and the code only
logs that. `Builds` is the set of results over every order of the options map.
`RequestsReachOwners` looks through the pointer into the executor that serves: each
of `Artifacts` is routed by the options the executor was built from, whatever
happened to the objects since. With `"build"` in `Faults` any build may fail
(constructors reach key vaults), with `"status"` any status update. The work queue is
a set because it drops duplicates.

**Verify server.** A request works through its keys in order: cache, singleflight,
and either leads the call or waits. A call is two steps, `Lead` (which loads the
executor) and `Succeed` or `Fail`; between them the executor may be replaced,
others may join and time may pass. The clock ticks only while every request is in
a call or waits, and a call returns by the deadline of the leader's context. That
is the assumption the code makes of `ValidateArtifact` and `Resolve`. Each cached
value carries the executor that produced it, which is what `BoundedStaleness`
speaks about. Reports and references are records that say which artifact and
which executor they come from.

**File watchers.** A watch is on an inode. Replacing a file (kubelet swaps a link)
leaves the watch on the old inode until that is removed, which produces the Remove
event the code answers with a re-watch. Moving a file away ends the watch with a
Rename event, which the code ignores. `mishaps` is a history variable of the
environment: whether a file was ever missing, and whether one changed after its
first load and before its watch. The properties that promise a fresh
configuration need both not to have happened.

**Credential cache.** The lifetime of a token is computed when it is fetched and
starts to run when it is stored, up to `MaxLag` later. `since` in a token is when
it was fetched.

**A file that is followed.** `ServedFile` states what `ConfigWatcher` promises,
without watches or inodes: what is served was the file's content at the moment it
was put in service, it is replaced in one step and never withdrawn, and again and
again it is what the file describes, as long as the server is bound to follow it.
The refinement mapping takes the content of the path for the file (an unreadable,
torn or unbuildable one is `None`), the executor pointer for what is served, and
"the process runs and no mishap happened" for being bound.

**Start-up.** Three goroutines, each a program counter: `main` (parse, start the
manager, build the server, run it, register for signals, wait for one, shut down),
the one that serves (waits for `certRotatorReady`, loads the certificates, listens)
and the manager with the rotator. Every call on the outside may fail; what follows is
what the code does then: it panics, returns or goes on. A signal before anybody
registered for it kills the process; between the manager's registration and `Run`'s
it stops only the manager. The manager may also end with an error by itself, which
ends the process. `Shutdown` waits for the requests in flight until `VerifyTimeout`.
How long those take is the question: a handler has a context with one timeout, but a
request that waits in the singleflight group does not look at its own context, it
waits for the leader, and it does so for each of its keys in turn. So a request stays
up to one timeout per key (`LongestStay`), which is what `VerifyServer` establishes
as `BoundedDuration`. As there, computation takes no time: a request at the end of
its stay is answered before the clock or `Shutdown` goes on.

**Resource controllers.** A reconcile is cut after `Get`, after the object was
turned into a resource, at every operation on a `sync.Map` and at the status
update; the operations left to do are a sequence in the worker's state. A request
is cut between its loads. An error returned puts the object back into the queue,
as controller-runtime does; users edit, calls fail and the process restarts at any
moment. Inner maps of verifiers and stores are written without a lock while
requests iterate them; the runtime may end the process for that, so this is a
restart of the model. `focus` picks one kind of resource per behaviour, which loses
nothing because kinds share neither maps nor queues.

**Plugin host.** `DownloadPlugin` takes no lock, so downloads to one path overlap:
each truncates the file, fills it in place and sets its mode last. The file is the
version that truncated it last and what became of this version's contents
("writing", "copied" to the end, "broken" off), with a history of two bits: whether
another download could still write or chmod it then (`shared`), and whether it
truncated an executable, whose mode stays (`replaces`). The operating system's
rule ("text file busy") is part of the model: a file open for writing cannot be
executed, a running one cannot be opened for writing, and a forked child keeps the
descriptors of the downloads until its own exec. A call retries at most
`maxRetryCount` times, then reads what there is as output.

**Inputs of plugins.** `KeyProviders`, `ReportVerifiers`, `RegistryAuth` and
`PolicyTrees` have no state: constructors, verdicts and credentials are operators
over configurations and documents, whose contents are reduced to the bits the code
branches on. A behaviour of `PluginInputs` starts with one input, applies the code's
operator and compares the result with a reference stated without the code's loops.
A CA bundle is a sequence of blocks of which each is a certificate or cannot be
read; `AppendCertsFromPEM` takes the former and passes over the latter.
`RegistryAuth` computes which credential a registry is shown from the provider's
configuration and a world of secrets, accounts and tokens. A credential is the kind
of its origin and its owner: the host under whose name it was stored, the region of
the account's ECR token, the id of the ACR instance a token was granted for. No
credential is labelled with the host that asks. A loop over secrets that returns at
the first one that decides is the decision of the least index that has one
(`FirstDecided`). `MCPluginInputs` adds the trees of `PolicyTrees` as two more
suites, beside the behaviours of `JudgeSpec`.

`MCPlugins` puts the builds, the inputs and the plugin host into one run: a
behaviour is of one of these families, chosen by `suite`, and the variables of the
others stay as they are. The families share no state, so nothing is lost.

## 3. Runs

Passing runs (TLC finds no error; every action fires in them):

| Run | Properties | Bounds |
|---|---|---|
| `plugins` | `BuildsExactlyWhenLegal`, `RoutesToMostSpecific`, `RoutersAgree`; `TrustsExactlyConfigured`, `AcceptsOnlyClean`, `TreesAreWhole`, `CredentialsStayHome`; `RunsWholePlugin`, `EveryCallReturns` | Builds: lists of up to 2 groups with up to 2 scopes each (duplicates need two, and a third group meets the same table), artifacts up to two labels below a wildcard. Inputs: lists of up to two items (one good, one bad, in both orders), rules nested three deep and reports two deep with every field missing, of its type or of a wrong one, four providers with secrets of two registries and hosts of which two have six labels. Host: 2 calls, 2 concurrent downloads, 3 downloads in all (install, overlapping or broken replacement, repair), the code's 5 retries |
| `executor_manager` | `Converged`, `ServesDesired`, `SucceededIsServed`, `RequestsReachOwners`, `NoServiceGap`, `EventuallyServed` | 2 objects, 3 specs (one cannot be built), 3 edits, 1 restart: an object can be served, broken and repaired or deleted while its sibling is reconciled |
| `verify_server` | `ItemsAnswerKeys`, `FlightsAreLed`, `BoundedStaleness` | 2 handlers, 3 references (tag, digest, malformed), 2 executors, clock to 3 with timeouts and lifetime 1: a stale entry can be read, expire and be read again |
| `verify_server_live` | `BoundedDuration`, `EveryRequestAnswered` | 2 requests with the same two keys in opposite orders, so that each can lead one key and wait for the other's |
| `config_watcher` | `TypeOK`, `ServesFile`, `WatchedIsServed`, `ImplementsServedFile` | 5 versions of the file, one of them unbuildable: a replacement during a re-watch and another one after it |
| `cert_watcher` | `TypeOK`, `ServesRotation`, `HandshakeReady` | 3 files, 3 versions: two rotations, the second during the load of the first |
| `credential_cache` | `TypeOK`, `HitsAreLive` | 2 callers, 2 registries, a cache of one entry, tokens that expire before and after the horizon |
| `resource_controllers` | `Isolated`, `KnownIsFound`, `MapsConverge`, `BrokenProviderIsRefused`, `EventuallyInForce`, `EventuallyQuiet` | each kind with a cluster-wide and a namespaced object (policies: a third, misnamed one), good and broken specs, 2 edits (3 for certificate stores, of which there is one), 1 fault or restart: an edit can fall between any two operations of a reconcile, its retry and a request's two loads |
| `startup` | `ServesUntilShutdown`, `NothingIsCut`, `EventuallyListens`, `SignalEndsProcess` | every command line, 2 signals (one swallowed, one taken), 2 requests of up to 2 keys, clock to 5 with timeouts 2 and 1: requests that fit into what `Shutdown` waits, just fit and do not fit |

Three runs show a disagreement between the code and what the repository says of it
(TLC finds the counterexample; `PROJECT.json` "findings" quotes the text):

| Run | What happens |
|---|---|
| `deleted_is_not_served` | after the last object is deleted, or one is deleted while a sibling cannot be built, the refresh fails and the deleted executor keeps answering |
| `wildcard_covers_subdomains` | `*.example.com` is said to match any subdomain of `example.com`; one label is cut off, so an artifact of `b.a.example.com` is refused. `RoutesToMostSpecific` says what does hold and names this refusal |
| `no_denied_finding_is_accepted` | a report is said to be verified to contain no deny-listed CVE and no disallowed severity; a CVE in the second run of a SARIF report is not looked at. `AcceptsOnlyClean` is about the part that is |

Some behaviours of the code are easily overlooked. The models have them, and the
properties are stated so that they do not hide them:

- A request that joins a call fails with the leader's deadline, before its own.
- A configuration that changes between the first load and the watch is loaded only
  at its next change; after a move of the file the watch is gone.
- An expired or unreadable token is an error of the parser, an error means the
  default lifetime, and so it is cached for that long.
- A first SIGTERM between the manager's registration and `Run`'s stops the manager
  only; the server runs on.
- `Shutdown` waits for one verification timeout: a verification of several keys, or a
  mutation that may take longer than that, is cut.
- The manager's exit with an error ends the process with the server in it.
- A fetch that fails leaves a key management provider's earlier secrets in force;
  in the namespaced controller so does a refresher that cannot be created.
- A replacement of a plugin that breaks off leaves half a file with the old
  mode, which is run. Downloads that overlap mix their contents in one file, which
  the last chmod makes executable. After the last retry of a busy file the call ends without
  output and without an error of the exec.
- A pull secret of type `dockercfg` passes the check of types and then always fails.
- Any host name of six labels is shown the account's ECR token for the region in its
  fourth label, and an ACR registry whose instance is not configured a token of the
  default instance: these providers take a name at its word.
- The vulnerability and SBOM plugins look at the first blob only.
- A CA bundle of which only a part can be read is accepted with that part, and
  `caBase64` beside `caPem` is not looked at.
- An empty directory makes a Notation verifier that trusts nothing.
- The fraction of a threshold is cut off, and a result whose detail cannot be
  marshalled is dropped with its reason.

Deadlock is not checked in the runs: once the bounds on edits, clock or versions
are used up, and in the real system when no request or event arrives, there is
nothing to do.

The type invariants of `ExecutorManager` and `VerifyServer` say no more than the
types and are proved (`TypeCorrect`), so no run repeats them; those of the watchers
and of the credential cache also say what may never be stored.

Fairness. `ExecutorManager`: the informer delivers, a queued name is eventually taken
(the work queue is first in, first out, so a name that keeps being re-queued is not
passed over: strong fairness), and a reconcile ends, since each of its stages is a
bounded computation or a call with an outcome. Edits and restarts are not fair.
`ResourceControllers`: the same for the workers' steps and for taking each object
from the queue; edits, faults, restarts and requests are not fair. `VerifyServer`: a
goroutine that can step is scheduled, and a call returns, with an error if need be;
arrivals and the clock are not fair. `ConfigWatcher`: its goroutine is scheduled, and
the kernel removes an inode nobody links to; changes of files are not fair.
`Startup`: the three goroutines are scheduled, the rotator writes its certificates,
time passes, and a handler returns by the end of its longest stay (the calls it leads
or waits for end with their contexts); signals and requests are not fair.
`PluginHost`: a call makes its next attempt, and a plugin that was started exits;
downloads are not fair and may stall with the file open.

## 4. Proofs

All theorems hold for every value of the constants under the named ASSUMEs
(finite bounds are natural numbers, options differ from the value that means
"absent", inputs are well formed). The bounds on the clock and on edits are
arbitrary, so the proofs do not rest on them.

`ExecutorManager_proofs`: `TypeCorrect`, `OptionsConverge` (`Converged`),
`DesiredIsServed` (`ServesDesired`), `SucceededStatusIsTrue`
(`SucceededIsServed`), `ServiceHasNoGap` (`NoServiceGap`), for any set of
objects and specs and any faults. `Converged` speaks of states at rest only and is not
inductive. The invariant says where the knowledge is while it travels: for every
name, the informer is fresh or the event is still to come; the lister's copy is
what the options hold, or the name is queued, or the reconcile under way is about
to store or delete it. Similar clauses tie the pointer to the options after a
refresh that succeeded, and a succeeded status to the pointer or to an event under
way that will rewrite it.

The same module proves what the executor it serves does with a request.
`RegistrationKeepsOneOwner` (what `registerExecutor` accepts and adds) and
`RoutesToMostSpecificScope` (`matchExecutor` finds the owner of the one most
specific covering scope, or nothing if every covering scope is a wildcard two or
more labels above) are about one turn and one look-up, for tables of any size
and names of any length. They rest on `Holds`, which says a table is the one of an
assignment of owners to legal scopes, and on three facts: the number of stars and
the prefix tell a legal scope, two legal scopes never share a key, and each of the
three look-ups finds the covering scopes of one degree of specificity. The loops
around them are recursive functions of the number of turns. That such a function
has a value after every turn, and that `Holds` is kept from turn to turn, is
induction on that number, which `UpTo` provides from the well-foundedness of `<`.
So for lists of groups of any length `BuildsExactlyLegalConfigurations` says when
`NewScopedExecutor` succeeds, `BuiltTablesRoute` what its tables hold and
`BuildIsDetermined` that the random order of the options map changes neither. As
properties of specifications these are `BuildSucceedsExactlyWhenLegal`
(`BuildsExactlyWhenLegal`), `EveryProbeIsRouted` (`RoutesToMostSpecific`) and
`RoutersNeverDisagree` (`RoutersAgree`: the executor's, the Cosign verifier's and the
store's tables) of `BuildSpec`, and `EveryRequestReachesItsOwner`
(`RequestsReachOwners`) of the executor manager; the invariant for the last one says
that the pointer's table is that of the options it was built from. Scopes are
taken as the registry library delivers them (`ScopeStrings`: a string that parses
has a host, and a tag or digest follows a path; `References`: an artifact that
parses names a repository and has no star in its host): this is what
`SpecsAssumption`, `ArtifactsAssumption`, `ConfigurationsAssumption` and
`ProbesAssumption` ask of the inputs.

`VerifyServer_proofs`: `TypeCorrect`, `NobodyWaitsInVain` (`FlightsAreLed`),
`StalenessIsBounded` (`BoundedStaleness`), `KeysAreAnswered` (`ItemsAnswerKeys`),
`DurationIsBounded` (`BoundedDuration`). The first invariant joins the types to
the shape of requests (as many items as keys already answered, exactly one flight
per leader) and the two directions of "waits on" and "is led by". The second
bounds time: a flight's executor was current when it began, its leader arrived no
later, a cached value expires one lifetime after a call that ended by its
deadline, and so every item is inside the window. For the answers it says that a
cache entry is about the artifact of its key and of the kind of its handler. For
the duration it charges one timeout to every key already answered: a request that
looks up its next key has used no more than that, and a flight it leads or waits
on began no later, so that the leader's deadline bounds the waiter too.

`CredentialCache_proofs`: `TypeCorrect`, `CachedTokensAreLive` (`HitsAreLive`).
The invariant carries the date of a lifetime through the deferred `Set`: a token
that told its lifetime expires no earlier than its cache item, because the buffer
taken off is at least the lag. The theorem assumes exactly that
(`MaxLag <= Buffer`, five minutes in the code).

`ConfigWatcher_proofs`: `TypeCorrect`, `FollowsWatched` (`WatchedIsServed`),
`FollowsFile` (`ServesFile`) and `RefinesServedFile` (`Spec => Contract!Safety`),
for any number of versions of which any may be unbuildable. The invariant follows
a change on its way: inodes and watches are of versions there have been, so that a
new file is on an inode nobody watches; without a mishap the file is watched or the
event that ended the watch is in the queue; and a watcher that waits serves the
file, or its watch is on an inode whose removal is still to come, or an event that
makes it load is in the queue. `ServedFile` has a safety
part (what is served is replaced in one step by what the file says) and a part
about following again and again; the refinement of the first is proved step by
step, the second stays with TLC.

`CertWatcher_proofs`: `TypeCorrect`, `FollowsRotation` (`ServesRotation`),
`HandshakesAreReady` (`HandshakeReady`). The same argument for two or three files
that are read one after the other: what was read before a change has the event of
that change still ahead of it. The CA pool and the pair are tracked apart, because
`loadCerts` may store the one and fail on the other; both are there from the first
load on.

`Startup_proofs`: `ShutdownCutsNothing` (`NothingIsCut`) and `StaysUntilShutdown`
(`ServesUntilShutdown`), for any command line, timeouts and number of signals and
requests. Once `Shutdown` was called nobody listens, so everything in flight
arrived before; after `VerifyTimeout` what is left may stay longer than that, one
timeout per key. And whoever has passed `certRotatorReady` finds the certificates written.

`PluginHost_proofs`: `OnlyWholePluginsRun` (`RunsWholePlugin`), for any number of
calls and of overlapping downloads. What runs was copied to the end, or broke off
while it replaced an executable, or was shared by downloads that overlapped. The
invariant gives every download a version of its own, so that what it says of the
contents counts only while the file is its own; a file that is being written is held
open, which the "text file busy" rule keeps from running; a file that nobody shares
is written and made executable by its creator alone. So of an executable that is
not shared and replaces no other, all was copied before it was made so.

The same module proves what plugins make of any inputs: `TrustIsExact`
(`TrustsExactlyConfigured`), `OnlyCleanIsAccepted` (`AcceptsOnlyClean`) and
`CredentialsAreKept` (`CredentialsStayHome`), of `JudgeSpec`. Every auth provider
returns nothing, or what was stored under the name it was asked for, or a token for
the region or instance this name gives; for lists of secrets of any length this rests
on the least index that decides (a minimum exists because `<` is well-founded).
`SoundCredentials`, part of `InputsAssumption`, says that an entry of a file or
secret belongs to the host it is stored under. For the trust of a Notation verifier,
`Gathers` describes the trust store after any number of turns of `initTrustStore`
(each type so far named once, with the certificates of its own option), and one lemma
per kind of provider says that a provider that was built holds all its source says
(`Faithful`); the registry store trusts what of its bundle can be read. That reading
each physical file once loses nothing needs a file to be the same file both times it
is met (`InputsAssumption`, which otherwise asks only that slices are sequences and
packages are named by name and version). For documents one lemma per plugin says
exactly what is accepted; the severity that counts is that of the last rule with the
id, which exists because a report is finite, and the first blob that is not accepted
exists because `<` is well-founded.

`ResourceControllers_proofs`: `SettledIsInForce` (`MapsConverge`), `BrokenIsRefused`
(`BrokenProviderIsRefused`), `RequestsAreIsolated` (`Isolated`) and
`KnownStaysFound` (`KnownIsFound`), for any objects, specifications, edits, faults
and restarts. None of the four is inductive, since all of them are broken and
mended while a reconcile goes through its operations. The invariant says of the
operations a worker has still to do (`Sound`): they are on its own object, each on
a map of its own; when they are done the maps hold what the specification asks for
(`Leaves`), unless the reconcile returns an error and so comes back; a broken
provider's leave an error in both error maps; and unless the object is gone, no
operation drops a value, nor an error before its value is stored (`Careful`). One
lemma per kind of resource shows that every outcome of `Reconcile` is of that sort,
and two show that an operation of the own and of the other worker keeps it. Around
it, an object outside the queue has its latest specification at its worker or in
the maps, and a policy entry always has the one name a policy may have, so that the
removal of another policy plans nothing. A request that knew its resource has the
error or the value in the maps before its first load and the value before its
second. The assumptions are that objects are resources, certificate stores are
namespaced and no object has the name that marks an empty place.

Only model-checked:

- liveness, which needs fairness and ENABLED: `EventuallyServed`,
  `EveryRequestAnswered`, the fairness part of `ImplementsServedFile`,
  `EventuallyInForce`, `EventuallyQuiet`, `EventuallyListens`, `SignalEndsProcess`,
  `EveryCallReturns`;
- `TreesAreWhole`: `PolicyTrees` declares RECURSIVE operators, which the prover does
  not support.

## 5. Not modelled, and why

- The legacy verifier cache (`pkg/verifiercache`): one map behind one lock with a
  fixed lifetime, which nothing but its tests calls.
- The legacy policy providers: the decision is an evaluation of Rego in a library.
  How a policy is put in force is part of `ResourceControllers`.
- Implementations of a refresher: the repository has none. A refresh is one
  call that saves the secrets or fails.
- The write deadline of a connection (`server.go:227`): with a verification timeout
  above five seconds a timely answer can no longer be written. It is listed as a
  hazard and has no property, since net/http is not modelled.
- The status of an object whose sibling was repaired stays "failed" although the
  object is served, because only its own reconcile writes it; and an object with
  two stores can never be built, because a CRD store carries no scopes
  (`BuildsExactlyWhenLegal` covers the refusal).
- The constructor of the filesystem store, the static credential and the identity
  options of Cosign: what they do with their own parameters is the bit "creates" of
  `PluginFactories`, because no property depends on more of it.
- Tokens that an AWS auth provider keeps across calls: the only caller in the model,
  the download, makes a provider for each call.
- The merging of environment variables for plugins (`args.go`), the choice of
  default paths, the sample plugin.
- What verifiers, stores and policies decide (libraries), wording of messages,
  logging, metrics, tables of error codes.

## 6. What could follow

Every safety property of the runs but `TreesAreWhole` is proved. The next step is
the composition of `ServedFile` with `VerifyServer`, so that staleness is
bounded from the change of the file to the answer, and an abstract
specification of its kind for `ExecutorManager`.
