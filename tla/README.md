# sandbox-codex in TLA+

Verification development for this repository. It models, model-checks (TLC) and
proves (TLAPS) the parts of the program whose correctness rests on the order of
steps: the authentication proxy with its credential case and its container, the
launch of a worker under a durable request ID, the lifecycle of workers that
share a name, the admission of VMs at the node, the engine's networks and
tasks, the files of a credential profile, and a worker's way out to the
network. Every definition is translated from the Go source; `PROJECT.json` maps
each to its lines.

Contents: [the system](#the-system) · [modules](#modules) · [runs](#runs) ·
[proofs](#proofs) · [divergences](#divergences-from-the-documentation) ·
[limits](#what-is-not-modelled) · [plan](#plan)

## The system

The program runs coding agents in Kata VMs. A Product process (the CLI or a
program using `pkg/cxd`) talks to a node: the engine that owns containers and
the guard ("kataguard") that admits VMs. An agent never sees a credential: it
holds a placeholder token, and an auth proxy swaps it for the real one, which
lives in a credential case in a store.

| Component | State it keeps | Operations | What makes it correct |
|---|---|---|---|
| Auth proxy, token ledger (`internal/authproxy`) | tokens by container and by value, revoked runs, `caseRevoked`, leases | issue, restore, revoke token / run / case, expire, stop | the two indexes agree; a revocation wins over whatever is in flight; a replaced case hands out nothing; a stream ends with its lease |
| Auth proxy, OAuth refresh | published generation of each provider under `p.mu`; `refreshMu` | refresh, persist, publish | only durable generations are used; a single-use refresh token is presented once; a crash loses no usable login |
| Credential store (`pkg/cxd/credentialstore`) | versioned case on disk (plain, encrypted, or behind a socket) | load, create, save refresh, delete; vault unlock and lock | an optimistic save never overwrites a newer login |
| Launch ledger (`internal/kataguard/launch.go`) | one durable record per request | claim, finish, abort, status, retry | one launcher at a time, one final answer, no recreation |
| Product client (`pkg/cxd`) | none of its own | Launch, Create, Remove, RemoveRequest, ... | the answer is a worker of the request; errors tell which outcome is unknown |
| Sandbox manager (`internal/sandbox`) | removal journal, lifecycle locks (flock), configuration records | run, start, stop, quarantine, remove, exec, jobs | resources are undone in reverse; a removal can be resumed at every point |
| Node admission and inventory (`internal/kataguard/host_linux.go`, `inventory*.go`) | allocation records, cgroups, `admissionLock` | reserve, verify, release, recover orphan | a released VM sits in the envelope that was counted; capacity holds; recovery spares the living |
| Engine (`internal/engine`) | containers, creation intents, networks, tasks, execs, jobs | create, connect, start, stop, quarantine, delete, exec, recover after restart or reboot | half-made objects stay recorded; a guest is behind its firewall; quarantine is final; nothing returns after a delete |
| Network client, egress policy, worker egress proxies | kernel and engine networks, rules, proxy containers named by their rules | create, remove, decide, narrow, ensure proxy, explain | removal by exact ID; a worker never leaves the policy of its launch; the explanation says what is enforced |
| Proxy and profile commands (`cmd/proxy*.go`, `cmd/auth_profile*.go`, `pkg/cxd/case_proxy.go`) | the container at one name, its labels, the profile's header and connection | proxy run / stop / rm, key delivery, encrypt, passwd, lock, EnsureCaseProxy | a token stays with the login it was meant for; no proxy is left waiting for its key |
| Local keyring session, environment lock, worktrees, templates, reports | files and processes of one command | wrappers | no protocol between processes |

How they interact. Product -> ledger and guard by RPC on a Unix socket;
Product -> engine by RPC; engine -> guard and guard -> engine by callbacks, each
holding a lock of its own; Product -> proxy admin API (issue, restore, revoke);
worker -> proxy by HTTP and WebSocket; proxy -> issuer by HTTP; proxy and
Product -> credential store, independently of each other.

What is hard here:

* **interleavings**: a proxy decision made outside `p.mu` (generation check,
  refresh) races the revocations; two launchers act under one name;
* **lost and late answers**: the issuer, the store, the engine and the ledger
  can each commit and lose the reply; finish and abort are handled late;
* **crashes** between the issuer's rotation and the save, between any two steps
  of a launch and of a removal;
* **time**: token leases, the five-minute launch lease, the five-minute age of
  an unbound reservation, 35-second RPCs against a 180-second launch;
* **partial failure**: every undo step can fail too;
* **names**: engine containers, networks, proxies and proxy tokens are found by
  a name whose holder can have changed since it was looked up.

`PROJECT.json` lists the hazards one by one at the line where each bites.

## Modules

```
CredentialCase <---EXTENDS--- AuthProxy <--- AuthProxyProofs   (TLAPS)
                                  ^------------ MCAuthProxy      (TLC)
RequestPromise <--INSTANCE--- LaunchLedger <--- LaunchLedgerProofs (TLAPS)
                                  ^------------ MCLaunchLedger   (TLC)
               WorkerLifecycle <--- WorkerLifecycleProofs        (TLAPS)
                       ^------------ MCWorkerLifecycle           (TLC)
KataAdmission <-- MCKataAdmission (TLC) +
EngineNetworks -----------------EXTENDS-+--> MCNode <-- NodeProofs (TLC, TLAPS)
ProfileVault ------------------+
EngineTasks -------------------+--EXTENDS--> MCServices          (TLC)
NetworkPolicy <-- WorkerEgress +
ProxyContainers ---------------+
EngineTasks <--------------------- EngineTasksProofs             (TLAPS)
ProfileVault, ProxyContainers <--- LoginProofs                   (TLAPS)
WorkerEgress <-------------------- WorkerEgressProofs            (TLAPS)
MCServices and these three <------ ServicesProofs                (TLAPS)
```

### CredentialCase

The case in the store (`store.go`, `file.go`, `oauth_state.go`): `store` is a
version, a token generation per provider, and the version of the last login.
`SaveRefresh` replaces one provider's tokens if the version still is the one
the caller loaded, and leaves the other provider's alone; `Create` is a login
or a logout by the product. Each is one step because `FileStore` holds the
directory's flock across read, compare and rename.

### AuthProxy

One proxy process with a credential store, its administrators, its workers and
the issuer. State and code:

| variable | code |
|---|---|
| `tokens`, `byValue`, `revokedRuns`, `caseRevoked` | the fields of `Proxy` under `p.mu`; a record is named by the call that installed it |
| `cancelled`, `expired` | lease contexts that were cancelled or have passed their deadline |
| `pc`, `arg` | a goroutine serving issue or restore: where it takes or gives up a lock, and what it was asked |
| `req` | a goroutine serving a worker request, including its refresh and its stream |
| `refreshMu` | the holder of that mutex |
| `creds`, `storeCreds`, `storeVersion`, `caseConn` | the generation in memory, the one last loaded or saved with its version, the login the proxy was started with |
| `phase` | running, in `Stop`, down |
| `store`, `lastVersion`, `valid`, `lastToken` | `CredentialCase`: the durable case, and the refresh tokens the issuer still accepts |

An admin call is: take `refreshMu`, load the case, compare it with the
published one, revoke everything when they differ, release, then install under
`p.mu` after rechecking `revokedRuns` and `caseRevoked`. The gap between the last
two is where the hazards of `tokens.go:47` and `restore.go:36` are. A refresh
is: take `refreshMu`, look the token up again, refresh at the issuer, save,
publish, release; every arrow can fail, lose its answer, or see the proxy die.
A worker's `/oauth/token` also reads that worker's body under the mutex
(`ReadBody`, `RefuseBody`) before it calls the issuer.
`Stop` and `Restart` are actions of their own.

Three history variables serve the properties only: `adminRevoked`,
`saveFailed`, and `lost`, the rotations that never became durable.

### RequestPromise and LaunchLedger

`RequestPromise` is what the node promises of a request ID: who may act on it,
which workers exist, what the final answer is. A grant needs no holder, no
worker and no answer; a worker is created by a holder, when there is none; an
answer needs no holder; an answer never changes. A holder that outlives its
lease (`Forfeit`) puts the request into `void`: from then on a grant and an answer
no longer need the other holders to be gone. The rest is promised of such a
request too, and of the other requests everything.

`LaunchLedger` is the protocol that is meant to keep it:

| variable | code |
|---|---|
| `record` | the launch record; `aged` is the lease deadline having passed |
| `call` | `Client.Launch`/`Create` and `Manager.RunContext` under it: program counter, what it has made, `createdID` |
| `late` | finish and abort messages, handled while the client waits or after |
| `status` | the engine's worker of each call |
| `net`, `alloc` | the network and the allocation under the request's name |
| `journal`, `lock`, `removal` | the removal record, the lifecycle flock, and the step the removal that holds it is at |
| `overran` | history: the requests one of whose launchers outlived its lease |

The launch RPCs are one step each since `launchMu` serialises them, with the
lookup in the engine and the inventory inside. `ClaimAnswered`, `ClaimFinds`,
`ClaimBusy` and `ClaimGranted` are the exits of `claimLaunch`; `Setup` to
`VerifyWorker` are the acquisitions of `RunContext`; `Undo` is its failure
path while the worker's ID is unknown, and `BeginRemoval` to `Forget` the
journaled removal by the failed launcher or by the Product. Each acquisition
can fail before or after its effect; `Crash` kills the process at any point and
releases its flocks. The errors are collapsed to `failed` (their names are in
the comments): no property tells them apart.

### KataAdmission

`LaunchLedger` treats a reservation as one variable of its request; this module
opens it up, for several workers that share a node.

| variable | code |
|---|---|
| `record` | the JSON files in `StateDir/allocations`; `recent` is `CreatedAt` less than five minutes ago |
| `cgroup` | the directories `cdx-*` under `CgroupRoot`, "bare" without all of their limits |
| `vm` | whose processes are in the envelope (`cgroup.procs`) |
| `engine` | the engine's record of each worker: never made, present, deleted |
| `bmu` | the start or stop that holds `Backend.b.mu` while it waits for the VM |
| `op` | the guard request that holds `admission.lock`, the step it is at, what it observed, and whether its caller still waits |
| `client` | the Product's caller of each worker, at most one (the lifecycle lock) |
| `released` | workers whose user code the bootstrap let go |

`Reserve` is the part of `ReserveProfile` up to `trackAllocation`,
`ReserveMkdir` and `ReserveLimits` the rest: the node can die between them.
`Verify` takes the lock and scans the processes; `VerifyInspect` is the engine
lookup in `trackAllocation` that waits for `b.mu`. `Release` starts
`releaseUnlocked` (`ReleaseCheck`, `ReleaseRemove` or `ReleaseFails`,
`ReleaseForget`). `Recover` is the observation of one envelope, `RecoverList`
the decision on the engine's list, `RecoverConfirm` the lookup of the exact
worker, `RecoverKill` the kill; then it goes on as a release. Each request
holds the lock from its first to its last step. On the engine's side,
`CreateWorker`, `StartBegins`/`StartEnds`, `StopBegins`/`StopEnds` and
`DeleteWorker` run under `b.mu` and call the guard back (`AbortCreate`,
`RetireReady`) without `admission.lock`. `BeginLaunch`, `BeginCall` and
`HangUp` are the callers; `VMExits`, `Vanish` and `Reboot` the surroundings.

An allocation can outlive its worker: the label of a worker names it (`Home`),
and a later launch of the same request gets a new worker in the same
allocation.

### WorkerLifecycle

`LaunchLedger` follows one request; this module follows one *name* through
several workers, with every operation of the manager on them.

| variable | code |
|---|---|
| `engine`, `mark`, `reserved` | what the engine says of each worker ("waiting": PID 1 is still the bootstrap), its durable quarantine label, its reservation |
| `net`, `token` | for which worker the network and the placeholder of the name were made |
| `journal`, `lock` | removal records, lifecycle flocks |
| `op` | what each Product is doing: kind, step, what a run has made, whether an earlier step failed |
| `request` | starts at the engine and restores at the proxy that are not handled yet |

An operation inspects (`BeginCall`), takes the lock (`TakeLock`) and then goes
step by step; `OnFail` is the error path of each kind: a run rolls back
(`Rollback`), a start that has its reservation revokes, stops and releases, the
others just end. `FailStep` lets any step fail before its effect, `Answer` after
it. `EngineStarts` and `ProxyRestores` handle a request whether or not its
caller still waits. `answered` and `late` are history variables: the last
success reported of a worker, and that a restore was handled after its caller
had given up.

### ProfileVault

The files of one profile: `plain`, `vault`, `backup` and the keyring items
(`ring`). Operations that write more than one of them are cut at each write
(`BeginEncrypt`, `WriteEncrypted`, `Unlink`; `BeginMigrate`, `BackUp`, `Migrate`;
`BeginCreateKeyring`, `CreateKeyring` or `StrandItem`); those that write one
file are one step under the profile's flock. A caller's `handle` is the open
store: its kind, the header and key it unlocked, and the record it last loaded.

### EngineNetworks

Records on disk (`netRecord`, `boxRecord`), containerd (`native`, `task`) and
the kernel (`bridge`, `table`, `link`, `namespace`). A handler is the sequence
of writes that the code makes (`CreateNetworkSteps`, `ConnectSteps`,
`StartSteps`, `DeleteSteps`, ...), and `handler` says which one runs, at which
step, on which network and container. `Execute` does the step and moves on to
the one after it (`Advance`). Where the code ranges over the networks of a
container (`LoopsOf`), `NextNetwork` takes the next of them, in any order, or
leaves the loop. A container is created on and connected to networks that are
recorded (`Usable`); an internal one must also have been answered, since the
Product asks for a worker only then, while the egress network is adopted by name.
`Fail` gives up at any step: a creation continues with its undo
(`cancelCreation`) once its record is written, and because a creation in containerd that timed out "may
have committed", the container may exist then. `NodeDies` and `HostReboots` cut a
handler anywhere. `Open` begins recovery; `Reconcile` takes the next object that
is out of step (intents, then networks, then namespaces) and starts the
handler that reconciles it, and `Recovered` serves when nothing is left. An
interface or a bridge without its alias is "bare": the engine refuses to delete
what it cannot recognise.

### EngineTasks

One worker's task, its watchers, streams and jobs. `op` is the handler that
holds `Backend.mu`. A stream is checked under the lock (`StreamBegins`) and
runs its process after releasing it (`StreamRuns`); a job's start keeps the
lock. `Watch` and `WatchJob` are the goroutines that wait for an end and then
for the lock. `ServerDies`, `ServerOpens`, `ServerReady` are the restart with
`recover` and `recoverJobs`. `caller` is what a client was told, `fenced` that a
quarantine was answered or completed by a restart.

### NetworkPolicy and WorkerEgress

`NetworkPolicy` holds the pure decisions: `DestinationAllowed` and
`AddressAllowed` (`Permits` is both), `Narrows`/`Narrowed`, the presets
(`Resolved`), `Explain`, and the flags a proxy is created with next to the
parser that reads them back. `WorkerEgress` is the system around them: a launch
plans (`Launch`), finds or makes the proxy of its rules (`Adopt`,
`CreateProxy`, `StartProxy`), attaches it and starts the worker; the host's
policy and the proxies change at any time; a connection is asked, resolved,
dialled, and perhaps redirected (`flow`).

### ProxyContainers

The container at the auth proxy's name (`box`), the connection and header of
each owner's credentials (`conn`, `print`), one worker with its labels, its
token (`held`), and the commands under way (`cmd`), each of which inspected
something before it acts. A creation opens the profile (`Configure`) before it
calls the engine (`CreateProxyBox`), so a new key can come between. `moved` says that the container a command looked at
is gone, `left` that the command which had to deliver a key is. A login is an
owner (host, profile or case) with a connection version.

### MCNode

Admission and networks are two ledgers of the node that share no state: `ledger`
is chosen at the start and only that one takes steps.

### MCServices

ProfileVault, EngineTasks, WorkerEgress and ProxyContainers share no state, so
one instance serves them all: `service` is chosen at the start and only that
module takes steps.

## Runs

| run | instance | shows |
|---|---|---|
| `ledger` | 3 admin calls, 2 containers, 2 placeholder values, 1 run, the product's disconnect | `IndexesAgree`, `RevocationSticks` under every interleaving with revoke (token, run, case), expiry, stop, restart |
| `live` | 2 admin calls, 1 request of either provider that refreshes, and a disconnect | `NoSelfRevocation` and, with fairness, `CallsSettle` and `StreamsEnd` |
| `refresh` | 2 requests on both providers, 1 admin call, 3 case versions, 2 new tokens per provider | `NoTokenForReplacedCase`, `PublishedIsDurable`, `NoReplay`, `RestartLoadsUsableCredentials`, `LoginNeverOverwritten`, with failing saves, lost answers, logout, login and crashes; also `TypeOK` |
| `stop` | 2 admin calls, 1 API-key request | **violated**: `StopRevokesAll` |
| `launch` | 2 calls of one request, each Launch or Create, which may outlive their lease | `KeepsPromise` (refinement of `RequestPromise`), `ReleasedHasReservation`, `RemovalIsRecoverable`; also `TypeOK` |
| `slow` | as `launch` | **violated**: `NoRecreation` |
| `answer` | as `launch` | **violated**: `LaunchAnswersStarted` |
| `node` | *admission*: 2 workers with an allocation each, room for one; *networks*: 2 networks, a worker and its proxy, 7 handlers and restarts | `Capacity`, `EnvelopesTracked`, `ReleasedIsBound`; `GuestBehindFirewall`, `LeftoversAreRecorded`, `RestartSparesTasks`; also `NodeTypeOK` |
| `reuse` | 2 workers, one after the other, in one allocation, with fairness | `RecoverySparesLiving`, `AdmissionProgresses` |
| `lifecycle` | 2 workers of one name, 2 Products, 4 calls | `WorkerKeepsResources`, `AnsweredIsRevoked`, `RemovalLeavesNothing`, `QuarantineIsFinal`; also `TypeOK` |
| `revoke` | as `lifecycle` | **violated**: `RevokesOnlyOwn` |
| `services` | one of four services per behaviour, instances below | *vault*: `LoginIsKept`, `RekeyIsFinal`; *tasks*: `QuarantineEndsWork`, `ExitIsOfLatestTask`, `IdleStopSparesWork`, `DeletedLeavesNothing`; *egress*: `WorkerStaysInsidePolicy`, `ExplainedIsEnforced`; *proxy*: `TokensStayWithLogin`, `NeverKeyStarved`; also `ServicesTypeOK` |

Every property of a passing run has a mutant in `PROJECT.json`: a plausible
bug in one mapped definition that makes TLC find it violated.

### Bounds, and why they are enough

* *AuthProxy.* The ledger's hazards need one record replaced by a second while
  a third call is between its check and its installation: three calls, two
  containers, two values. A refresh hazard needs a holder of `refreshMu` and a
  queued request; both providers, so that one's save meets the other's. The
  versions (`MaxVersion`) allow a logout, a login and a refresh between a
  proxy's load and its save; `MaxToken` bounds rotations, since a replay needs
  one rotation and one later use. Expiry, failures and losses are not bounded.
* *LaunchLedger.* Every hazard is a launcher against one other launcher, with
  any number of removals, late messages, crashes and recoveries, all of them
  unbounded. Calls of different requests share no state in this module, so one
  key suffices; a third call multiplies the states past what TLC can do in
  minutes.
* *KataAdmission.* The limit needs one allocation more than there is room
  for. Recovery and late releases need a worker that is gone and one that
  takes over its allocation, hence two workers with one `Home`. Nothing else is
  bounded: starts, stops, removals, recoveries, crashes and reboots repeat for
  ever.
* *WorkerLifecycle.* A name has one holder at a time, so the hazards need the
  first worker, its successor, and a Product that acts on each; four calls
  (`MaxCalls`) are two runs and two operations that meet. Deaths, failures and
  late answers are not bounded.
* *ProfileVault.* Two callers, of which one changes the files while the other
  holds a handle; ids up to `MaxId` = 8 allow a login, an encryption, a
  migration or a rekey, and refreshes on both sides of them.
* *EngineNetworks.* An internal network and one with a way out, one guest and
  one proxy container: all kinds of endpoint, and a container with two. Seven
  handlers and restarts of the node (`MaxOps`) build a network, create and
  connect both containers, start the guest, take something away and recover
  from it; each can fail or die at each of its steps, and the failures, crashes
  and reboots themselves are not bounded.
* *EngineTasks.* Two tasks (`MaxTasks`), since a late watcher needs a second
  one, and two executions, one of which may be a job.
* *WorkerEgress.* A name, a subdomain of it, another name and a literal; a
  public address, one in a range and a private one; two ports; three policies
  (none, default-deny by name, rules by address and port) and six wishes, so
  that every rule decides some request; two proxies, so that the wrong one can
  be met. One worker: workers share only proxies, which the environment
  creates, stops and removes as well.
* *ProxyContainers.* One profile, one case and the host's credentials compete
  for the name through two commands; one new connection version or header
  (`MaxLogins` = 2; 1 is in use from the start), since a command has to be
  overtaken only once. The theorems hold for every number.
* Symmetry of `services` permutes the two callers, which are also the two
  commands and the two executions: one service runs per behaviour, so a
  permutation of the others changes nothing.
* Calls of the proxy and the launch ledger are one-shot, and workers of
  KataAdmission never come back once deleted, so a finished instance stops:
  hence `CHECK_DEADLOCK FALSE`; so do the modules with a bound on their calls.
  That nothing waits for ever is `CallsSettle` and `AdmissionProgresses`.
* Symmetry is used only in runs without a liveness property.

### Fairness

Two runs need it. In `live` (`FairSpec` of AuthProxy): strong fairness on taking `refreshMu`:
Go's `sync.Mutex` hands over to a waiter that has starved for a millisecond.
Weak fairness on the steps of its holder that have a deadline of the proxy: the
loads and saves (10 s) and the Anthropic refresh (20 s). A worker's `/oauth/token`
has none while it reads the body (`openai.go:75`; the server of `proxy.go:379`
has no `ReadTimeout`) and calls the issuer (`openai.go:103-111`, under the
request's context only): neither is assumed to end. So `CallsSettle` does not
say that every issue and restore is answered; it says that the only thing that
can keep one waiting for ever is a worker whose `/oauth/token` stays there for ever
(`Stalled`). Weak fairness on the goroutine that `context.AfterFunc` starts when a lease ends, and on the abort of
a stream whose context is done. Nothing is assumed of administrators, workers,
the issuer's success, expiry, the product, or crashes.

In `reuse` (`FairSpec` of KataAdmission): weak fairness on the steps of a guard
request and of an engine start or stop, which run to their end once scheduled
(an engine stop waits for its task at most until its timeout); weak fairness on
"the envelope is removed or the release gives up", since the context of the
request ends; strong fairness on the steps that wait for `b.mu`, a
`sync.Mutex`. Nothing is assumed of callers, VMs or the operator.

## Proofs

`AuthProxyProofs` proves, for any finite or infinite sets of calls, requests,
containers, values and runs, and any bounds:

| theorem | statement |
|---|---|
| `TypeCorrect` | `Spec => []TypeOK` |
| `LedgerConsistent` | `Spec => []IndexesAgree` |
| `RevocationHolds` | `Spec => []RevocationSticks` |

from the assumptions `AuthProxy` names on its constants (the null value is no
identifier, calls and requests differ, bounds are naturals) and nothing else. The argument is one inductive
invariant, `Inv == TypeOK /\ CallInv /\ LedgerInv /\ RevocationSticks`:

* `CallInv` (`CallShape`, `FreshValues`): the value of an issue in flight is
  nobody else's. An issue draws a random value and installs it without a
  collision check; without `FreshValues` it could overwrite another container's
  entry and the indexes would part.
* `LedgerInv` (`OnlyInstalled`, `IndexesAgree`): whatever an index names, and
  whatever was cancelled, is a record its call has installed; it is filed under
  its own container and value.
* `RevocationSticks` is preserved since the installing step rechecks, under
  `p.mu`, the flags that the revoking step set under `p.mu`.

One lemma per group of actions shows that the step preserves each part;
`Invariance` combines them and the three theorems follow.

A second invariant, inductive together with `Inv`, carries the OAuth refresh and
the generation check:

| theorem | statement |
|---|---|
| `ReplacedCaseIssuesNothing` | `Spec => []NoTokenForReplacedCase` |
| `RevokedForCause` | `Spec => []NoSelfRevocation` |
| `PersistedBeforePublished` | `Spec => []PublishedIsDurable` |
| `ReplacedTokenUnused` | `Spec => []NoReplay` |
| `RestartIsUsable` | `Spec => []RestartLoadsUsableCredentials` |
| `LoginKept` | `Spec => LoginNeverOverwritten` |

Each property relates three copies of a login - published, in the store, at the
issuer - that are never changed in one step. `RefreshInv` says how far apart
they may be at each step of the one goroutine that holds `refreshMu`
(`MutexInv`): versions only grow and one version means one record
(`VersionInv`); a generation is below `lastToken` and belongs to a login no newer
than the case (`TokenInv`, `LoginInv`); outside a refresh the published
generation is the one last loaded or saved, or the case is revoked (`SyncInv`);
what the issuer accepts is published, on its way to the store, or recorded as
lost (`UsableInv`, `DurableInv`); and a call that passed the generation check has
seen the login there was when it began (`SeenInv`). Most steps touch none of
this; `QuietInv` disposes of them, so that the long lemmas are those of the
refresh, of the check and of the restart.

`NodeProofs` proves of `KataAdmission`, for any workers, any finite set of allocations
and any limit (`AdmissionAssumption`: each worker has one home, the null value
is neither worker nor allocation, the limit is a natural number; finiteness,
because the limit is a `Cardinality`):

| theorem | statement |
|---|---|
| `TypeCorrect` | `Spec => []TypeOK` |
| `LimitHolds` | `Spec => []Capacity` |
| `EnvelopesKnown` | `Spec => []EnvelopesTracked` |

`Capacity` and `EnvelopesTracked` are not inductive: a mkdir that finds the
envelope already counted, or a record already gone, would break them. The
strengthening `OpInv` says what the holder of `admission.lock` knows at each of
its steps: at "mkdir" the record is there, the envelope is not, and there is
room; at "limits" both are there; at "forget" the envelope is gone. It survives
every step of the engine, of callers and of VMs because none of them makes or
removes an envelope or a record (`HostUnchanged`, `UnchangedInv`), and the other
guard requests because the lock keeps them out. `HolderInv` covers steps that
only take the lock or move on, `FewerEnvelopes` those that remove envelopes, and
`FS_AddElement` the one that makes one.

On top of it, for the workers themselves:

| theorem | statement |
|---|---|
| `ReleasedStaysBound` | `Spec => []ReleasedIsBound` |
| `LivingAreSpared` | `Spec => RecoverySparesLiving` |

`ReleasedIsBound` relates what the guard wrote, what the kernel runs and what
the engine lists, each changed by another process. `BoundInv` says who may come
between them: the engine has every released worker and starts none of them again
(`ReleasedLives`); a caller asks for a start, or for the reservation it needs,
only of a worker that does not run (`StartsOutside`); a verified envelope keeps
its limits until its worker is inspected (`InspectsReady`); a launch is alone in
its allocation (`LaunchesAlone`); and a recovery that has seen the engine's list
is about nobody's allocation (`RecoversDead`). The last needs the five minutes: a
reservation without a worker is taken only when no launch can still create one.

`WorkerEgressProofs` proves, for any hosts, addresses, ports, policies, wishes,
workers and launchers, and any number of proxies:

| theorem | statement |
|---|---|
| `PolicyHolds` | `EgressSpec => []WorkerStaysInsidePolicy` |
| `ExplanationHolds` | `EgressSpec => []ExplainedIsEnforced` |
| `EgressTypeCorrect` | `EgressSpec => []EgressTypeOK` |

from `PolicyAssumption` (being a subdomain is transitive, no host is below an IP
literal, the preset's registries are hosts), `EgressAssumption` (types) and, for
the types only, `NoPlanAssumption` (the value that stands for no plan is not a
plan). The argument has two halves. The pure one: `ParseServe`, a proxy reads from its flags the
rules it was created with; `NarrowingSound`, whatever `Narrowed` permits the
host's rules permit, which rests on `WithinMatches` (a domain within another
matches fewer hosts) and hence on that transitivity; and `PlansAreSound`, the plan
of every launch is below the policy of that moment. The other is the inductive
invariant `EgressInv`: proxies serve what their name and label say and agree by
name (`ProxyInv`, `NamesAgree`), so that removing and recreating a proxy changes
nothing for a worker; plans stay sound (`PlanInv`); and a connection has passed
exactly the checks of its stage under the rules some container of its plan's
name serves (`FlowInv`). `FlowKept` covers the steps that leave a connection
alone, `AskInv` both the request and the redirect. The types need, beside
`EgressInv`, that a worker has a plan exactly when it has progress
(`ProgressTypes`).

`LoginProofs` proves of `ProfileVault`, for any callers and any number of ids:

| theorem | statement |
|---|---|
| `LoginSurvives` | `VaultSpec => []LoginIsKept` |
| `RekeyHolds` | `VaultSpec => RekeyIsFinal` |

from `VaultAssumption` (the null value is none of the others, one id exists).
`LoginIsKept` is not inductive: `StepInv` says what the holder of the
profile's flock knows between two writes (at "unlink" there is a vault, at
"replace" and "create" no plaintext), and `HeaderInv` that a header is never
newer than the last id, so that every fresh one is greater. `FilesKept`,
`PublishInv` and four further lemmas cover the actions by the files they write,
and each proves the invariant and the action property together.

`EngineTasksProofs` proves of `EngineTasks`, for any executions and any number of tasks
(`TasksAssumption`: that number is a natural):

| theorem | statement |
|---|---|
| `QuarantineHolds` | `TasksSpec => []QuarantineEndsWork` |
| `IdleStopHolds` | `TasksSpec => []IdleStopSparesWork` |
| `DeletionHolds` | `TasksSpec => []DeletedLeavesNothing` |
| `ExitHolds` | `TasksSpec => ExitIsOfLatestTask` |

The invariant `TasksInv` has a part per reason: a running process has a running
task (`ProcInv`), which makes a stream that starts after the unlock harmless;
no start is under way in a quarantined worker and an idle stop has no active
execution (`OpInv`); a fence is set only with the task gone (`FenceInv`); a
deleted worker has no execution listed, so its watchers write nothing
(`GoneInv`); the hub a watcher compares with is that of the task there is
(`HubInv`); and what a client was told is still in the engine's table or on
disk (`CallerInv`, `ServedInv`). One lemma per action, one step per part that
the action can disturb.

`NodeProofs` proves of `EngineNetworks`, for any networks and containers and
any number of handlers:

| theorem | statement |
|---|---|
| `NetworksTypeCorrect` | `NetworksSpec => []NetworksTypeOK` |
| `LeftoversAreAlwaysRecorded` | `NetworksSpec => []LeftoversAreRecorded` |
| `GuestsStayBehindFirewall` | `NetworksSpec => []GuestBehindFirewall` |
| `RestartsSpareTasks` | `NetworksSpec => RestartSparesTasks` |

from `NetworksAssumption` (internal networks are networks, guests are
containers, the bound is a natural) and `AbsentNetworkAssumption` (the value for
no record is neither a record, a network nor a container).

The first half of `NetInv`, `StateInv`, is about the state alone. What makes
`GuestBehindFirewall` inductive: an interface hangs on a bridge (`BridgedLinks`), so a
bridge is taken or rebuilt only without interfaces; a network gets members
only after its firewall was saved (`MembersConfirmed`), so `verifyNetwork`, which skips a
network without a saved hash, skips none with a worker on it; a worker is recorded on
internal networks only (`GuestsInside`); and a node that serves has verified
what is built (`ServedNetworks`). That the Product creates workers only on a network
whose creation was answered (`Manager.CreateKataWorkerNetwork`) is a guard of
the model's requests and is needed.

The second half, `HandlerInv`, says for each handler what it may rely on at each of its
steps: what it has written itself, and what nothing else can have undone,
because `Backend.mu` keeps the other handlers out and because the environment - an exit
of a task, a death, a reboot - only takes away. `Fits` collects from it what a
step needs *whichever* handler runs it: "bridge" needs a record and no running
member, "dropns" nothing, "unrecord" neither bridge nor table. So the
preservation of `StateInv` is proved once per step (`NetStep` and its parts),
not once per step and handler; that of `HandlerInv` once per handler
(`Net...Step`), from lemmas that give the successors of a step
(`After...`). A failed step is the easy case: `LeftoversAreRecorded` and the
rest hold between any two steps, which is what "intent is durable before host
mutation" promises. `RestartsSpareTasks` follows since the handlers of a node that opens
are those of `Reconcile`, which act on a network without running members or on a
container without a task.

`LaunchLedgerProofs` proves, for any calls and any bounds:

| theorem | statement |
|---|---|
| `TypeCorrect` | `Spec => []TypeOK` |
| `ReservationHolds` | `Spec => []ReleasedHasReservation` |
| `RemovalHolds` | `Spec => []RemovalIsRecoverable` |
| `NeverRecreated` | `Spec => []AnswersFinal` |
| `PromiseKept` | `Spec => KeepsPromise` |

All of them hold for launchers of any speed. `NoRecreation` itself does not,
which is the divergence of the run `slow` reported below; `AnswersFinal` is
`NoRecreation` of every request none of whose own launchers outlived its lease,
and `KeepsPromise` says what remains of the others. `LaunchInv` says what the engine has of
each call at each program counter (`CallInv`), who holds a worker's lifecycle
lock (`LockInv`) and how far a removal has come (`RemovalInv`), that the engine
has one worker of a name (`UniqueInv`), and that the lease in the record of a
request that is not in `overran` is that of the only call that acts on the host
for it (`LeaseInv`).
`PromiseKept` is the refinement step by step: a lemma for each step that acts
on the promise - a claim granted or found, a creation, a deletion, a completion, a
finish, the end of a removal - and `OtherImplements` for those that stutter.

`WorkerLifecycleProofs` proves, for any workers, Products and calls:

| theorem | statement |
|---|---|
| `TypeCorrect` | `Spec => []TypeOK` |
| `ResourcesKept` | `Spec => []WorkerKeepsResources` |
| `RevocationTrue` | `Spec => []AnsweredIsRevoked` |
| `RemovalTrue` | `Spec => []RemovalLeavesNothing` |
| `QuarantineFinal` | `Spec => QuarantineIsFinal` |

`WorkerInv` has a part for each stretch of steps in which an operation knows
something. A run has its worker for itself until the engine knows it
(`EarlyInv`); a start reserves for a worker that exists (`StartInv`); a removal
past its deletion has no worker, then no network, then no reservation left
(`RemovalInv`); after a revocation without error only a late restore brings the
token back (`RevokedInv`); a confirmed quarantine has its label (`LabelInv`).
These hold although two Products interleave because all but the first steps are
under the worker's lifecycle lock (`LockInv`). The reports are tied to the state
by `MarkInv`, `GoneInv` and `RestoreInv`: a caller that waits for a restore has
withdrawn what was reported before. Requests that the engine and the proxy have
not handled yet are part of the state: a late start meets the label, and a late
restore is recorded in `late`.

`LoginProofs` proves of `ProxyContainers`, for any profiles, cases and commands and any
number of logins:

| theorem | statement |
|---|---|
| `ProxyTypeCorrect` | `ProxySpec => []ProxyTypeOK` |
| `TokensKept` | `ProxySpec => []TokensStayWithLogin` |
| `KeyDelivered` | `ProxySpec => []NeverKeyStarved` |

from `ProxyAssumption` (the owners are distinct, one version exists) and
`AbsenceAssumption` (the three absent values are none of the present ones).
`LookInv` is the heart: a command that has looked at the proxy and has not been
overtaken by a removal holds the login that the container was *created* for.
That is only useful with `LabelInv`, by which a container serves what its label
says or stops: a profile's connection never changes under an encrypted
container, and a plain one whose profile was encrypted refuses to load. With
both, what `checkWorkerProfile` saw is what `checkTokenIdentity` will serve
(`SeenIsServed`). `TendedInv` strengthens `NeverKeyStarved` from "start, deliver
or halt" to "deliver or halt": a command that is about to start a container that
already waits does not count. A second small invariant, `ConfiguredInv`, goes along: what a
command has opened stays the profile's login until it creates the container, or
a new key has made a plain one useless.

The instances that compose modules are tied to them. `NodeProofs` does so for the
run `node`:

| theorem | statement |
|---|---|
| `NodeFollows` | `NodeSpec` implies `Spec` of KataAdmission and `NetworksSpec` |
| `NodeTypeCorrect` | `NodeSpec => []NodeTypeOK` |
| `NodeSafe` | `NodeSpec` implies the five safety invariants of the run `node`, `RecoverySparesLiving` and `RestartSparesTasks` |

and `ServicesProofs` for the run `services`:

| theorem | statement |
|---|---|
| `ServicesFollow` | `ServicesSpec` implies `VaultSpec`, `TasksSpec`, `EgressSpec` and `ProxySpec` |
| `ServicesTypeCorrect` | `ServicesSpec => []ServicesTypeOK` |
| `ServicesSafe` | `ServicesSpec` implies the eight safety invariants and the two action properties of the run `services` |

A step of the instance is, for each ledger or service, a step of it or a stutter
(`ServicesStep`); the other theorems carry over.

Every invariant and every action property that a passing run checks is thus a
theorem. Only model-checked are:

* liveness (`CallsSettle`, `StreamsEnd`, `AdmissionProgresses`): TLAPS does not
  reason about `ENABLED`;
* the four properties that are violated.

## Divergences from the documentation

* **`stop`** (`proxy.go:450`). `Stop` empties the ledger and then shuts the
  listeners down. An issue past its generation check installs its record
  afterwards and is answered. The comment on `Stop` promises that it "revokes
  all tokens". The listeners are closing and the process normally ends, which
  limits what the token is worth.
* **`slow`** (`launch.go:149`). The launch lease is five minutes of wall time
  and is never renewed, while the steps before `RunContext` (egress proxy,
  clone, worktree) are bounded by the caller's context alone. A launcher that
  spends its lease there is overtaken; after the winner's worker is completed
  and removed, the first one creates a worker under the completed ID.
  `doc/en/go-api.md:145` excludes it. `KeepsPromise` says what the code keeps to:
  that the launcher is no longer alone is all such a request loses, and no other
  request loses anything.
* **`answer`** (`launch.go:157`). A retry takes any worker the engine knows
  under the name as the completed answer, also one whose launcher died between
  creating and starting it: `Launch` succeeds with a worker in state
  `created`. `doc/en/go-api.md:32` says that it creates and starts a worker.

* **`revoke`** (`restart_auth.go:131`). The proxy files tokens by the worker's
  name. Stop, quarantine, wait and a retried removal revoke by name, on an
  inspection or a record that can be older than the name's present owner, who
  then runs on without authentication. The comment at `manager.go:471` says
  that "a name collision must not replace or revoke another worker's token".
  `AnsweredIsRevoked` and `WorkerKeepsResources` hold: nothing but the token is
  found by name alone.

Observed while modelling, and reproduced in the models as the code does it:

* If the node dies between making a cgroup and writing its limits
  (`host_linux.go:280`), the envelope counts against the worker limit while
  reserve, release and orphan recovery all refuse it: its capacity comes back
  with a reboot or by hand.
* If it dies between making a veth (`network.go:330`) and giving it its alias
  (`network.go:336`), `deleteEndpointLink` refuses the interface, and with it
  the deletion of the container, until a reboot; the same holds for a bridge
  (lines 711 and 714). Records and leftovers still agree (`LeftoversAreRecorded`).
* A crash in the first save of a container, or in the removal of its directory,
  leaves a directory without a record, and `Open` fails (`intents.go:69`); a
  crash between a namespace and its saved identity, or while a network is
  rebuilt, also stops `Open` until the host reboots.
* A job that was recorded but whose process never started is waited for by the
  recovered node for ever, and the clean-up of a job's failed start uses the
  context of the request, which may be what ended (`jobs.go:77-96`).
* A command killed between the start of an encrypted proxy and the delivery of
  its key leaves a proxy that waits; a later `proxy run` finds it running and
  only times out. `NeverKeyStarved` therefore speaks of the commands that live.
  It also exempts a command that restarts *by name* a container that is not the
  one it inspected.
* A proxy in profile mode does not check tokens without an identity, so a
  container replaced between a command's probe and its issue gives the worker
  another profile's login: the "blind" case of `TokensStayWithLogin`.
* A worker that stalls the body of its `/oauth/token` holds `refreshMu`, and with
  it every issue, restore and refresh, until its connection ends. `CallsSettle`
  names that wait.
* A worker on the shared egress proxy is under the rules this proxy was created
  with, not under the host's policy at its launch. `WorkerStaysInsidePolicy` and
  `PolicyHolds` exempt it from that part; private addresses stay closed to it, and
  a worker that names domains of its own does not use this proxy.
* Two launches that need the same egress proxy at once: the second creation
  conflicts and its launch fails instead of adopting it (`ensure.go`).

## What is not modelled

* *AuthProxy*: the file mode `OAuthStateDir` and pure API-key proxies without
  a store; the model filter and service discovery (stateless per request); HTTP
  itself. An admin call is one-shot and its record's name stands for its random
  lease ID. `revokedRuns` and `caseRevoked` are lost on restart, as in the code.
* *LaunchLedger*: collisions of names not derived from the request ID (see
  WorkerLifecycle); capacity and cgroups (see KataAdmission). A network whose
  launcher died is never collected, as in the code: later attempts of the
  request fail.
* *WorkerLifecycle*: worktrees, the removal of several workers by one command,
  and the environment check after the release.
* *ProfileVault*: the cipher and the key derivation (a key opens what it
  sealed and nothing else), the temporary file of an atomic write, `Delete`,
  and the wire format of the Unix socket, whose server is one of the callers.
* *EngineNetworks*, *EngineTasks*: the checks of request bodies, images,
  builds, terminals, logs and byte relays; a task has no memory or exit code.
  Steps of one handler are not interleaved with another's, because handlers hold
  `Backend.mu`; what runs without it is modelled as running without it.
* *WorkerEgress*: DNS answers whatever it likes and is asked once per
  connection, as in the code; WebSocket and TLS contents; an upstream proxy is
  a way to dial the checked address. Hosts are normalised names.
* *ProxyContainers*: host and port differences between proxies, the image
  build, the API key mode, and Docker's own restart of a container.
* *KataAdmission*: profiles other than the reservation's own, whose change the
  documentation forbids while a reservation is retained; the moves between the
  leaves of one envelope (`Retire` into "supervisor"); processes that are not
  Kata's. Assumed of the surroundings: the shim never makes an envelope that is
  not there (a sibling's late release can remove the empty envelope of a launch
  that has not started its VM; the start then fails and is undone), an
  allocation holds one VM, and a launcher takes less than five minutes from its
  reservation to its worker (`RunContext` ends after 180 seconds). A caller
  that hangs up stops waiting for a lock; a request that has the lock may go on.
* Cryptography, parsing, byte relays, image builds, installation scripts,
  argument parsing and reports have no protocol to check.

`PROJECT.json` "components" lists every part with its status.

## Plan

Done: every module above, and a theorem for every safety property of a passing
run. Left, in this order:

1. Workers of several requests that compete for names and capacity in one
   instance of `LaunchLedger` with `KataAdmission`, which today meet through
   one variable (the reservation).
2. The node inventory's classification (`classifyVM`, `reconcileVMs`) as an
   operator against the documented table of states; the proxy's
   `OAuthStateDir` mode; `FileStore`'s temporary file and rename as a
   refinement of one atomic write.
