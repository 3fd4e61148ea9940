# A verification of the OpenEBS operator

The operator turns one cluster-scoped custom resource, `OpenEBS`, into the objects of
five storage engines (LVM, ZFS, Hostpath, Rawfile, Mayastor) and keeps them there. This
directory holds TLA+ modules that model it, TLC configurations that check them, and
TLAPS proofs. Every definition is translated from the Go code under `src/`; the API
server, the garbage collector and the controller runtime are modelled from how that
code uses them.

## 1. The system

| Part | Source | State it keeps | Operations |
|---|---|---|---|
| Reconciler | `internal/controller/openebs_controller.go` | none in memory between rounds; finalizer and status on the resource | `Reconcile`, `reconcileNormal`, `deployEngines`, `derivePhase`, `buildConditions`, `reconcileDelete` |
| Deployer | `internal/controller/deployer.go` | the resource copy of its round (`d.instance`) | five deploy functions, the `apply*` helpers, `etcdHealthCheck`, `reconcileEtcdVeleroSchedule`, `cleanupOrphans`, `expectedResources`, `cleanup` |
| Constructors | `internal/controller/component.go` | none | one function per object, and the etcd bootstrap script |
| Embedded manifests | `engine_crds.go`, `volume_snapshot.go` | none | `applyCRDs`, `applyUnstructured` |
| Types | `api/v1alpha1/types.go` | | the spec, the status, defaults |
| Manager | `cmd/main.go` | work queue, informer caches, delayed requests | start, restart |
| CRD check | `hack/crd-breaking-check/main.go` | none | compares two CRD schemas in CI |

**How they interact.** The informer delivers the resource into a cache and a request
into the work queue. One worker takes the request and makes a *round*: it reads the
resource from the cache, persists the finalizer if it is missing, calls the deploy
function of every enabled engine (each a fixed list of applies that stops at its first
error), lists and deletes orphans kind by kind, reads the resource from the cache again
and writes the status on that copy. Each round ends with a delayed request: 30 s later, or
rate limited after an error. A resource marked deleted gets `cleanup`, a list of
deletes that stops at the first error, and then loses the finalizer. What `cleanup` does not list
is left to the garbage collector, through the owner references every apply sets. Only
the resource itself is watched. Below a round are two more layers: each apply is itself a
small protocol between the informer's copy, the API server and other writers, and the
Mayastor engine's StatefulSet runs etcd pods whose shell script decides who founds a
cluster and who joins it; a health check stands between that etcd and the operator's next change.

**What is hard.** Every decision is taken on a copy that may be old; the resource may be
edited, deleted or replaced between any two calls; any call may fail, or succeed with a lost
reply; the manager may crash anywhere; some repairs are a delete in one step and a
create in a later one; and four tables that must agree (constructors, deploy functions,
`expectedResources`, `cleanup`) are kept in step by hand. `PROJECT.json` lists each
hazard at its line, with the property that covers it or the reason why none does.

**What makes each part correct.**
- *Reconciler*: the finalizer is there before anything is installed and goes only after cleanup;
  a round never works for a resource that is gone; a status lands on the resource it
  describes; the cluster converges and deletion completes.
- *Deployer*: an engine reported Running is installed as its spec says; the sweep spares
  what the round deployed, and takes what is left over; foreign objects are left alone.
- *Constructors, types*: the names agree with the tables; renaming and moving objects leaves nothing
  behind.
- *etcd script*: exactly one cluster is bootstrapped, and a returning member joins it.
- *An apply*: it is atomic to the rest of the operator; a delete decided on an old copy
  deletes what should be deleted; in the end the object is as the spec says.
- *CRD check*: a resource stored under one release is valid under the later ones.

## 2. The modules

| Module | Content |
|---|---|
| `Catalogue` | the tables: what each constructor builds, the calls of each deploy function in order, `Expected`, `SweepKinds`, `CleanupList` |
| `Status` | `DerivePhase`, `Conditions` |
| `Lifecycle` | abstract: what the operator promises about the life of one resource |
| `Reconciler` | the state machine: worker, informer, queue, crash, users, other clients, garbage collector; implements `Lifecycle`; all properties |
| `MCReconciler` | specs and object sets for TLC |
| `AtomicApply` | abstract: what an apply promises about one object |
| `ApiApply` | the apply helpers call by call; implements `AtomicApply` |
| `EtcdBootstrap` | the script in each etcd pod, the StatefulSet, probes, the health check |
| `CrdBreakingCheck` | the schema comparison, release after release |
| `MCApiApply`, `MCEtcdBootstrap`, `MCCrdBreakingCheck` | their instances for TLC |
| `CatalogueProofs` | the names of the tables agree, and no two calls are about the same object, for every spec |
| `ReconcilerProofs` | type correctness, the finalizer protocol, the sweep, cleanup, the requeue |
| `RunningProofs` | an engine reported Running stands |
| `LifecycleProofs` | `Reconciler` implements `Lifecycle` |
| `ApiApplyProofs` | type correctness, the refinement, the judgement behind deletes |
| `EtcdProofs` | type correctness, one cluster |
| `CrdProofs` | what passes the check is compatible; what is stored stays valid |

### Catalogue
Each constructor of `component.go` is a definition with its Go name. It yields the
object (kind, namespace, name), whether the constructor labels it as managed by the
operator (the LVM and ZFS cluster roles are not), the content of its immutable fields
and the content of the others. Content is made of the spec fields the constructor reads:
for classes and the etcd volume claim the immutable part has `s.pool[e]`, which ends up
where the API server allows no update; the other part is a tuple of `s.tune`, which stands
for all tuning, and of `s.pool[e]` where that goes into the pods too (the base paths of the two
local provisioners), or `Unvaried`. `Altered` is what other clients write. Pod
templates, images, rules and arguments have no other effect on control flow and are
not spelled out. An `""` in `s.class` stands for the name the CRD defaults to
(`types.go:95`): both give the same names.

`LVMSteps` ... `MayastorSteps` list the calls of the deploy functions in order; each
names its helper (`apply`, `storageclass`, `service`, `statefulset`, ...), which is
what decides the action in `Reconciler`.

### Reconciler

| Variable | In the code |
|---|---|
| `cr`, `lastRV`, `lastUid` | the resource in the API server, and the versions and uids it hands out |
| `objs` | all other objects: owner reference, label, immutable and mutable content |
| `cache` | the informer's copy read by `r.Get` |
| `queue`, `timer` | the work queue; `RequeueAfter` or rate-limited requests |
| `pc`, `inst`, `eng`, `step`, `results`, `todo`, `latest` | the worker: where it is, `instance`, the engine and the call, `engines`, the list's items, `latest` |
| `touched` | not in the code: the objects others changed since the operator last wrote them, so that properties can except them |
| `used` | not in the code: how much of each bound is used |

| Code | Actions |
|---|---|
| `Reconcile` 44-68 | `ReconcileNothing`, `GetFails`, `Reconcile`, `AddFinalizer`, `AddFinalizerRejected` |
| `deployEngines`, deploy functions | `SkipEngine`, `WriteObject` (every create-or-update), `WriteRefused`, `CallFails`, `DeployDone` |
| `applyStorageClass`, `applyService` | `ReplaceObject` (delete, then create, which may fail) |
| `applyStatefulSet` | `DeleteDrifted` (delete, and report an error) |
| `etcdHealthCheck` | `CheckEtcd` |
| `reconcileEtcdVeleroSchedule` | `SkipSchedule`, `RemoveSchedule`, `WriteObject` |
| `cleanupOrphans` | `ListKind`, `DeleteOrphan`, `DeleteOrphanUnanswered`, `OrphanVanished`, `SweepFails`, `SweepSchedule` |
| `reconcileNormal` 86-107 | `Refetch`, `RefetchFails`, `UpdateStatus`, `UpdateStatusRejected` |
| `reconcileDelete`, `cleanup` | `DeleteInstalled`, `CleanupFails`, `RemoveFinalizer`, `RemoveFinalizerRejected` |
| controller runtime | `Observe`, `TimerFires`, `Restart` |
| the cluster | `CreateCR`, `EditCR`, `DeleteCR`, `ForeignCreate`, `ForeignDelete`, `ForeignEdit`, `CollectGarbage` |

Every call has three outcomes: it succeeds, it fails without effect, or it takes effect
and reports an error. `UpdateStatus` may change the resource even when phase and
engines are what they were, because `buildConditions` stamps every condition with the
present time. Each such write is a new version, so the model lets it happen within the bound of
troubles only: that it may go on without end, each round starting the next, is in no run.

**What the model abstracts, and what follows.**
- The get, create or update, and retries inside one `apply` are one step, which may fail.
  `ApiApply` takes it apart and implements it. The lists of the sweep see the objects
  as they are.
- One resource, one manager, one worker (`deploy/operator.yaml`: `replicas: 1`).
- The finalizer of the operator is the only one on the resource.
- Objects other clients create have the operator's names and different content;
  with the label they stand for what an earlier release left. Of an existing object they
  change the mutable part, or they delete it (`Tampered` says which objects).
- Pods, volumes and etcd itself are not in this module. `etcdHealthCheck` may pass whether or
  not the StatefulSet is there, and may fail if it is; `EtcdBootstrap` has what lies behind.

### Lifecycle
The life of one resource as a user should be able to rely on it, in four variables: the
`resource` (uid, finalizer, deletion mark), the `worker` (at rest, installing, cleaning or
done cleaning, and for which uid), the `owners` (uids that own an object) and `lastUid`. There are
no copies in it: every step is decided on the resource as it is. `Reconciler` decides on
copies, and implements it with `LifeResource`, `LifeWorker` and `LifeOwners` as the map
(`cr` without spec, version and status; `pc` and `inst.uid`; the owner references).

| `Lifecycle` | `Reconciler` |
|---|---|
| `Create`, `Vanish`, `MarkDeleted` | `CreateCR`; `DeleteCR` without, with a finalizer |
| `Protect`, `BeginInstall`, `BeginCleanup` | `AddFinalizer`; `Reconcile` into deploying, into cleanup |
| `Install` | every call of a deploy function |
| `EndCleanup`, `Forget` | the last `DeleteInstalled`; `RemoveFinalizer` |
| `Lose` | sweep, cleanup, garbage collection, other clients; a round that ends or is lost |

`BeginInstall` allows a resource that is already marked, and `BeginCleanup` one that is gone
while another has its name: both happen, and both are harmless, which is what
the guards of the other actions say.

### ApiApply and AtomicApply
One object, applied by any number of `Appliers` (a manager each; two during an upgrade),
with one helper (`kind`), while other clients write, create and delete it.

| Variable | In the code |
|---|---|
| `obj` | the object in the API server |
| `view`, `seen` | the informer's copy; `existing` of the present attempt |
| `pc`, `want`, `tries`, `stamped`, `result` | where the call is, what it renders, attempts of `RetryOnConflict`, whether the request carries a resourceVersion, how the last call returned |
| `ask` | what the spec, as this manager knows it, asks for |
| `author`, `replaced` | not in the code: who has changed the object last; what a replacing call has deleted and nobody has created again |

| Code | Actions |
|---|---|
| `apply` 579-602 | `Begin`, `Get`, `Update`, `UpdateConflict`, `UpdateRefused`, `Create`, `CreateRefused` |
| `applyUnstructured` | the same, read from the API server (unstructured objects are not cached), without a retry |
| `applyStorageClass` 559-574 | `UpdateInvalid`, `Reread`, `RereadNotFound`, `Delete`, `DeleteNotFound`, `Create` |
| `applyStatefulSet`, `applyService` 604-674 | `Get`, `GetForeign`, `Delete`, `Create` |
| any call | `CallFails` |

Of resourceVersions only equality matters: a copy is `fresh` until the object changes.
`own` says that nobody but the reader has changed it since (and of a Service, nobody at all).

`AtomicApply` says what the rest of the operator may take an apply for. Between call and
return an applier changes the object at most once, and in the step that returns:
`Install` (nil, or an error if the reply was lost), `Remove` (an error, the object
gone), or `Fail` (an error, and no effect). Every change has an `author`, and only the
returning steps of `w` and nobody else's have the author `w`: `Meddle`, what other clients do, is
signed `Others`, so no effect of an applier can pass as interference. `Remove` takes a drifted
object, and for a StatefulSet or a Service an owned one, as `DeleteDrifted` and `ReplaceObject` of
`Reconciler` do, as long as `w` is `current`: nobody else has changed the object since `w`
read it. Without that, the code's delete by name may take whatever is there, which `Reconciler`
has no step for: its applies decide on the object as it is, and with one manager and no
interference between two calls the two agree.

The map hides the gap inside a replacing call (deleted, not created yet): as long as
`replaced` holds something, the abstract `object` is that, and its `author` the one it had. The delete
is then `Unsettle` (the others' pictures grow old) and the create `Install`; only if the create
fails is the object seen to go, in the step that returns, which is the second outcome of
`ReplaceObject`. Whoever creates the object inside the gap ends it.

### EtcdBootstrap
Pods are ordinals; `data[p]` is what the volume holds: nothing, a beginning, or the cluster
the pod is a member of (named for its founder). The script's branches are `Found`,
`Founded`, `Loop`, `Listed`, `Add`, `ReadInitial`, `Join`, `JoinFails`, `Rerun`; the constructors
give `Schedule` and `Remove` (parallel, volumes kept), `Probe` (readiness) and `Answers` (the
headless Service finds ready pods). `Deploy` is the last part of `deployMayastor` behind
`GateOpen`, which is `etcdHealthCheck` with the number of ready pods as the cache has it.

etcd is external and as small as the script allows: quorum, the strict reconfiguration
check of `member add`, the comparison of `--initial-cluster` on a join. `Images` says how
`member list` answers: `"etcd"`, which gives an added member no name before it has started
(the simple format prints `unstarted` and an empty name), or `"obliging"`, which
lists it by name as the script expects. The safety properties are checked for both, so
that they do not hold merely because nobody can join. Both are taken to list started
members under their pods' names, which is generous: the script passes no `--name`.

### CrdBreakingCheck
A schema is a function from the paths of its nodes (what `compareSchemas` carries as
`prefix`) to type, enum and required fields, which is what the check looks at; a resource is a
function from paths to values. The recursion of `compareSchemas` descends into the
properties both schemas have, so it visits exactly the paths both have: `Compare` is the
union over them. `CheckVersion` is one turn of the loop in `main`; `Release` and
`Reject` are its exits. Around it, `Propose` changes the CRD and `Store` stores a resource
that the released one accepts, so that the comparison of two neighbours is held
against what matters over many: `Accepts`, the API server's validation, after pruning.

### Mutants
Definitions marked "Mutant" are plausible bugs (a dropped guard, an error passed over,
a missing requeue). They are in no specification; each shows that a property can fail,
and `PROJECT.json` says which replaces what.

## 3. The runs

The first eight are runs of `MCReconciler`: the specs range over small sets, the tables
are always the full ones. The others are runs of the module's own `MC` module.

| Run | Asks | Properties | States |
|---|---|---|---|
| `local` | does the finalizer protect what is installed, across two incarnations of the resource, a deletion at any point, an edit and a fault, and is each step one `Lifecycle` allows? | `FinalizerInv`, `WorksForLiveResource`, `OwnedObjectsHoldFinalizer`, `StatusGoesToItsCR`, `FinalizerGoesLast`, `ImplementsLifecycle` | 3.1 M |
| `tamper` | is what a round reports Running there, with two troubles among faults, crashes, and objects others create, edit or delete? | `TypeOK`, `RunningEnginesStand` | 482 k |
| `engines` | does the sweep spare what the round deploys: LVM, ZFS and Mayastor, foreign etcd objects, an edit from any spec to any other? | `SweepSparesPlan`, `RunningEnginesStand` | 455 k |
| `live` | after an edit that replaces or renames a class, and a fault or a change by others: is the resource never forgotten, does the cluster converge, does deletion complete, is nothing left? | `NeverForgotten`, `Converges`, `DeletionCompletes`, `NothingInstalledStays` | 307 k |
| `liveetcd` | does delete-and-requeue of the drifted etcd StatefulSet converge, does the sweep after an orphan that vanishes under it, and does a deletion leave nothing of Mayastor? | `Converges`, `NothingInstalledStays` | 1.05 M |
| `rename` | *violated*: a renamed StorageClass leaves the default one | `OverriddenClassGoes` | |
| `schedule` | *violated*: the Velero Schedule stays in the old namespace | `ScheduleFollowsSpec` | |
| `foreign` | *violated*: deleting the resource deletes a foreign etcd StatefulSet | `ForeignEtcdStays` | |
| `apply` | is an apply atomic, is a delete on an old copy right, does the object settle once the managers agree again: five helpers, two managers, two edits, another client | `TypeOK`, `JudgedRight`, `ImplementsAtomicApply`, `Settles` | 1.27 M |
| `etcd` | is there one etcd cluster, and does the health check let the spec through in the end? | `TypeOK`, `OneCluster`, `SpecReachesEtcd` | 40 k |
| `scaleup` | *violated*: etcd scaled from one pod to two never becomes ready | `ScaleUpWorks` | |
| `crdcheck` | does a stored resource stay valid through all releases the check lets pass? | `TypeOK`, `StoredStaysValid` | 40 k |

**Bounds.** `MaxUid` incarnations, `MaxDeletes` deletions, `MaxEdits` edits and
`MaxTrouble` troubles (failing calls, crashes, creations, edits and deletions by others,
status writes that only move the time, taken together); the number of rounds is not bounded.
One deletion and two incarnations are what a stale copy needs to confuse two resources;
one edit takes the spec from any of its set to any other while a round is under way;
one fault at any call leaves any prefix of a deploy or cleanup list behind. `tamper`
has two troubles because its question is about a fault and an interference in the same
round. The spec sets are chosen so that an edit replaces a class (other base path), renames one
(which is nowhere in `cleanup`'s list), drops an engine (orphans), adds one, drifts the etcd
StatefulSet, and switches the Velero schedule. The objects others touch are few and chosen for
what the round does with them: in `live` the class, which heals only through the requeue, in
`liveetcd` one of the DaemonSets the sweep is about to take when Mayastor is off, so that
`OrphanVanished` ends the sweep early and a later round must finish it.

In `apply` two appliers are what overlapping managers need. Two edits are the least after which they
agree again: one learns of the new spec first and the other later, or the first turns back; with one
edit they would disagree for ever and `Settles` would say nothing. Each edit drifts the object, so
a fault can meet drift. `Attempts = 2` has a first, a last and a repeated attempt (the code's five add
more of the same), and the one trouble is a lost reply, a failed call, a crash, or a write, creation
or deletion by somebody else; the safety properties are proved for any number of each. In `etcd` three pods are the first number with a majority
to lose, two edits scale away and back, two kills hit a founder and a joiner or one pod twice.
With three pods etcd never lets two be added before one has started, so a membership
changes between `ReadInitial` and `Join` only with five; `OneClusterOnly` is proved for every
number. In `crdcheck` the number of releases is not bounded; schemas have one level of
nesting, fields of two types, and enums of up to two of three values, which is where each branch
of `compareSchemas` and its descent matter; `StoredAccepted` is proved for every depth. One resource is stored at a time, as
validation looks at each by itself.

`CHECK_DEADLOCK FALSE`: with no resource and none to come `Reconciler` really rests, and so
does an etcd whose count is reached and whose bounds are used up.

**Fairness** (`LiveSpec`). Weak fairness of `Worker`, as the manager runs its worker for
ever and each call returns; of `Observe`, as the informer delivers watch events; of
`TimerFires`, as the delaying queue delivers what is added; of `CollectGarbage`, as the
cluster collects what has lost its owner. No fairness for users, other clients, faults
and crashes: the bounds end these, which is the "once they stop" in `Converges`. None of
the actions needs strong fairness, since no other actor disables a pending step for ever.

`FairSpec` of `ApiApply` (two managers in rounds of their own): weak fairness of each applier's `Step` (rounds never stop, calls
return) and of its `Observe`. `FairSpec` of `EtcdBootstrap`: of each pod's `Script` (a shell goes on,
the loop sleeps five seconds), of the StatefulSet controller's `Schedule` and `Remove`, of the
kubelet's `Probe`, of `Report` (watch events) and `Deploy` (a failed Mayastor is tried again by the
requeue, which `Reconciler` has). None for kills, edits and other clients.

### What the runs found
1. `types.go:94` says `StorageClassName` *overrides* the name of the class. After a
   rename the class with the default name stays: `expectedResources` always expects it
   (`deployer.go:906, 916, 926, 955`). With `isDefaultClass` both claim to be the default.
2. `deployer.go:458` says the Velero Schedule is created or removed *based on the CR
   spec*. Both removals build the Schedule from the present spec; when
   `etcdVeleroNamespace` changes, the old one is never found again.
3. `deployer.go:622` tells the user to delete a foreign etcd StatefulSet *manually*, and
   a test (`deployer_test.go:950`) says it *should not be deleted*. `cleanup` deletes it by
   name, even if Mayastor was never enabled.
4. `component.go:864-866` says every other pod joins etcd via `member add`, *so scale-up
   works on a running cluster*, and `e2e/etcd_test.go:98` waits for it. The loop of line
   883 waits for the pod's name in `member list`; a member that was added has no name
   there until it has started, and it starts only after the loop. Worse, the member that
   was added counts: a cluster of two needs both, so the pod that was running is no longer
   healthy either. (`SpecReachesEtcd` shows that the health check at least does not lock
   out the repair: no pod is ready, which opens it.)

## 4. The proofs

For every set of specs with known engines, every set of foreign and tampered objects
and all bounds:

| Theorem | Says |
|---|---|
| `PlanIsExpected` | each object of a swept kind that a deploy function applies has an expected name |
| `OneWriter` | no two calls of a round are about the same object, but for namespaces, which all write alike |
| `TypeCorrect` | `Spec => []TypeOK` |
| `FinalizerInductive` | `Spec => []FinalizerInv` |
| `FinalizerFirst`, `NoWorkForTheDead`, `StatusOnTheRightResource` | its three consequences the runs check |
| `SweepSafe` | `Spec => []SweepSparesPlan` |
| `FinalizerLast` | `Spec => FinalizerGoesLast` |
| `NothingForgotten` | `Spec => []NeverForgotten` |
| `CallsStand`, `RunningMeansStanding` | `Spec => []StandInv`, `Spec => []RunningEnginesStand` |
| `DeletionSticks`, `LifecycleImplemented` | `Spec => []LifeInv`, `Spec => ImplementsLifecycle`: `Reconciler` implements `Lifecycle` |
| `ApplyTypeCorrect`, `DeletesJudgedRight` | `Spec => []TypeOK`, `Spec => []JudgedRight` of `ApiApply` |
| `ApplyIsAtomic` | `Spec => ImplementsAtomicApply`: `ApiApply` implements `AtomicApply` |
| `EtcdTypeCorrect`, `OneClusterOnly` | `Spec => []TypeOK`, `Spec => []OneCluster` of `EtcdBootstrap` |
| `PassedIsCompatible` | what the old of two schemas accepts, the new one accepts, if the check finds no change between them |
| `ReleaseInductive`, `CheckTyped`, `StoredAccepted` | `Spec => []ReleaseInv`, `Spec => []TypeOK`, `Spec => []StoredStaysValid` of `CrdBreakingCheck` |

Assumptions: `NoneAssumption` (`None` is not a resource) and `SpecsAssumption` (specs
enable the five engines only); `ApplyAssumption` (the helpers are the code's, there is
something to want, "gone" is not an object, at least one attempt); `EtcdAssumption`;
`CrdAssumption` (schemas are trees of named properties, and `None` is not a CRD).

**Why a stale cache is harmless to the finalizer.** `OwnedObjectsHoldFinalizer` is not
inductive: a step of a round that works from an old copy could install for a resource
that is gone. `FinalizerInv` adds what excludes it:
- `CopiesBehind`: a copy never runs ahead of the API server, and a copy of the current
  version is the resource itself. So an Update that is accepted was decided on the
  present state.
- `CacheAhead`: the cache is never behind the round's copy by an incarnation, and in a
  cleanup not by a version. So when the finalizer goes, the cache has already seen the deletion.
- `CachedFinalizerHolds`: if the cache shows a finalizer and no deletion, the resource
  still has it. The finalizer is dropped only by a cleanup, whose copy is marked
  deleted and no newer than the cache. This is what lets `Reconcile` start to
  deploy from the cache.
- `WorksForLiveResource`: while a round deploys, only the worker itself could drop the
  finalizer, and it is not in a cleanup.
- `OwnersKnown`: owners have been handed out, so a new incarnation owns nothing yet.

One lemma per group of actions shows that it keeps `TypeOK` and one that it keeps
`FinalizerInv`; most actions leave the resource and its copies alone, which
`OrdinaryStep` settles once. `FinalizerGoesLast` follows from `CleanedSoFar` (the part
of the list before `step` is gone), `SweepSparesPlan` from `OrphansUnexpected` (what was
listed has no expected name) and `PlanIsExpected`.

**Why nothing is forgotten.** Every way a round ends leaves a timer, a queued request, or
a resource the cache has still to catch up with. `NeverForgotten` is inductive next to
`FinalizerInv`, which tells that a version just written is one no cache has seen.

**Why Running means standing.** The reported engines alone are not inductive: the step
that reports an engine adds its last object only. `StandInv` therefore speaks of calls:
- `DoneStands`: every call of this round that returned nil has left its object as rendered,
  or others have changed the object since.
- `ResultsFit`: results are of enabled engines, and of the round under way.

Four things could take an object back in the same round. A later call: `OneWriter` says there is none
about the same object but for namespaces, written alike by all. It is the hard part, since it compares
about sixty objects pairwise for every spec; `CatalogueProofs` gives every call a *place*
(engine, kind and a name of its own) and compares places. The sweep: it deletes only what `SweepSafe`
says is not in the plan. The removal of the Schedule after it: `ScheduleCall`, no call of the same
spec writes one then. Everybody else: they touch what they change. The theorem has the hypothesis
`DistinctClasses` (no two enabled engines are given the same class name), as the property has:
without it two engines do write the same object.

**Why the loop implements the life.** Each step of a round is decided on a copy, and
`Lifecycle` decides on the resource. `FinalizerInv` closes most of the distance; `LifeInv` adds
`Marked`, that a deletion the cache shows of the present resource is there and stays (no step
unmarks, and a new resource has a new uid), and `Unmarked`, that the finalizer is written
only for a copy without the mark. Then `Reconcile` begins what it may begin, an accepted Update
has seen the present version, and every other step is `Install` or `Lose`.

**Why a passed check is compatible.** The nodes of a path both schemas have agree in type and
enum, the new one requires no more, and it has every property the old one has
(`SameNode`). That the new schema then has every *path* of the old one needs an induction over
its depth, which the proof makes with a shortest path: if some path were missing, a
shortest missing one would extend a path both have (`PartOfTree`, with the well-foundedness of
the numbers from the library). `ReleaseInv` carries this from release to release:
what was compared is reported (`Reported`), and what is stored is accepted *and pruned*
(`StoredFits`; a field the schema did not know when it was stored could be refused later).

**Why an apply is atomic.** Each step must be a stutter, a `Call`, an `Unsettle`, one of the
three effects in the step that returns, or somebody else's. `AtomicInv` is what the steps need:
- `Stations`, a part of `TypeOK`: which helper can stand before which call. Only a class is reread
  before it is deleted, and only a replacing helper stands before a create after its own delete.
- `Gap`: while `replaced` holds something the object is gone, and its deleter stands before that
  `Create`. So the call that fails there is the one that may show the object gone.
- `Held`: what is in the gap was drifted, and owned where the helper looks at that, unless somebody
  else had changed it; and a call's copy is never known to be good for longer than the informer's, so
  that nobody's picture improves unnoticed when the call ends. The abstract `Remove` happens when the create fails, long after the
  copy was read and the object deleted, and still has to answer for the judgement.
- `JudgedRight` and what it rests on (below), for the delete that is its own `Remove`.

The delete of a replacing call is an `Unsettle`; its failure later is where the abstract
object disappears.

**Why deletes are judged right.** `FreshIsTrue`: a fresh copy shows the object as it is.
`OwnCopies`: if only its reader has written since, a copy of a StatefulSet still tells the
immutable fields, and an owned one is owned still: the reader updates in place, and what it
deletes it creates again only after its informer has seen it gone. `Ground(w)`: an applier that stands before
a delete has found its copy drifted and owned, or had its update of a class refused. Of a
Service a copy speaks only until anybody changes it, the reader included: `applyService` creates
in the call that deletes, so an old copy may have its next call delete the Service it
has just created.

**Why there is one cluster.** `OneCluster` is not inductive: a joiner takes the cluster of whom
it asks. `Founders` (only the first pod founds, and from an empty volume), `Joiners` (a
pod on its way in is not the first, and has joined nothing yet) and `Joined` (once anybody
has joined, the first pod's own volume names its cluster) close it. The last is why the
first pod, whatever happens, never founds a second cluster.

**Only model-checked.** Everything under fairness (`Converges`, `DeletionCompletes`,
`NothingInstalledStays`, `Settles`, `SpecReachesEtcd`): liveness is out of TLAPS' reach.
Every safety property of a passing run is proved.

## 5. Not modelled, and what is left

- Two `OpenEBS` resources: nothing in the code forbids a second one, and `cleanupOrphans` then
  sweeps by label and name what the other's rounds installed. The state space of two
  interleaved rounds over the full tables is too large to check; it would need a
  reduced catalogue, which would no longer be the code's tables.
- Rounds without pause: each status write changes the resource, whose event starts the next
  round. Versions grow with it, so a model that TLC can finish bounds it; no property is about pace.
- Two engines with one class name: `RunningEnginesStand` and `OneWriter` except such specs. Nothing in
  the repository forbids them or says what they should give.
- When the phase of the resource should be `Failed`: the code never yields it, and nothing
  in the repository says when it should, so `DerivePhase` is modelled and no claim made.
- Two managers in whole rounds. `ApiApply` has them for every object; sweep and
  cleanup under two managers are not covered.
- Loss of an etcd volume (a user removes the claim), and name resolution between etcd
  pods none of which is ready: what etcd then does cannot be read from this code.
- Schema keywords `compareSchemas` does not look at (`pattern`, bounds, `items`), and versions
  that a release removes, which the check passes over and the API server refuses while
  resources are stored in them.
- The content of pod templates, RBAC rules, images and manifests (data without control),
  generated deep copies (no behaviour of their own), probes, flags and leader election of
  `main.go`, loading of YAML files, and the end-to-end tests.

Worth doing next: whole rounds of two managers over one engine; the safety halves of
`Converges` (what a round without faults and edits leaves is `Converged`) as an invariant of such a
round; that `cleanup` and the owner references together cover all that is installed.
