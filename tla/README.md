# TLA+ models of the minerx controllers

This directory holds TLA+ models of the three Kubernetes controllers in this
repository, and the TLC configurations that check them:

- the **Miner** controller (`src/unnamed/part_003`);
- the **MinerSet** controller (`src/internal/controller/minerset_controller.go`);
- the **Chain** controller: `src/unnamed/part_002` holds two files that both
  declare `ChainReconciler`, so only one can be built. `Chain.tla` models the
  second file; the first is not modelled (section 5).

They also model the condition ledger (`src/unnamed/part_001`,
`src/pkg/condition`), which the controllers use for their status conditions.

## 1. The system

### Status writes that carry a condition set True are rejected

All three CRDs declare `status.conditions` as `[]metav1.Condition`. Its
schema requires a non-empty `reason`. `condition.TrueCondition`
(`part_001:67-74`) sets no reason. So every `Status().Update` that carries a
condition set with `SetTrue` is rejected by the API server, and the model
treats it so:
- **MinerSet:** every case of `syncReplicas` sets MinersCreated True
  (`minerset_controller.go:186`, `:195`, `:199`), so the status write at
  `:317` always fails. The MinerSet status is never stored, and it is not
  state in the model.
- **Miner:** the write at `part_003:160` fails when the pass created the Pod
  (InfrastructureReady, `:195`) or found it Running and ready (PodHealthy
  and BootstrapReady, `:282-283`). The finalizer Update and the Pod Create
  of that pass stay. Phase Running is never stored.
- **Chain (second file):** the write at `part_002:287` fails when a phase
  found no labeled ConfigMap or Miner (`:318`, `:360`).
- **Chain (first file):** the write at `part_002:108` follows
  `SetTrue(InfrastructureReady)` on every pass, so it always fails.

### Components and how they interact

The controllers share nothing but the object store (the API server behind the
manager's cache). Each one reacts to changes of its own objects, and each
reconciles one object key at a time.

| Component | State it writes | Operations |
|---|---|---|
| Miner controller | Miner finalizer `miner.onex.io/finalizer`; Miner `status.phase`; PodHealthy condition; the Pod named after the Miner | `reconcile`: add finalizer → create Pod if Get finds none → default phase `Provisioning` → derive phase from the Pod → status write (rejected if a condition was set True), requeue 10s. `reconcileDelete`: PodHealthy=False(Deleting) → poll Pod Delete every 2s until ok/NotFound or `podDeletionTimeout` → remove finalizer |
| MinerSet controller | MinerSet finalizer; Miner owner references (adoption); Miner create/delete | `reconcile`: add finalizer → List Miners by selector → exclude those controlled by someone else, adopt orphans by merge patch → `syncReplicas` (create `-diff` Miners, waiting for each to appear; or delete the first `diff` of the list) → `updateStatus` (always rejected), requeue 15s. `reconcileDelete`: remove the finalizer |
| Chain controller (second file) | Chain finalizer; `observedGeneration` | `reconcile`: add finalizer → phase ConfigMap (List by label, build if none and set ConfigMapsCreated True) → phase Miner (same) → stamp `observedGeneration` → status write (rejected if a phase built something). `reconcileDelete`: remove the finalizer |
| Condition ledger (`part_001`, `pkg/condition`) | the conditions list of an object | `Set`/`SetTrue`/`SetFalse`/`SetUnknown`: replace the first condition of the type if status, reason or message changed, else keep it; append if there is none. `Get`/`Has`/`IsTrue`/`IsFalse`/`IsUnknown` read the first match |

The MinerSet controller creates, adopts and deletes Miners. The Miner
controller creates and deletes the Pods and writes the Miner's phase. The
MinerSet-created Miners carry the **MinerSet** finalizer, so their deletion
depends on both controllers and on the garbage collector.

The actors outside the repository are modelled in `Cluster.tla`:
- the user, who scales a MinerSet and deletes Miners and MinerSets;
- the kubelet, which moves a Pod through Pending, Running, ready and Failed, and removes a terminating Pod;
- the garbage collector, which marks Miners whose controller has left the store.

### Hard behaviours

- **Passes that are not atomic.** A MinerSet pass is several writes (finalizer,
  adoption patches, each Create, each Delete, the status). Users, the kubelet,
  the garbage collector and the Miner controller all act between them. The pass
  keeps working from the list it took at the start.
- **An unordered list.** The informer cache returns a List in no fixed order.
  The scale-down victims are "the first `diff`" of that list.
- **Deletion through finalizers.** A Delete only marks an object while it has
  finalizers. The object leaves the store when its last finalizer is removed.
  A Pod Delete only starts the Pod's termination.
- **Partial failure.** The create and delete loops stop at their first error.
  The Miner controller's finalizer Update can succeed while the Pod Create
  fails. The Pod delete poll can time out. A Chain phase's List can fail.
- **A missing lock.** The adoption merge patch carries no resourceVersion,
  and it replaces the whole `ownerReferences` list.
- **Rejected status writes.** A pass whose status write is rejected keeps
  its earlier writes (finalizer, Pod, Miners) and is retried.
- **A lagging cache.** The MinerSet's List reads the manager's informer
  cache, which can be behind the store. `createMiners` waits after each
  Create until a Get finds the new Miner (`waitForMinerCreation`, 100ms
  polls for 10s); if that poll fails, the Miner exists but the pass ends.
- **Self-triggering watches.** The controllers watch their objects with no
  event filter. Every write that changes an object, its status included,
  queues the object again.

### What makes each component correct (the properties)

- **Miner:**
  - a Pod that is not terminating always has its Miner, guarded by the finalizer while the Miner is being deleted (`LivePodHasGuardedMiner`);
  - deletion always finishes (`MinerDeletionCompletes`), which a `podDeletionTimeout` of 0 breaks;
  - a Miner leaves the store only once its Pod is gone (`MinerGoneMeansPodGone`, spec §4.2).
- **Miner and MinerSet together:** they implement the abstract
  `MinerLifecycle` specification (`ImplementsLifecycle`).
- **MinerSet:**
  - it never touches a Miner another owner controls (`NoForeignTouch`);
  - it deletes live Miners only when it has a surplus (`DeletesOnlySurplus`);
  - it eventually always controls exactly `spec.replicas` Miners, none of them left marked for deletion (`Converges`, spec §8);
  - it creates a Miner only while it has fewer live Miners than desired, even though it lists from a lagging cache (`CreatesOnlyBelowDesired`, spec §4.3).
- **Chain:**
  - `observedGeneration` catches up (`ObservesGeneration`);
  - once the edits stop, its own writes and results stop queuing the Chain (`Quiesces`).
- **Condition ledger:**
  - one entry per type (`NoDuplicateTypes`);
  - `Get` reads back what the last setter set (`SetThenGet`);
  - a condition's time moves only when its status, reason or message does (`TimeMovesOnlyWithChange`).

## 2. Modules

| Module | Models | State (VARIABLES) | Actions |
|---|---|---|---|
| `Cluster` | object store and outside actors | `miners` (function on the names in the store), `pods`, `msets`, `used` (names generateName has handed out), `budget` (outside events left) | `UserScale`, `UserDeleteMinerSet`, `UserDeleteMiner`, `PodStarts`, `PodReadiness`, `PodFails`, `PodTerminated`, `CollectMiner`; store semantics `DeleteFrom`, `SetFins` |
| `MinerController` | Miner controller | (store) | `MinerReconcile` (status stored unless `SetsTrueCondition`), `MinerReconcilePodCreateFails`, `MinerReconcileDelete` (disabled while a zero-timeout Miner's Pod exists, `ZeroTimeoutPoll`), `MinerReconcileDeleteTimeout` |
| `MinerSetController` | MinerSet controller | `pc`, `snap` (the listed Miners), `toCreate`, `toDelete`, `rrep` (spec.replicas the pass read), `cache` (the Miners in the informer cache) | `MSBegin` (Get, finalizer, List from `ListSource`), `MSAdopt` (adoption patches `AdoptOrphan` + syncReplicas' choice, or its nil-replicas error), `MSCreate` (Create + confirmed poll), `MSCreateUnconfirmed` (Create + failed poll), `MSCreateFails`, `CacheSync`, `MSDelete`/`MSDeleteFails`, `MSStatus` (the rejected write), `MSReconcileDelete` |
| `MinerX` | both controllers on one store | — | `Next` = MinerSet steps ∨ Miner passes ∨ environment; all properties of the Miner/MinerSet pair; the refinement mapping to `MinerLifecycle` |
| `MinerLifecycle` | what the two controllers promise about each Miner name (abstract) | `stage` (Unborn/Live/Deleting/Gone), `owner`, `podUp` | `Create`, `Adopt`, `MarkDeleting`, `Remove`, `Release`, `StartPod`, `StopPod` |
| `Chain` | Chain controller, second file | `chain`, `cmCount`, `mCount` (labeled ConfigMaps/Miners in the store), `queued` (a request for the Chain is in the work queue) | `ChainReconcile` (phases, results folded by `LowestNonZeroResult`, status write, enabled only without `HasTrueCondition`), `ChainReconcileFails`, `ChainReconcileDelete`, `ChainNotFound`, `UserEditChain`, `UserDeleteChain` |
| `Conditions` | condition ledger of one object | `conds`, `now`, `lastSet` (history: the last setter call) | `Set(c)` for every constructor output `c` (`SetTrue`/`SetFalse`/`SetUnknown`), `Tick` |
| `MC_MinerX`, `MC_Chain`, `MC_Conditions` | TLC instances | model values for names, MinerSets and condition types | — |

### How the model corresponds to the code

- **Miner passes are one atomic step.** A worker holds the Miner's key, and
  every read of a pass is a read of the store. A pass that fails at its first
  write changes nothing, so it is a stutter. The failures that leave part of
  the work done are actions of their own:
  - the Pod Create failing after the finalizer Update (`MinerReconcilePodCreateFails`);
  - the delete poll timing out after the Deleting condition was written (`MinerReconcileDeleteTimeout`).
- **MinerSet passes are split at their writes.** `pc` records where a pass is,
  so one worker per MinerSet is kept. The created Miners are not added to the
  pass's list, as in the code.
- **The informer cache.** With `CacheLag` the List returns `cache`, a copy
  of the Miners as the store held them at some earlier step. `CacheSync`
  makes it the current store, and the cache starts synced, as the manager
  waits for it before starting workers. The confirmation poll Gets through
  the same cache, so a confirmed Create leaves the cache holding the new
  Miner; the model sets it to the store at that step. With `ConfirmFails`,
  `MSCreateUnconfirmed` is the poll returning an error (a Get error, or the
  10s timeout): the Miner was created, and the pass ends with no status.
  The MinerSet's own Get and the Miner controller read the store.
- **The scale-down choice.** `GetMinersToDelete` is "any `diff` Miners of the
  list". Every DeletePolicy takes a contiguous end of an unordered list.
- **Abstracted data.** A Miner is:
  - its controller owner (a MinerSet, `None` or `ChainOwner`);
  - its finalizers and deletion mark;
  - its phase and PodHealthy reason, as last stored;
  - whether its `podDeletionTimeout` is 0 (the constant `ZeroTimeout`, a set
    of pre-existing Miners; the MinerSet's template in the model has the
    default).

  A Pod is its phase, readiness and termination mark. Names are model values.
- **Unset `spec.replicas`** is the model value `NoReplicas`. `MSAdopt` then
  ends the pass with an error after the adoption patches, as `syncReplicas`
  does at line 173. The user may later set a number.
- **The chain label** is not state. The finalizer Update in `MSBegin` writes
  the MinerSet before line 117 sets the label on the in-memory copy. After
  that the pass writes only the status subresource, so the label never
  reaches the store.
- **Refinement.** `MinerX` maps its state to `MinerLifecycle`:
  - a name's stage is Unborn if never used, Gone if no longer in the store,
    Deleting if marked, and Live otherwise;
  - its owner is the Miner's controller reference (`None` once gone);
  - `podUp` means a Pod exists and is not terminating.

  Every `MinerX` step is a `MinerLifecycle` step or a stutter.
  `ImplementsLifecycle == Lifecycle!LSpec` is checked as a temporal property
  in the deletion run.
- **Condition ledger.** `conds` is the ordered `status.conditions` list; one
  `Tick` is one second of `metav1.Now()`. The constructors stamp `now`.
  `Requests` holds every condition `SetTrue`, `SetFalse` and `SetUnknown`
  passes to `Set`: `SetFalse` and `SetUnknown` always with a reason constant.
- **Chain's results and queue.** `queued` is the Chain's request in the work
  queue. It starts TRUE (the creation event); a user edit or delete sets
  it, and so does a failed pass (retried with backoff). A successful pass queues it again when its
  writes changed the Chain or when `PassResult`, the phase results folded
  by `LowestNonZeroResult` from `ctrl.Result{}`, is not zero. Both phases
  return `ctrl.Result{}` on every path without an error. A failing List or
  status write keeps the request queued (backoff). The write is rejected
  whenever the in-memory Chain carries a condition set True
  (`HasTrueCondition`), which happens exactly when a phase found no object.
- **Chain's children.** Nothing in the code ever adds a labeled ConfigMap or
  Miner, so `cmCount`/`mCount` change in no action. They start in
  `InitChildren`: objects with the label may have been made by hand.

## 3. Runs

| Run | cfg | Expect | Properties | Bounds |
|---|---|---|---|---|
| up | `MC_MinerX_up.cfg` | pass | TypeOK, Converges, CreatesOnlyBelowDesired | 2 generated names + 1 Chain-owned Miner, replicas 1→≤2, scale up only, 3 outside events, lagging cache |
| safety | `MC_MinerX_safety.cfg` | pass | LivePodHasGuardedMiner, NoForeignTouch | 3 names + orphan + foreign, replicas ≤1, scale down and deletes allowed, 2 events, failing confirmation polls, symmetry on generated names |
| deletion | `MC_MinerX_deletion.cfg` | pass | MinerDeletionCompletes, ImplementsLifecycle | 2 names + orphan + foreign, replicas unset→≤1, deletes allowed, 2 events, no zero timeout |
| scaledown | `MC_MinerX_scaledown.cfg` | violation | Converges | replicas 2, scale down allowed |
| surplus | `MC_MinerX_surplus.cfg` | violation | DeletesOnlySurplus | as scaledown |
| overshoot | `MC_MinerX_overshoot.cfg` | violation | CreatesOnlyBelowDesired | as up, with failing confirmation polls |
| podgone | `MC_MinerX_podgone.cfg` | violation | MinerGoneMeansPodGone | user deletes |
| zerotimeout | `MC_MinerX_zerotimeout.cfg` | violation | MinerDeletionCompletes | as podgone, the Chain-owned Miner with `podDeletionTimeout` 0 |
| adoptrace | `MC_MinerX_adoptrace.cfg` | violation | NoForeignTouch | two MinerSets, one orphan, replicas 1 |
| chain_gen | `MC_Chain_gen.cfg` | pass | TypeOK, ObservesGeneration, Quiesces | generation ≤8, ConfigMap and Miner present |
| chain_stuck | `MC_Chain_stuck.cfg` | violation | ObservesGeneration | generation ≤2, ConfigMap and Miner each present or not |
| conditions_ledger | `MC_Conditions_ledger.cfg` | pass | TypeOK, NoDuplicateTypes, SetThenGet, TimeMovesOnlyWithChange | 2 types, 2 reasons (and none for SetTrue), 2 messages, clock ≤2 |

**Why the bounds are enough:**
- Two generated names cover a full scale-up to 2 in the up run, where
  nothing is deleted and a failed Create creates nothing. Three cover
  scale-down and re-creation in the safety run.
- In the up and overshoot runs the cache can lag every store write, and a
  pass can start between any Create and the next `CacheSync`.
- The orphan exercises adoption. The Chain-owned Miner exercises the exclusion filter.
- Two MinerSets and one orphan are the smallest case of the adoption race.
- Two or three outside events let:
  - a user act in the middle of a pass (scale, or delete a Miner or the MinerSet);
  - a Pod start and become ready.
- The ledger runs reach lists holding both types in either order, every
  status, and each type replaced with a new reason or message at a later time.
- Every violation trace found is 5–12 steps long.

**Deadlock.** The safety, deletion, zerotimeout and Chain runs set
`CHECK_DEADLOCK FALSE`. There the user can delete everything, and then no
controller has anything left to do. The up and ledger runs check deadlock.

**Fairness.**
- **Miner controller** (`WF` on `MinerReconcile`, `MinerReconcileDelete`):
  - a successful pass requeues after 10s and writes a fresh `LastUpdated`;
  - a failed one (a rejected status write included) is retried with backoff;
  - deletion marks and finalizer removals are watch events.
  - `MinerReconcileDelete` is not enabled for a zero-timeout Miner whose Pod
    exists, so its fairness promises nothing there.
- **MinerSet controller:**
  - `WF` on starting a pass, because passes requeue every 15s (or are
    retried after the rejected status write);
  - `WF` on `CacheSync`: the informer keeps applying the watch events it
    receives;
  - `SF` on each Create/Delete of its loops, because a failure ends the pass. A
    step that is retried forever is assumed to succeed eventually; it is not
    assumed to keep failing.
  - The passes of different MinerSets interleave, as with several workers;
    the default is one worker (`minerset_controller.go:352-357`). This
    over-approximates, and only the adoptrace run has two MinerSets.
- **Chain:** `WF` on serving a queued request, on `ChainReconcileDelete`
  and on `ChainNotFound`. A failed pass keeps the request queued; the
  successful pass is enabled only when its status write can succeed.
- **Environment:** `WF` on a terminating Pod going away and on garbage
  collection.
- **Not fair:** no failure action, and no user or kubelet action.

## 4. Results

- **up, safety, deletion, chain_gen, conditions_ledger pass.**
  - Scale-up converges to exactly `spec.replicas` live Miners, and creates no
    Miner beyond it, while the List reads a lagging cache and every
    confirmation poll succeeds.
  - With one MinerSet, foreign Miners are never touched.
  - Live Pods keep a guarded Miner, also when the Miner's status write is
    rejected after its Pod was created.
  - Miner deletion always finishes when no `podDeletionTimeout` is 0, also
    for a set whose replicas start unset.
  - The two controllers refine `MinerLifecycle`.
  - For a Chain whose children exist, `observedGeneration` catches up, and
    once the edits stop the controller stops queuing its own Chain.
  - The ledger keeps one entry per type and reads back what was set. A
    repeated condition keeps its time.
- **scaledown** (code bug, `minerset_controller.go:251`). Miners carry the
  MinerSet finalizer and nothing removes it. A scaled-down Miner stays marked
  forever and still controlled by the set, so the MinerSet never converges.
- **surplus** (code bug, `minerset_controller.go:177`, `:275`). The trace:
  1. The set is scaled 2 → 1, and the first pass deletes `n1`, which stays
     stuck because of the finalizer.
  2. The next pass still counts `n1`, so `diff = 1`.
  3. The unordered list puts `n2` first, and the pass deletes the last live
     Miner.
- **overshoot** (`minerset_controller.go:213`). The trace:
  1. The pass creates `n1` for `spec.replicas` 1, and the confirmation poll
     fails; the pass ends.
  2. The next pass lists from a cache that has not seen `n1` yet, so
     `diff = -1`, and it creates `n2`: two Miners for one replica.
  Spec §4.3 says the confirmation makes the creation phase consistent
  against an eventually consistent store; that holds only while every poll
  succeeds.
- **podgone** (`part_003:110`). The finalizer is removed as soon as Delete
  returns ok, while the Pod is still terminating.
- **adoptrace** (code bug, `minerset_controller.go:341`). Both MinerSets list
  the orphan `o1`. `msA` adopts it, then `msB`'s merge patch replaces the
  whole `ownerReferences` list, so `o1` moves to `msB`.
- **zerotimeout** (`part_003:105`). With `podDeletionTimeout` 0,
  `PollUntilContextTimeout` runs Delete once on an expired context, which
  fails. The finalizer stays, and every retry does the same. `miner_types.go:76-77`
  says 0 retries indefinitely.
- **chain_stuck** (code bug, `part_002:318`, `:360`, `:378`). A Chain created
  without its ConfigMap sets ConfigMapsCreated True with no reason. The status
  write is rejected, and `createConfigMap` never calls `Create`, so every
  retry is the same and `observedGeneration` is never stamped.

**Divergences the model shows but no run checks.** The project keeps one run
per question, at most twelve. These are listed as hazards in `PROJECT.json`:
- An unset `spec.replicas` (`minerset_controller.go:173`) fails every pass
  after the adoption patches, and no status is written. Spec §7 asks for a
  default instead.
- The chain label (`minerset_controller.go:117`) is set after the MinerSet's
  only Update, so it is never stored. Spec §4.3 step 2 says it is.
- On a delete timeout (`part_003:114`), MinerDeletionFailed is set on the
  in-memory Miner only.
- Changing only a condition's reason or message (`part_001:53`) resets its
  lastTransitionTime. `TimeMovesOnlyWithChange` allows this, and checks only
  that a repeated condition keeps its time.
- The MinerSet status write (`minerset_controller.go:317`) is always
  rejected, so `status.replicas` and the conditions are never reported.

Every property of a passing run has a mutant in `PROJECT.json`: a plausible bug
in the code it is about, which TLC catches.

## 5. Not modelled

- **Cache lag outside the MinerSet List:** the MinerSet's Get of itself and
  every read of the Miner and Chain controllers read the store directly.
  A stale read there is not among the modelled behaviours.
- **Time:** `PodDeletionTimeout`, the 2s and 100ms poll intervals, and
  requeue delays. A non-zero timeout's expiry is the
  `MinerReconcileDeleteTimeout` action; a zero timeout is `ZeroTimeout`.
- **The Miner controller's rate of passes.** Every pass writes
  `LastUpdated = now`, so the unfiltered watch queues the next pass at once
  rather than after the 10s requeue. MinerX keeps Miner passes always enabled,
  so this is within its behaviours. No property is about the rate.
- **Data the controllers do not branch on:** Pod specs (`createPodSpec` is
  abstracted to the Pod's first phase), images, display names, addresses,
  failure messages and the ConfigMap data. Also DeepCopy code and scheme
  registration.
- **The first Chain file** (`part_002:17-151`): every pass sets
  InfrastructureReady True with no reason and its status write fails, so a
  pass is only the finalizer Update and a retry, which is what
  `ChainReconcileFails` of `Chain` does. Its `createConfigMap` and
  `createMinerForChain` are never called.
- **Status contents:** the MinerSet status is never stored; the Chain's refs
  and conditions are stored only by passes that set nothing True, which
  change none of them.
- **Tests and `test/kind/setup.sh`:** their expectations appear as
  properties, but they change no state of the system.
