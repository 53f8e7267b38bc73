# TLA+ verification of the ClusterVersion reconciler

This directory holds a TLA+ model of the reconciliation engine of
ocs-client-operator (`src/controllers/clusterversion_controller.go`). It also
holds the TLC runs that check the model and the TLAPS proofs about it.

## Inventory of the source

| Source | Lines | What it is | Modelled |
|---|---|---|---|
| `src/controllers/clusterversion_controller.go` | 608 | the reconciler: watches, Reconcile, createOrUpdate, the config readers, the mutate functions, applyLabels, the Subscription labeler | yes |
| `src/config/manager/manager.yaml` | 86 | the operator's Deployment manifest (one replica) | no: static packaging |
| `src/unnamed/part_000` | 49 | a CI spellcheck workflow | no: no runtime state |

The `csi`, `console`, `templates` and `utils` packages the controller calls are
not part of this snapshot. The spec (spec.md §1) treats their desired-state
functions as pure. Their output is abstracted to "the object has its desired
contents".

## The system and how its parts interact

One controller reconciles the single key `"version"`.

- **Event Router** (`SetupWithManager`, 88–137). These watches re-add the key:
  - the operator ConfigMap (name filter);
  - the storageclusters CRD (metadata);
  - the Subscription (namespace filter, label change);
  - the ValidatingWebhookConfiguration (name filter);
  - ClusterVersion (generation changes).

  The controller-runtime work queue holds each key at most once. A key that
  is re-added while it is being processed is processed again afterwards.
  The informers also resync periodically (controller-runtime's default
  SyncPeriod, 10 hours): every cached object is re-delivered as an update.
  The CRD watch has no filter and the cluster always has CRDs, so every
  resync re-adds the key.
- **Reconcile Orchestrator** (`Reconcile`, 158–366). It runs these steps in
  order:
  1. the webhook;
  2. the Subscription label;
  3. the console Deployment Get, then the nginx ConfigMap, the console
     Service and the ConsolePlugin;
  4. the DEPLOY_CSI flag;
  5. if the flag is true: the ClusterVersion Get and InitializeSidecars, the
     SCC, the two write-once ConfigMaps, four workloads, two CSIDrivers, the
     operator config, and the PrometheusRule.

  The first error ends the pass, and the queue retries it with rate limiting.
- **Resource Synchronizer** (`createOrUpdate`, 369–376). It calls
  `controllerutil.CreateOrUpdate`: Get, mutate, compare, then Create, or
  Update with the fetched resourceVersion. The API server refuses a stale
  resourceVersion (Conflict), an Update of a missing object (NotFound) and a
  Create of an existing one (AlreadyExists).
- **Field-Preserving Merge**. How much of the fetched object each mutate
  keeps:
  - the webhook's mutate keeps the injected caBundle (538–576);
  - the SCC (197–203) and the ConsolePlugin (469–476) are rebuilt whole from
    their desired state, and only the fetched resourceVersion is put back;
  - the console Service (454–462) is overwritten with nothing kept.
- **Config Resolver**: `getDeployCSIConfig` (486–527) and `getOperatorConfig`
  (406–413).
- **Ownership Manager**: `own` / `SetControllerReference` (378–380, 446,
  457).
- **Other writers**:
  - the OpenShift service-CA operator injects the caBundle into the
    annotated webhook;
  - OLM owns the Subscription and the console Deployment;
  - users edit the write-once ConfigMaps and the operator ConfigMap.

## Modules

### `ClusterVersionReconciler.tla`: the reconciler and its environment

**State.**

| Variable | What it models |
|---|---|
| `store` | the API server. For each object: exists, resourceVersion, desired or drifted contents, owner reference, caBundle injected, label text, server-filled fields present. |
| `cfg` | the operator ConfigMap: absent, or DEPLOY_CSI absent/true/false/unparsable plus a label text. |
| `crd` | whether the storageclusters CRD exists. |
| `consoleDep` | whether the console Deployment exists. |
| `queued` | the key is in the work queue, or is dirty. |
| `pc` | the step the running pass is at. |
| `pend` | the object a createOrUpdate has mutated and is about to write. |
| `cfgLabels` | the label text read by getOperatorConfig. |
| `budget` | how many environment steps are left. |
| `clean`, `quiet`, `passQuiet`, `wrote` | ghost variables for idempotence. |

**Granularity.** Each remote round trip is one step. A createOrUpdate is two
steps:
- `CouGet(r)`: the Get, the mutate and the compare. An equal object means no
  write.
- `CouWrite(r)`: the Create or Update, accepted or refused.

Other writers can therefore act between the Get and the write, which is where
the races are.

**Actions.** The actions follow the code:
- `Start`, `Abort` (every error return), `Finish`;
- `LabelSubscription`, with its three outcomes;
- `GetConsoleDeployment`;
- `ResolveDeployCSI`: a missing ConfigMap and an unparsable flag are errors,
  and a false flag ends the pass;
- `InitializeSidecars`;
- `CreateConfigMap`: Create, with AlreadyExists ignored;
- `CreateCSIDriver`;
- `GetOperatorConfig`;
- `ApplyLabelsPanic`: the `parts[1]` index at line 399;
- `NginxNilMapPanic`: the nginx mutate writes into `Data` (line 444). A
  fetched ConfigMap whose `data` was removed decodes with a nil map, and the
  write panics. `CouGet` of the nginx ConfigMap is enabled only when its data
  is present, so the two share the cases between them.

A write to the webhook or the Subscription re-queues the key, because both are
watched. `Resync` is the informers' periodic resync: it re-queues the key
when it is not queued (lines 130–136).

**Mutate functions.** One per object kind (`MutateWebhook`, `MutateService`,
and so on), each saying which fields it keeps and which it overwrites:
- the console Service's DeepCopyInto drops the owner reference, the
  resourceVersion and the server-filled fields;
- the ConsolePlugin's and the SCC's drop the server-filled fields and keep
  the resourceVersion. `csi.SetSecurityContextConstraintsDesiredState`
  fully overwrites the object (spec §4.3), and lines 198–201 put back only
  the resourceVersion.

**Environment actions.**
- `EnvEdit` and `EnvDelete`: changes to the objects in `EditTargets`.
- `EnvClearNginxData`: another writer removes the `data` of the nginx
  ConfigMap (object state `"nodata"`).
- `EnvSetConfig` and `EnvToggleCRD`: changes to the inputs.
- `EnvConsoleDeployment`: OLM creating or deleting the console Deployment,
  with garbage collection of what it owns.
- `Fault`: any remote call failing.
- `InjectCA`: the service-CA operator.

Every environment step except `InjectCA` spends one unit of `budget`
(`MaxEnv`). `InjectCA` needs no bound: it fires only while the stored webhook
has no bundle.

**Initial states.** The key is queued, since the informer lists ClusterVersion
at start-up. Nothing managed exists yet. OLM's Subscription exists without the
label. The ConfigMap, the CRD and the console Deployment are arbitrary.

### `LabelParser.tla`: applyLabels as an algorithm

`applyLabels` (386–404) over label texts of up to `MaxLen` characters drawn
from two letters, `:`, space and newline. The white space is only space and
newline. Go's `unicode.IsSpace` also trims tab, carriage return and others;
these characters are outside the model's alphabet, so a label text that uses
them is not checked. It models the Go string functions by
what they return:
- `Split`: `strings.Split`, in `LabelParser`;
- `SplitN`: `strings.SplitN(_, ":", 2)`, in `GoStrings`;
- `TrimSpace`: `strings.TrimSpace`, in `GoStrings`.

`GoStrings.tla` has no constants and uses only `Naturals` and `Sequences`,
so that the prover can reason about it. It also holds the spec's meaning of
one line, written over positions of the whole text: `Trimmed` (by `CHOOSE`),
`ColonOf` (the first colon of a span), `KeyOf` and `ValueOf`.

The loop takes one step per line:
- `SplitLines`;
- `SkipEmpty`;
- `PutLabel`;
- `IndexPanic`: a non-empty line without `:`;
- `Assign`: `t.Labels = promLabel`.

The fetched object starts with no labels or with one template label.
`RefLabels` is an independent reference definition of spec §4.6. It is
written over positions of the text: line spans, the first colon, trimming by
`CHOOSE`, and the last line of a key winning.

### `MCClusterVersionReconciler.tla`: the instance for TLC

It fixes these constants:
- three label texts: empty, well-formed and malformed;
- the objects other writers touch;
- the environment budget.

It also replaces `NextRV` (resourceVersion + 1) by a counter modulo `RVMod`.
The assumption `RVMod > MaxEnv + 1` makes this sound: between a Get and the
write that carries its resourceVersion, at most `MaxEnv` environment writes and
one CA injection can hit the object. A stale resourceVersion therefore never
comes round again, and no conflict is missed.

### `ReconcilerProofs.tla`, `IdempotenceProofs.tla`, `LabelsProofs.tla`, `StringProofs.tla`: TLAPS proofs

See "What is proved" below. `IdempotenceProofs` extends `ReconcilerProofs`,
and `LabelsProofs` extends `IdempotenceProofs`. The
strengthened invariants QInv and LInv are defined at the end of
`ClusterVersionReconciler.tla`, so that TLC checks them. So are QInv's helpers
`Rank`, `OnPath` and `Settled`. `StringProofs` extends `GoStrings` alone,
with the library's `SequenceTheorems` and `WellFoundedInduction`.

## Runs

The reconciler runs (`MCClusterVersionReconciler`) check deadlock. The
resync keeps the controller running forever, so every state has a successor.
The parser runs (`LabelParser`) set `CHECK_DEADLOCK FALSE`, because
applyLabels ends: a final state is applyLabels having returned or panicked.

| Run | Cfg | Checks | Result |
|---|---|---|---|
| safety | MCSafety.cfg | TypeOK, IdempotentExceptTemplates, LabelsFollowConfig, CABundleNeverCleared, WriteOnceKept | pass (about 290 k states) |
| quiescence | MCQuiescence.cfg | Quiescence | pass (about 220 k states) |
| inductive | MCInductive.cfg | IInv, QInv and LInv, with the unbounded resourceVersions of the spec under the constraint RVBounded | pass (about 1.8 M states) |
| drift_repaired | MCDriftRepaired.cfg | DriftRepaired | pass (about 200 k states) |
| label_parser | MCLabelParser.cfg | TypeOK, ParseMatchesSpec | pass (about 29 k states) |
| flag_default | MCFlagDefaultWhenConfigAbsent.cfg | FlagDefaultWhenConfigAbsent | violation, as expected |
| idempotent_pass | MCIdempotentPass.cfg | IdempotentPass | violation, as expected |
| owners_attached | MCOwnersAttached.cfg | OwnersAttached | violation, as expected |
| nginx_nodata | MCNginxNoData.cfg | Quiescence | violation, as expected |
| labels_merged | MCLabelsMerged.cfg | LabelsMerged | violation, as expected |

**safety.** Other writers may edit or delete the webhook, the monitor
ConfigMap, the Subscription and the nginx ConfigMap (including removing its
data), one environment step in all: an edit, a fault, a config or CRD change
or console Deployment churn. The CA injection and the resync come on top. The
properties checked:
- **CABundleNeverCleared** (action property): no reconciler step clears an
  injected caBundle. An injection that races between the webhook's Get and its
  Update makes the Update conflict.
- **WriteOnceKept** (action property): no reconciler step changes an existing
  monitor or encryption ConfigMap.
- **IdempotentExceptTemplates**: a pass that starts right after a clean,
  successful pass, with no other writer acting since, writes nothing except
  the console Service, the ConsolePlugin and the SCC, the three objects whose
  mutate rebuilds the whole object. Every other object, the webhook with its
  injected caBundle among them, is found equal to its mutated copy. The
  stronger IdempotentPass fails; see below.
- **LabelsFollowConfig**: when the controller is at rest (no pass running,
  key not queued) and the current ConfigMap and CRD say to deploy CSI, an
  existing PrometheusRule carries the labels of the current operator
  ConfigMap. A pass reads the ConfigMap twice: for DEPLOY_CSI (line 490) and
  for OCS_METRICS_LABELS (line 348). An edit between or after the two reads
  must still reach the rule. It does, because the ConfigMap watch (line 132)
  re-queues the key. Two changes to the model make this property fail:
  - dropping that re-queue;
  - applying the labels only to a rule that the Get did not find (the mutant
    `MutatePromRuleKeepLabels`).

**quiescence.** Once the operator ConfigMap is valid, the Subscription and the
console Deployment exist, and they stay so (`InputsValid`), the controller
eventually stops re-triggering itself (`SelfTrigger`):
- every pass succeeds;
- no pass writes the watched webhook or Subscription;
- the CA injection stops.

The loop through its own watched writes and the CA injection dies out. The
resync still wakes the controller every period, and each pass then writes
the three rebuilt objects, which are not watched. So "idle for ever" would be
false for the code, and the property is stated over the self-triggering
steps instead. `InputsValid` leaves two further assumptions tacit:
- the cluster version is one InitializeSidecars supports, since the model
  has no ClusterVersion and its failure is only the budgeted `Fault`;
- the label text is one the API server accepts as label keys and values,
  since the model's label texts are abstract.

**drift_repaired.** Once the inputs stay valid, an nginx ConfigMap that
another writer changed is set back to the desired nginx.conf. The ConfigMap
kind is not watched (130–136), so the repair may wait for the resync, but it
comes. The mutant `MutateNginxKeepData` breaks it: a mutate that keeps
existing data never repairs the drift.

**label_parser.** There are 3,906 texts: every text of up to five characters
over five symbols. Each is run against both starting label sets, for 7,812
initial states. When
applyLabels returns, the text is well formed and the labels are exactly
`RefLabels(text)`. This covers values that contain a colon, repeated keys,
padding and empty lines. When it panics, the text is not well formed.

**Violation runs.** Each one records a finding:
- **flag_default.** `getDeployCSIConfig` fails on a missing operator ConfigMap
  (line 490). The spec (§3, §4.1, §8) says absence means empty data, so the
  flag should default to true when the CRD is absent.
- **idempotent_pass.** The console Service, the ConsolePlugin and the SCC
  are rewritten on every pass (lines 460, 473, 199), against spec §8. Each
  mutate rebuilds the whole object, so the compare always differs.
- **owners_attached.** The console Service gets no owner reference: the
  DeepCopyInto at line 460 undoes the SetControllerReference at line 457.
- **nginx_nodata.** A user removes the nginx ConfigMap's data. Every pass then
  panics at line 444, the rate limiter re-queues the key, and the
  controller never stops re-triggering itself.
- **labels_merged.** `t.Labels = promLabel` (line 403) replaces the labels of
  the fetched rule. The doc comment at line 386 promises it only overwrites
  the keys it defines. An empty text removes the template's label.

**Bounds.** The `inductive` run has `MaxEnv = 2`. That allows an edit or
deletion together with a fault or an input change inside one pass, or two
edits between a Get and its write. Two is the smallest budget that reaches
these interleavings:
- a CA injection between the webhook's Get and Update;
- a deletion followed by re-creation;
- a user edit of a write-once ConfigMap followed by another pass;
- an environment step during the pass that follows a quiet pass.

Its invariants are the ones the proofs derive the `safety` run's properties
from. The `safety`
run itself has `MaxEnv = 1`: with the resync, two steps over four edit targets
take TLC more than five minutes. One foreign step still races every Get and
write, and the CA injection is a second writer on top of it. The
quiescence, drift and nginx runs also use `MaxEnv = 1` to keep the liveness
checks small. One environment step is enough there: one edit, one deletion,
or one removal of the nginx data.

The parser's bound is `MaxLen = 5` over two letters. That is the shortest
length that holds two lines with a key each (`a:\nb:`), a repeated key
(`a:\na:`), a padded value (`a: b`) and a value with a colon (`a:b:`).

**Mutants.** Every property of a passing run is broken by a plausible bug in a
mapped definition:

| Mutant | What changes | Breaks |
|---|---|---|
| `MutateWebhookNoRV` | the webhook mutate copies a template over the whole object | CABundleNeverCleared |
| `MutateWebhookDropCA` | the webhook mutate forgets the caBundle | Quiescence (endless injection and clearing), IInv |
| `MutateWorkloadFromTemplate` | a CSI workload's mutate rebuilds the whole object like the SCC's | IdempotentExceptTemplates, QInv |
| `MutateNginxKeepData` | the nginx mutate keeps the fetched data when the ConfigMap exists | DriftRepaired |
| `MutatePromRuleKeepLabels` | the rule's labels applied only to a rule the Get did not find | LabelsFollowConfig, LInv |
| `CreateOrUpdateConfigMap` | the write-once ConfigMaps written with createOrUpdate | WriteOnceKept |
| `GetOperatorConfigNil` | getOperatorConfig without its NotFound tolerance | TypeOK |
| `SplitOffByOne` | `strings.Split` pieces keep their separator | TypeOK (parser) |
| `SplitNLast` (GoStrings) | `SplitN` cutting at the last colon (`strings.LastIndex` where `strings.Index` is meant) | ParseMatchesSpec |

## Fairness

`Spec` assumes weak fairness of:
- `CtrlNext`: controller-runtime runs a worker whenever the key is queued, and
  each remote call returns, with an error or a timeout from the request
  context at worst (spec §5);
- `InjectCA`: the service-CA operator keeps reconciling the annotated webhook;
- `Resync`: the informers' resync timer fires every SyncPeriod.

Nothing is assumed of the other writers. Their steps are bounded by `budget`.

## What is proved

`ReconcilerProofs.tla`, `IdempotenceProofs.tla`, `LabelsProofs.tla`  and `StringProofs.tla` are checked by
tlapm, every leaf proved. The reconciler proofs hold for all values of the
constants, under `EnvAssumption`: `MaxEnv` is a natural number, and the
malformed and empty texts are label texts. They use the unbounded
`NextRV(n) = n + 1` of the specification. The string proofs hold for texts
of any length over any alphabet.

- **TypeCorrect**: `Spec => []TypeOK`. The proof has one step per action. It
  rests on lemmas saying that `Stored`, every mutate function, `Absent`, a
  deleted object and a single-field edit are object states again.
- **IInvariant**: `Spec => []IInv`. `CABundleNeverCleared` is not inductive as
  it stands, because it says nothing about the pending write. IInv adds three
  conjuncts to TypeOK:
  - `StoreRVsAssigned`: every stored resourceVersion is a natural number.
    The empty one, `NoRV`, only ever travels in an update request.
  - `CAOnlyOnStored`: a caBundle sits only on an existing webhook.
  - `PendingWebhookStale`: a pending webhook write carries a resourceVersion
    no later than the store's. If the store has a bundle and the pending
    object does not, the resourceVersion is strictly older, because the
    bundle arrived by an injection after the Get.

  The run `inductive` checked IInv before it was proved. The step lemma
  `IInvStep` (`IInv /\ [Next]_vars => IInv'`) takes one case per part of
  `Next`: the controller, the environment, and `Resync`, which changes only
  `queued`.
- **CABundleKept**: `Spec => CABundleNeverCleared`. The proof rests on IInv.
  An accepted Update of the webhook carries either no resourceVersion, which
  a fetched object never has, or the current one. By `PendingWebhookStale` it
  then carries the bundle. A Create is refused while the webhook exists, and
  `CAOnlyOnStored` says a bundle means the webhook exists.

- **QInvariant**: `Spec => []QInv`, in `IdempotenceProofs`.
  `IdempotentExceptTemplates` says nothing about the pass before the quiet
  one, so it is not inductive. QInv strengthens TypeOK with three conjuncts:
  - `PendAtStep`: a pending write belongs to the step at `pc`, and there is
    none while the reconciler is idle.
  - `CleanPassSettled`: in a pass that has met no foreign write (`clean`),
    every earlier step on the pass's path is settled. The path is ordered by
    `Rank`, the order of the calls in Reconcile. The CSI steps are on the path
    only when the flag says to deploy them (`OnPath`). Settled means the object
    exists and its mutate function leaves it unchanged. For the Subscription,
    it means the desired spec. For the console, it means the Deployment is
    present. For the flag, it means a valid ConfigMap. For the operator
    ConfigMap read, it means the labels read are the current ones. A pending
    write carries the mutate of the current object.
  - `QuietSettled`: after a quiet pass, every step on the path is settled
    (`SettledBefore("done")`). While a pass is quiet, it is clean and has
    written only the three rebuilt objects.

  Each action gets a lemma (`StartQInv`, `CouWriteQInv`, `FlagQInv`, ...).
  Each lemma rests on `SettledKept`: a step that leaves an object, the
  operator ConfigMap and the flag alone keeps that object settled. The writes
  rest on `WriteSettles`: an accepted write of `Mutate(r, store[r])` settles
  `r`, because every mutate function except the three that rebuild the whole
  object is idempotent (`MutateFixed`). `Resync` only sets `queued`, which
  QInv does not mention. Any environment step that could unsettle an object clears
  `clean` and `passQuiet`. TLC checked QInv in the `inductive` run, and in
  the `safety` instance, before it was proved.
- **IdempotenceKept**: `Spec => []IdempotentExceptTemplates`. It follows from
  QInv's last conjunct. What it excepts is exactly what the code rewrites
  every pass: the console Service, the ConsolePlugin and the SCC. For every
  other object, the webhook included, it proves that an undisturbed second
  pass finds the object equal to its mutated copy.
- **WriteOnceProved**: `Spec => WriteOnceKept`. The proof uses only TypeOK. A
  reconciler step reaches a monitor or encryption ConfigMap only through the
  create-only path, and that path's Create is refused while the object
  exists.
- **LInvariant**: `Spec => []LInv`, in `LabelsProofs`.
  `LabelsFollowConfig` speaks only of a state at rest, so it is not inductive
  as it stands. LInv adds `PassFollowsConfig`, which applies while the key has
  not been re-queued since the pass started. In that case the ConfigMap and
  the CRD have not changed since the pass read them, because every change to
  them re-queues the key. Then:
  - a pass past the DEPLOY_CSI check that is not done is on the CSI path
    only if DeployCSI holds;
  - at the rule's step, the label text read is the current one, and a pending
    write of the rule carries it;
  - once the pass is done with DeployCSI, the stored rule carries the current
    labels.

  The step proof also uses QInv, proved before, for `PendAtStep`: no write of
  the rule is pending when the labels are read. `FrameLInv` covers every
  step that leaves the inputs and the rule's labels alone. Every change to
  the inputs, every fault, every abort and every resync re-queues the key
  (`QueuedLInv`). The remaining steps each have a lemma: the DEPLOY_CSI
  check, the label read, the rule's Get, the rule's write, and Finish. TLC
  checked LInv in the `inductive` run first.
- **LabelsFollow**: `Spec => []LabelsFollowConfig`, from LInv.
- **TrimSpaceIsTrimmed**, in `StringProofs`: for every text,
  `TrimSpace(x) = Trimmed(x)`. `TrimSpace` cuts from the first to the last
  position that holds no white space. `Trimmed` is the spec's reading: the
  infix with no white space at either end, all that lies outside it being
  white space. The proof shows that such an infix exists (`TrimExists`) and
  that `TrimSpace` is the only one (`TrimUnique`). Both rest on lemmas that
  `FirstOf` and `LastOf` give the least and the greatest member of a
  non-empty bounded set of naturals. The least member comes from
  `WellFoundedInduction`'s `WFMin` on `<` over `Nat`. The greatest comes from
  the least distance to the bound.
- **SplitNLine**, in `StringProofs`: for every text `s` and every non-empty
  span `b..e`, `SplitN(SubSeq(s, b, e), ":")` has one part exactly when
  `ColonOf(s, <<b, e>>) = 0`. That is the case where `IndexPanic` fires.
  Otherwise it has two parts, and their `TrimSpace`s are `KeyOf` and
  `ValueOf` of the span. So `PutLabel` on a line puts exactly the spec's key
  and value of that line. This includes a colon at either end of the line,
  where one side is empty. `SliceOfSlice` covers those empty slices, which
  `SequenceTheorems`' `SubSeqOfSubSeq` leaves out.

## What is only model-checked

These stay with TLC:
- liveness (`Quiescence`, `DriftRepaired`): TLAPS does not handle
  fairness or ENABLED;
- `LabelParser`'s `TypeOK` and `ParseMatchesSpec`. `StringProofs` proves
  the per-line part of `ParseMatchesSpec` (`SplitNLine`). What remains is
  `strings.Split` and the loop over its lines. `Split` is written with
  `SequencesExt`'s `SetToSortSeq`, which is a `CHOOSE` of a sorted
  permutation (the TLC module's `SortSeq`). To show that `Split`'s pieces
  are exactly the line spans, one must show that such a permutation exists
  and count the separators. Both need induction over the text, and the
  installed provers cannot instantiate the library's induction theorems,
  which take an operator parameter. `TypeOK` needs the same facts, for the
  line type and for the bound on the loop index;
- the six violation runs.

## Not modelled, and the plan for later sittings

1. **ClusterVersion status and sidecars.** A status-only version change is
   filtered by GenerationChangedPredicate (line 90), so the sidecars stay on
   the old version (line 187). An unsupported version fails every pass at
   InitializeSidecars, and the model has only the budgeted `Fault` for it.
   Plan: a version variable and a run expected to fail.
2. **Stale informer-cache reads.** The client reads from the informer cache,
   so a Get right after the reconciler's own Create (line 370) may not see the
   object, and the next Create fails with AlreadyExists. The model reads the
   API server directly. Plan: a cache variable that lags the store.
3. **Uninstall.** Deleting the operator Deployment should cascade to the
   owned objects, while the CSIDrivers and the SCC are kept. Not modelled
   yet.
