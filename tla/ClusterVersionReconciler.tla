---------------------- MODULE ClusterVersionReconciler ----------------------
(***************************************************************************)
(* The ClusterVersion reconciler of ocs-client-operator                    *)
(* (src/controllers/clusterversion_controller.go), together with the      *)
(* parts of its environment it races with: the remote object store with    *)
(* optimistic concurrency, the controller-runtime work queue holding the   *)
(* single request key "version", the OpenShift service-CA injector, and    *)
(* administrators or other operators editing the inputs and the managed    *)
(* objects.                                                                *)
(*                                                                         *)
(* One reconcile pass is a sequence of steps; each remote round trip is    *)
(* one atomic step, and a createOrUpdate is two of them (Get + mutate,     *)
(* then Create or Update), so that other writers can act in between.       *)
(* Object contents are abstracted to the fields the properties tell apart. *)
(***************************************************************************)
EXTENDS Integers

CONSTANTS
    LabelTexts,     \* abstract values of the OCS_METRICS_LABELS text
    Malformed,      \* the member of LabelTexts holding a line with no ':'
    EditTargets,    \* objects other writers may edit or delete
    MaxEnv          \* number of environment steps (edits, faults) allowed

ASSUME EnvAssumption ==
    /\ MaxEnv \in Nat
    /\ Malformed \in LabelTexts
    /\ "empty" \in LabelTexts

-----------------------------------------------------------------------------
(* The objects.  The ones written with createOrUpdate, the two config     *)
(* maps that are only ever created, the two CSIDriver objects, and the    *)
(* operator's Subscription, which the reconciler labels but never creates. *)
CouObjs   == {"webhook", "nginxCM", "consoleSvc", "consolePlugin", "scc",
              "cephfsDep", "cephfsDS", "rbdDep", "rbdDS", "promRule"}
WriteOnce == {"monCM", "encCM"}
Drivers   == {"cephfsDriver", "rbdDriver"}
Managed   == CouObjs \cup WriteOnce \cup Drivers
Obj       == Managed \cup {"subscription"}

(* Objects whose mutate function copies a whole template over the fetched *)
(* object, dropping the fields the API server fills in (uid, clusterIP):  *)
(* the console Service (460), the ConsolePlugin (471) and the SCC, whose  *)
(* desired-state function overwrites the object (199-200).                *)
TemplateCopied == {"consoleSvc", "consolePlugin", "scc"}

(* The namespaced objects the code makes owned (SetControllerReference): *)
(* by the operator's own Deployment, or by the console Deployment.        *)
OperatorOwned == {"cephfsDep", "cephfsDS", "rbdDep", "rbdDS", "promRule"}
                     \cup WriteOnce
ConsoleOwned  == {"nginxCM", "consoleSvc"}

(* Objects whose changes reach the work queue: the webhook (name filter)  *)
(* and the Subscription (namespace filter and label change).             *)
Watched == {"webhook", "subscription"}

Steps == {"webhook", "subscription", "console", "nginxCM", "consoleSvc",
          "consolePlugin", "flag", "cluster", "scc", "monCM", "encCM",
          "cephfsDep", "cephfsDS", "rbdDep", "rbdDS", "cephfsDriver",
          "rbdDriver", "opConfig", "promRule", "done"}

(* The order of the steps of Reconcile.                                   *)
Succ == [webhook |-> "subscription", subscription |-> "console",
         console |-> "nginxCM",
         nginxCM |-> "consoleSvc", consoleSvc |-> "consolePlugin",
         consolePlugin |-> "flag", cluster |-> "scc", scc |-> "monCM",
         monCM |-> "encCM", encCM |-> "cephfsDep", cephfsDep |-> "cephfsDS",
         cephfsDS |-> "rbdDep", rbdDep |-> "rbdDS", rbdDS |-> "cephfsDriver",
         cephfsDriver |-> "rbdDriver", rbdDriver |-> "opConfig",
         opConfig |-> "promRule", promRule |-> "done"]

NoRV == -1          \* an empty resourceVersion in an update request

(* The state of a stored object: spec is "desired" when it matches what   *)
(* the reconciler computes and "drift" after another writer changed it;   *)
(* for the Subscription "desired" means it carries the webhook label;     *)
(* "nodata" is a ConfigMap whose data map another writer removed.         *)
ObjState == [exists : BOOLEAN, rv : Nat \cup {NoRV},
             spec : {"none", "desired", "drift", "nodata"},
             owner : {"none", "operator", "console"},
             ca : BOOLEAN, labels : LabelTexts \cup {"none"},
             server : BOOLEAN]

Absent == [exists |-> FALSE, rv |-> 0, spec |-> "none", owner |-> "none",
           ca |-> FALSE, labels |-> "none", server |-> FALSE]

DeployCSIValues == {"absent", "true", "false", "bad"}
NoConfig == [exists |-> FALSE, deployCSI |-> "absent", labels |-> "empty"]
CfgStates == {NoConfig} \cup
             [exists : {TRUE}, deployCSI : DeployCSIValues,
              labels : LabelTexts]

NoPend == [r |-> "none", obj |-> Absent]

(* The next resourceVersion the store assigns; TLC runs override it.      *)
NextRV(n) == n + 1

VARIABLES
    store,      \* Obj -> ObjState, the remote object store
    cfg,        \* the operator ConfigMap ocs-client-operator-config
    crd,        \* whether the storageclusters CRD is registered
    consoleDep, \* whether the console Deployment exists
    queued,     \* the key "version" is in the work queue (or dirty)
    pc,         \* "idle" or the step the running pass is at
    pend,       \* the mutated object awaiting its Create/Update
    cfgLabels,  \* OCS_METRICS_LABELS as read by getOperatorConfig
    budget,     \* environment steps left
    clean,      \* ghost: no other writer acted since the last pass started
    quiet,      \* ghost: the last pass succeeded and was clean, and since
    passQuiet,  \* ghost: the running pass started quiet and is clean
    wrote       \* ghost: the objects the running pass has written

vars == <<store, cfg, crd, consoleDep, queued, pc, pend, cfgLabels, budget,
          clean, quiet, passQuiet, wrote>>

TypeOK ==
    /\ store \in [Obj -> ObjState]
    /\ cfg \in CfgStates
    /\ crd \in BOOLEAN
    /\ consoleDep \in BOOLEAN
    /\ queued \in BOOLEAN
    /\ pc \in Steps \cup {"idle"}
    /\ pend \in {NoPend} \cup [r : Obj, obj : ObjState]
    /\ cfgLabels \in LabelTexts
    /\ budget \in 0..MaxEnv
    /\ clean \in BOOLEAN
    /\ quiet \in BOOLEAN
    /\ passQuiet \in BOOLEAN
    /\ wrote \subseteq Obj

-----------------------------------------------------------------------------
(***************************************************************************)
(* The mutate functions handed to createOrUpdate, applied to the fetched  *)
(* object (Absent when the Get found nothing).                             *)
(***************************************************************************)

(* Mutants of the webhook mutate, for the mutation runs: one that copies a *)
(* template over the whole object as the Service mutate does (the update   *)
(* then carries no resourceVersion), one that forgets to copy the injected *)
(* caBundle back.                                                          *)
MutateWebhookNoRV(old) == [old EXCEPT !.spec = "desired", !.rv = NoRV]
MutateWebhookDropCA(old) == [old EXCEPT !.spec = "desired", !.ca = FALSE]
(* reconcileSubscriptionValidatingWebhook: annotations and webhooks[0] are *)
(* overwritten from the template; the injected caBundle of an existing     *)
(* webhooks[0] is copied back; the resourceVersion is left alone.          *)
MutateWebhook(old) == [old EXCEPT !.spec = "desired"]

(* Mutant: nginx.conf written only into a ConfigMap the Get did not find, *)
(* so an existing ConfigMap keeps whatever data it has.                     *)
MutateNginxKeepData(old) ==
    [old EXCEPT !.spec = IF old.exists THEN old.spec ELSE "desired",
                !.owner = "console"]

(* nginx ConfigMap: nginx.conf reset, owned by the console Deployment.    *)
MutateNginx(old) == [old EXCEPT !.spec = "desired", !.owner = "console"]

(* console Service: SetControllerReference, then DeepCopyInto of a fresh  *)
(* template overwrites the whole object: owner reference, resourceVersion *)
(* and the server-filled fields are gone.                                 *)
MutateService(old) ==
    [old EXCEPT !.spec = "desired", !.owner = "none", !.server = FALSE,
                !.rv = NoRV]

(* ConsolePlugin: template copied over, resourceVersion restored.         *)
MutatePlugin(old) == [old EXCEPT !.spec = "desired", !.server = FALSE]

(* SCC: SetSecurityContextConstraintsDesiredState overwrites the whole    *)
(* object; the "hack" (198-201) restores only the resourceVersion, so the *)
(* server-filled fields are lost as in the template copies.                *)
MutateSCC(old) == [old EXCEPT !.spec = "desired", !.server = FALSE]

(* Mutant: the CSI workloads built as a fresh template copied over the    *)
(* fetched object, as the console Service is, keeping the resourceVersion *)
(* as the ConsolePlugin does: the server-filled fields are lost.           *)
MutateWorkloadFromTemplate(old) ==
    [old EXCEPT !.spec = "desired", !.owner = "operator", !.server = FALSE]

(* CSI Deployments and DaemonSets: own, then set the desired state.       *)
MutateWorkload(old) == [old EXCEPT !.spec = "desired", !.owner = "operator"]

(* Mutant: applyLabels run only on a rule that the Get did not find, so   *)
(* an existing rule keeps the labels it was created with.                  *)
MutatePromRuleKeepLabels(old, text) ==
    [old EXCEPT !.labels = IF old.exists THEN old.labels ELSE text,
                !.owner = "operator",
                !.spec = IF old.exists THEN old.spec ELSE "desired"]

(* PrometheusRule: the Get overwrites the object decoded from the embedded *)
(* YAML, so the rules are only those of the create; the mutate replaces   *)
(* the labels by the parsed OCS_METRICS_LABELS and owns the object.       *)
MutatePromRule(old, text) ==
    [old EXCEPT !.labels = text, !.owner = "operator",
                !.spec = IF old.exists THEN old.spec ELSE "desired"]

(* utils.AddLabel on the Subscription.                                    *)
MutateSubscription(old) == [old EXCEPT !.spec = "desired"]

Mutate(r, old) ==
    CASE r = "webhook"       -> MutateWebhook(old)
      [] r = "nginxCM"       -> MutateNginx(old)
      [] r = "consoleSvc"    -> MutateService(old)
      [] r = "consolePlugin" -> MutatePlugin(old)
      [] r = "scc"           -> MutateSCC(old)
      [] r = "promRule"      -> MutatePromRule(old, cfgLabels)
      [] r = "subscription"  -> MutateSubscription(old)
      [] OTHER               -> MutateWorkload(old)

(* What the store holds after it accepts a Create or an Update of obj.    *)
Stored(r, obj) ==
    [obj EXCEPT !.exists = TRUE, !.rv = NextRV(store[r].rv), !.server = TRUE]

(* The store refuses a Create of an existing object (AlreadyExists), an   *)
(* Update of a missing one (NotFound), and an Update carrying a           *)
(* resourceVersion other than the current one (Conflict).                 *)
Accepts(r, obj) ==
    IF obj.exists
    THEN store[r].exists /\ obj.rv \in {NoRV, store[r].rv}
    ELSE ~store[r].exists

-----------------------------------------------------------------------------
(***************************************************************************)
(* The reconciler.  Reconcile returns an error at the first failing step; *)
(* the work queue then re-adds the key (rate limited).                     *)
(***************************************************************************)

Abort ==
    /\ pc' = "idle"
    /\ pend' = NoPend
    /\ queued' = TRUE
    /\ quiet' = FALSE

(* A worker takes the key: it leaves the queue and a pass starts.         *)
Start ==
    /\ pc = "idle"
    /\ queued
    /\ queued' = FALSE
    /\ pc' = "webhook"
    /\ passQuiet' = quiet
    /\ clean' = TRUE
    /\ wrote' = {}
    /\ UNCHANGED <<store, cfg, crd, consoleDep, pend, cfgLabels, budget,
                   quiet>>

(* createOrUpdate, first round trip: Get, apply the mutate function, and  *)
(* compare with what was fetched; equal means no write at all.            *)
CouGet(r) ==
    /\ pc = r
    /\ pend = NoPend
    /\ r = "promRule" => cfgLabels # Malformed
    /\ r = "nginxCM" => store[r].spec # "nodata"
    /\ LET new == Mutate(r, store[r]) IN
         \/ /\ store[r].exists
            /\ new = store[r]
            /\ pc' = Succ[r]
            /\ UNCHANGED pend
         \/ /\ ~(store[r].exists /\ new = store[r])
            /\ pend' = [r |-> r, obj |-> new]
            /\ UNCHANGED pc
    /\ UNCHANGED <<store, cfg, crd, consoleDep, queued, cfgLabels, budget,
                   quiet, clean, passQuiet, wrote>>

(* The Get in createOrUpdate replaces the whole nginx ConfigMap, Data     *)
(* included; a stored ConfigMap without data leaves Data nil, and the     *)
(* mutate's write nginxConfigMap.Data["nginx.conf"] = nginxConf panics     *)
(* ("assignment to entry in nil map") before any write.  As for the       *)
(* applyLabels panic, the key is processed again.                          *)
NginxNilMapPanic ==
    /\ pc = "nginxCM"
    /\ pend = NoPend
    /\ store["nginxCM"].exists
    /\ store["nginxCM"].spec = "nodata"
    /\ Abort
    /\ UNCHANGED <<store, cfg, crd, consoleDep, cfgLabels, budget, clean,
                   passQuiet, wrote>>

(* createOrUpdate, second round trip: Create or Update.  A write to a     *)
(* watched object is seen by the informer and re-adds the key.            *)
CouWrite(r) ==
    /\ pc = r
    /\ pend.r = r
    /\ \/ /\ Accepts(r, pend.obj)
          /\ store' = [store EXCEPT ![r] = Stored(r, pend.obj)]
          /\ pend' = NoPend
          /\ pc' = Succ[r]
          /\ queued' = (queued \/ r \in Watched)
          /\ wrote' = wrote \cup {r}
          /\ UNCHANGED quiet
       \/ /\ ~Accepts(r, pend.obj)
          /\ Abort
          /\ UNCHANGED <<store, wrote>>
    /\ UNCHANGED <<cfg, crd, consoleDep, cfgLabels, budget, clean, passQuiet>>

(* labelClientOperatorSubscription: List the Subscriptions of the         *)
(* namespace; none for the package is an error; AddLabel reports whether  *)
(* the label was missing, and only then is the Subscription updated       *)
(* (with the resourceVersion of the List).                                *)
LabelSubscription ==
    /\ pc = "subscription"
    /\ pend = NoPend
    /\ LET sub == store["subscription"] IN
         \/ /\ ~sub.exists
            /\ Abort
         \/ /\ sub.exists
            /\ sub.spec = "desired"
            /\ pc' = Succ["subscription"]
            /\ UNCHANGED <<pend, queued, quiet>>
         \/ /\ sub.exists
            /\ sub.spec # "desired"
            /\ pend' = [r |-> "subscription", obj |-> MutateSubscription(sub)]
            /\ UNCHANGED <<pc, queued, quiet>>
    /\ UNCHANGED <<store, cfg, crd, consoleDep, cfgLabels, budget, clean,
                   passQuiet, wrote>>

(* ensureConsolePlugin begins with a Get of the console Deployment; a     *)
(* missing Deployment is an error.                                        *)
GetConsoleDeployment ==
    /\ pc = "console"
    /\ \/ /\ consoleDep
          /\ pc' = Succ["console"]
          /\ UNCHANGED <<pend, queued, quiet>>
       \/ /\ ~consoleDep
          /\ Abort
    /\ UNCHANGED <<store, cfg, crd, consoleDep, cfgLabels, budget, clean,
                   passQuiet, wrote>>

(* getDeployCSIConfig, once the ConfigMap was read: an explicit DEPLOY_CSI *)
(* is parsed, otherwise CSI is deployed iff the storageclusters CRD is     *)
(* not registered.                                                         *)
DeployCSI == IF cfg.deployCSI = "absent" THEN ~crd ELSE cfg.deployCSI = "true"

(* getDeployCSIConfig: the Get of the operator ConfigMap fails on a        *)
(* missing ConfigMap too; a DEPLOY_CSI that is no boolean is an error; a   *)
(* false flag ends the pass successfully.                                  *)
ResolveDeployCSI ==
    /\ pc = "flag"
    /\ \/ /\ (~cfg.exists \/ cfg.deployCSI = "bad")
          /\ Abort
       \/ /\ cfg.exists
          /\ cfg.deployCSI # "bad"
          /\ pc' = IF DeployCSI THEN "cluster" ELSE "done"
          /\ UNCHANGED <<pend, queued, quiet>>
    /\ UNCHANGED <<store, cfg, crd, consoleDep, cfgLabels, budget, clean,
                   passQuiet, wrote>>

(* Get of the ClusterVersion and csi.InitializeSidecars; their failures   *)
(* are the Fault step.                                                     *)
InitializeSidecars ==
    /\ pc = "cluster"
    /\ pc' = "scc"
    /\ UNCHANGED <<store, cfg, crd, consoleDep, queued, pend, cfgLabels,
                   budget, quiet, clean, passQuiet, wrote>>

(* The object a Create of r with owner o leaves in the store.             *)
Created(r, o) ==
    Stored(r, [Absent EXCEPT !.spec = "desired", !.owner = o])

(* Mutant: the monitor/encryption ConfigMaps written with createOrUpdate.  *)
CreateOrUpdateConfigMap(r) ==
    /\ pc = r
    /\ r \in WriteOnce
    /\ pc' = Succ[r]
    /\ store' = [store EXCEPT ![r] = Created(r, "operator")]
    /\ wrote' = wrote \cup {r}
    /\ UNCHANGED <<cfg, crd, consoleDep, queued, pend, cfgLabels, budget,
                   quiet, clean, passQuiet>>

(* The monitor and encryption ConfigMaps: own, then Create; AlreadyExists *)
(* is not an error, so an existing ConfigMap is never written.            *)
CreateConfigMap(r) ==
    /\ pc = r
    /\ r \in WriteOnce
    /\ pc' = Succ[r]
    /\ \/ /\ store[r].exists
          /\ UNCHANGED <<store, wrote>>
       \/ /\ ~store[r].exists
          /\ store' = [store EXCEPT ![r] = Created(r, "operator")]
          /\ wrote' = wrote \cup {r}
    /\ UNCHANGED <<cfg, crd, consoleDep, queued, pend, cfgLabels, budget,
                   quiet, clean, passQuiet>>

(* csi.CreateCSIDriver: create the cluster-scoped CSIDriver if absent (no *)
(* owner reference is possible).                                          *)
CreateCSIDriver(r) ==
    /\ pc = r
    /\ r \in Drivers
    /\ pc' = Succ[r]
    /\ \/ /\ store[r].exists
          /\ UNCHANGED <<store, wrote>>
       \/ /\ ~store[r].exists
          /\ store' = [store EXCEPT ![r] = Created(r, "none")]
          /\ wrote' = wrote \cup {r}
    /\ UNCHANGED <<cfg, crd, consoleDep, queued, pend, cfgLabels, budget,
                   quiet, clean, passQuiet>>

(* Mutant: getOperatorConfig without the NotFound tolerance of line 409,  *)
(* handing back no ConfigMap at all, read as no label text.               *)
GetOperatorConfigNil ==
    /\ pc = "opConfig"
    /\ cfgLabels' = IF cfg.exists THEN cfg.labels ELSE "none"
    /\ pc' = Succ["opConfig"]
    /\ UNCHANGED <<store, cfg, crd, consoleDep, queued, pend, budget, quiet,
                   clean, passQuiet, wrote>>

(* getOperatorConfig: a missing ConfigMap reads as empty data.            *)
GetOperatorConfig ==
    /\ pc = "opConfig"
    /\ cfgLabels' = cfg.labels
    /\ pc' = Succ["opConfig"]
    /\ UNCHANGED <<store, cfg, crd, consoleDep, queued, pend, budget, quiet,
                   clean, passQuiet, wrote>>

(* applyLabels indexes parts[1] of a line without ':' and panics inside   *)
(* the mutate function, after the Get and before any write.  Whether the  *)
(* panic is recovered into an error or restarts the process, the key is   *)
(* processed again and nothing was written.                                *)
ApplyLabelsPanic ==
    /\ pc = "promRule"
    /\ pend = NoPend
    /\ cfgLabels = Malformed
    /\ Abort
    /\ UNCHANGED <<store, cfg, crd, consoleDep, cfgLabels, budget, clean,
                   passQuiet, wrote>>

(* Reconcile returns success; the work queue forgets the key.             *)
Finish ==
    /\ pc = "done"
    /\ pc' = "idle"
    /\ quiet' = clean
    /\ UNCHANGED <<store, cfg, crd, consoleDep, queued, pend, cfgLabels,
                   budget, clean, passQuiet, wrote>>

CtrlNext ==
    \/ Start
    \/ \E r \in CouObjs : CouGet(r)
    \/ NginxNilMapPanic
    \/ \E r \in CouObjs \cup {"subscription"} : CouWrite(r)
    \/ LabelSubscription
    \/ GetConsoleDeployment
    \/ ResolveDeployCSI
    \/ InitializeSidecars
    \/ \E r \in WriteOnce : CreateConfigMap(r)
    \/ \E r \in Drivers : CreateCSIDriver(r)
    \/ GetOperatorConfig
    \/ ApplyLabelsPanic
    \/ Finish

-----------------------------------------------------------------------------
(***************************************************************************)
(* The environment.  Every step but the CA injection spends one unit of   *)
(* the budget and makes the state no longer quiet.                         *)
(***************************************************************************)

EnvStep ==
    /\ budget > 0
    /\ budget' = budget - 1
    /\ clean' = FALSE
    /\ quiet' = FALSE
    /\ passQuiet' = FALSE

(* Another writer changes a managed object (for the write-once ConfigMaps *)
(* this is the users' monitor/encryption configuration; for the           *)
(* Subscription, the label is removed).                                   *)
EnvEdit(r) ==
    /\ EnvStep
    /\ r \in EditTargets
    /\ store[r].exists
    /\ store' = [store EXCEPT
                    ![r] = Stored(r, [store[r] EXCEPT !.spec = "drift"])]
    /\ queued' = (queued \/ r \in Watched)
    /\ UNCHANGED <<cfg, crd, consoleDep, pc, pend, cfgLabels, wrote>>

(* Another writer removes the data of the nginx ConfigMap (an edit that   *)
(* drops the data: field); the ConfigMap is not watched.                   *)
EnvClearNginxData ==
    /\ EnvStep
    /\ "nginxCM" \in EditTargets
    /\ store["nginxCM"].exists
    /\ store' = [store EXCEPT !["nginxCM"] =
                    Stored("nginxCM", [store["nginxCM"] EXCEPT !.spec = "nodata"])]
    /\ UNCHANGED <<cfg, crd, consoleDep, queued, pc, pend, cfgLabels, wrote>>

(* Another writer deletes a managed object.                               *)
EnvDelete(r) ==
    /\ EnvStep
    /\ r \in EditTargets
    /\ store[r].exists
    /\ store' = [store EXCEPT ![r] = [Absent EXCEPT !.rv = store[r].rv]]
    /\ queued' = (queued \/ r \in Watched)
    /\ UNCHANGED <<cfg, crd, consoleDep, pc, pend, cfgLabels, wrote>>

(* The operator ConfigMap is created, edited or deleted; the watch on it  *)
(* re-adds the key.                                                       *)
EnvSetConfig ==
    /\ EnvStep
    /\ \E c \in CfgStates \ {cfg} : cfg' = c
    /\ queued' = TRUE
    /\ UNCHANGED <<store, crd, consoleDep, pc, pend, cfgLabels, wrote>>

(* The storageclusters CRD is registered or removed (metadata watch).     *)
EnvToggleCRD ==
    /\ EnvStep
    /\ crd' = ~crd
    /\ queued' = TRUE
    /\ UNCHANGED <<store, cfg, consoleDep, pc, pend, cfgLabels, wrote>>

(* OLM creates or deletes the console Deployment (not watched).  Deleting *)
(* it garbage-collects the objects it owns.                               *)
EnvConsoleDeployment ==
    /\ EnvStep
    /\ consoleDep' = ~consoleDep
    /\ store' = IF consoleDep
                THEN [r \in Obj |->
                        IF store[r].exists /\ store[r].owner = "console"
                        THEN [Absent EXCEPT !.rv = store[r].rv]
                        ELSE store[r]]
                ELSE store
    /\ UNCHANGED <<cfg, crd, queued, pc, pend, cfgLabels, wrote>>

(* A remote call of the running pass fails (transport error, timeout, an  *)
(* unsupported cluster version in InitializeSidecars).                    *)
Fault ==
    /\ EnvStep
    /\ pc \notin {"idle", "done"}
    /\ Abort
    /\ UNCHANGED <<store, cfg, crd, consoleDep, cfgLabels, wrote>>

(* The service-CA operator fills in the caBundle of the annotated webhook. *)
InjectCA ==
    /\ store["webhook"].exists
    /\ ~store["webhook"].ca
    /\ store' = [store EXCEPT !["webhook"] =
                    Stored("webhook", [store["webhook"] EXCEPT !.ca = TRUE])]
    /\ queued' = TRUE
    /\ clean' = FALSE
    /\ quiet' = FALSE
    /\ passQuiet' = FALSE
    /\ UNCHANGED <<cfg, crd, consoleDep, pc, pend, cfgLabels, budget,
                   wrote>>

(* The informers' periodic resync (controller-runtime's default SyncPeriod *)
(* of 10 hours) re-delivers every cached object as an update; the CRD      *)
(* watch has no filter and the cluster always has CRDs, so the handler     *)
(* re-adds the key (lines 130-135).  An add while the key is queued is     *)
(* absorbed by the work queue.                                             *)
Resync ==
    /\ ~queued
    /\ queued' = TRUE
    /\ UNCHANGED <<store, cfg, crd, consoleDep, pc, pend, cfgLabels, budget,
                   clean, quiet, passQuiet, wrote>>

EnvNext ==
    \/ \E r \in Obj : EnvEdit(r) \/ EnvDelete(r)
    \/ EnvClearNginxData
    \/ EnvSetConfig
    \/ EnvToggleCRD
    \/ EnvConsoleDeployment
    \/ Fault
    \/ InjectCA

-----------------------------------------------------------------------------
(* At start-up the informers list the existing ClusterVersion and the key *)
(* is queued.  Nothing is managed yet; OLM has created the Subscription   *)
(* (without the label) and maybe the console Deployment.                  *)
Init ==
    /\ store = [r \in Obj |->
                  IF r = "subscription"
                  THEN [Absent EXCEPT !.exists = TRUE, !.spec = "drift",
                                      !.server = TRUE]
                  ELSE Absent]
    /\ cfg \in CfgStates
    /\ crd \in BOOLEAN
    /\ consoleDep \in BOOLEAN
    /\ queued = TRUE
    /\ pc = "idle"
    /\ pend = NoPend
    /\ cfgLabels = "empty"
    /\ budget = MaxEnv
    /\ clean = TRUE
    /\ quiet = FALSE
    /\ passQuiet = FALSE
    /\ wrote = {}

Next == CtrlNext \/ EnvNext \/ Resync

(* One worker runs Reconcile whenever the key is queued and each remote   *)
(* call returns; the service-CA operator keeps injecting; the informers   *)
(* keep resyncing.  Other writers are not assumed to act at all.          *)
Spec == Init /\ [][Next]_vars /\ WF_vars(CtrlNext) /\ WF_vars(InjectCA)
            /\ WF_vars(Resync)

-----------------------------------------------------------------------------
(***************************************************************************)
(* Properties.                                                             *)
(***************************************************************************)

(* No step of the reconciler clears the caBundle the service-CA operator  *)
(* injected into the webhook: the mutate copies it back, and an injection *)
(* racing between the Get and the Update makes the Update conflict.       *)
CABundleNeverCleared ==
    [][CtrlNext => (store["webhook"].ca => store'["webhook"].ca)]_vars

(* No step of the reconciler changes an existing monitor or encryption    *)
(* ConfigMap, whatever users wrote into it (create-only, line 224/245).   *)
WriteOnceKept ==
    [][CtrlNext => \A r \in WriteOnce :
                      store[r].exists => store'[r] = store[r]]_vars

(* A pass that follows a successful pass with nothing changed in between  *)
(* writes nothing but the objects whose mutate copies a whole template    *)
(* (console Service, ConsolePlugin, SCC): createOrUpdate finds every      *)
(* other object, the webhook with its injected caBundle included, equal   *)
(* to its mutated copy.                                                    *)
IdempotentExceptTemplates == passQuiet => wrote \subseteq TemplateCopied

(* The spec's idempotence claim (section 8): a second pass over an         *)
(* unchanged store writes nothing.                                         *)
IdempotentPass == passQuiet => wrote = {}

(* Every namespaced object the code makes owned carries that owner        *)
(* reference: the operator Deployment, or the console Deployment for the  *)
(* nginx ConfigMap and the console Service (lines 446 and 457).           *)
OwnersAttached ==
    /\ \A r \in OperatorOwned : store[r].exists => store[r].owner = "operator"
    /\ \A r \in ConsoleOwned : store[r].exists => store[r].owner = "console"

(* The spec's flag default (section 4.1 and 8): with no operator ConfigMap *)
(* and no storageclusters CRD, the flag resolves to true and the pass goes *)
(* on to deploy CSI.                                                       *)
FlagDefaultWhenConfigAbsent ==
    [][CtrlNext /\ pc = "flag" /\ ~cfg.exists /\ ~crd => pc' = "cluster"]_vars

(* The inputs Reconcile needs to succeed: a parsable operator ConfigMap,  *)
(* the Subscription and the console Deployment.                           *)
InputsValid ==
    /\ cfg.exists
    /\ cfg.deployCSI # "bad"
    /\ cfg.labels # Malformed
    /\ store["subscription"].exists
    /\ consoleDep

(* The steps by which the controller makes itself run again: a pass that *)
(* fails (the rate limiter re-adds the key), a write to a watched object  *)
(* (the webhook or the Subscription), and the CA injection a webhook      *)
(* write provokes.                                                         *)
SelfTrigger ==
    \/ CtrlNext /\ pc # "done" /\ pc' = "idle"
    \/ CtrlNext /\ \E r \in Watched : store'[r] # store[r]
    \/ InjectCA

(* Once the inputs stay valid, the controller stops re-triggering itself: *)
(* every pass from then on succeeds and writes neither the webhook nor    *)
(* the Subscription, and the CA injection stops.  Only the resync keeps   *)
(* waking it.                                                              *)
Quiescence == <>[]InputsValid => <>[][~SelfTrigger]_vars

(* The spec's promise that the managed objects are kept "continuously     *)
(* consistent" with the inputs (section 1): once the inputs stay valid,   *)
(* an nginx ConfigMap that another writer changed is set back to the      *)
(* desired nginx.conf.  The ConfigMap is not among the watched kinds      *)
(* (lines 113-135); only a later event, at worst the informers' resync,   *)
(* brings the pass that repairs it.                                        *)
DriftRepaired ==
    <>[]InputsValid =>
        (store["nginxCM"].spec = "drift" ~> store["nginxCM"].spec = "desired")

-----------------------------------------------------------------------------
(***************************************************************************)
(* The strengthening that makes CABundleNeverCleared provable.             *)
(***************************************************************************)

(* Only a stored webhook carries an injected caBundle (a deletion takes it *)
(* away with the object).                                                  *)
CAOnlyOnStored == store["webhook"].ca => store["webhook"].exists

(* A pending write of the webhook carries the resourceVersion of its Get,  *)
(* which is never ahead of the store; if the CA was injected since that    *)
(* Get, the store's resourceVersion has moved past it, so the write will   *)
(* conflict instead of clearing the bundle.                               *)
PendingWebhookStale ==
    pend.r = "webhook" =>
        /\ pend.obj.rv \in Nat
        /\ pend.obj.rv <= store["webhook"].rv
        /\ store["webhook"].ca /\ ~pend.obj.ca =>
               pend.obj.rv < store["webhook"].rv

(* The store only ever holds resourceVersions it assigned: an update sent *)
(* without one (the console Service's) is given the next one.            *)
StoreRVsAssigned == \A r \in Obj : store[r].rv \in Nat

(* The inductive invariant behind CABundleNeverCleared: the types, assigned *)
(* resourceVersions, the caBundle only on a stored webhook, and a pending  *)
(* webhook Update whose Get predates an injection bound to conflict.       *)
IInv == TypeOK /\ StoreRVsAssigned /\ CAOnlyOnStored /\ PendingWebhookStale

-----------------------------------------------------------------------------
(***************************************************************************)
(* The strengthening that makes IdempotentExceptTemplates provable: which *)
(* steps of a pass have left their object settled, so that the same step *)
(* of a later pass over an unchanged store finds nothing to write.        *)
(***************************************************************************)

(* The position of each step in Reconcile (the order of Succ).            *)
Rank == [webhook |-> 1, subscription |-> 2, console |-> 3, nginxCM |-> 4,
         consoleSvc |-> 5, consolePlugin |-> 6, flag |-> 7, cluster |-> 8,
         scc |-> 9, monCM |-> 10, encCM |-> 11, cephfsDep |-> 12,
         cephfsDS |-> 13, rbdDep |-> 14, rbdDS |-> 15, cephfsDriver |-> 16,
         rbdDriver |-> 17, opConfig |-> 18, promRule |-> 19, done |-> 20]

(* The steps after the DEPLOY_CSI check run only when CSI is deployed.    *)
OnPath(s) == Rank[s] <= Rank["flag"] \/ DeployCSI

(* What a successful step s leaves behind: a createOrUpdate object equal  *)
(* to its mutated copy (templates excepted), the labelled Subscription,  *)
(* an existing create-only object, and the inputs the step checked.       *)
Settled(s) ==
    /\ s \in CouObjs \ TemplateCopied =>
           store[s].exists /\ Mutate(s, store[s]) = store[s]
    /\ s = "subscription" =>
           store[s].exists /\ store[s].spec = "desired"
    /\ s \in WriteOnce \cup Drivers => store[s].exists
    /\ s = "console" => consoleDep
    /\ s = "flag" => cfg.exists /\ cfg.deployCSI # "bad"
    /\ s = "opConfig" => cfgLabels = cfg.labels

(* Every step of the pass's path before step p is settled.               *)
SettledBefore(p) ==
    \A s \in Steps : OnPath(s) /\ Rank[s] < Rank[p] => Settled(s)

(* A pending write belongs to the createOrUpdate or Subscription step    *)
(* the pass is at.                                                         *)
PendAtStep ==
    /\ pc = "idle" => pend = NoPend
    /\ pend # NoPend => pend.r = pc /\ pc \in CouObjs \cup {"subscription"}

(* In a pass no other writer has disturbed, the pass is on its path,      *)
(* every earlier step is settled, and a pending write is the mutated copy *)
(* of the stored object.                                                   *)
CleanPassSettled ==
    clean /\ pc # "idle" =>
        /\ pc # "done" => OnPath(pc)
        /\ SettledBefore(pc)
        /\ pend # NoPend => pend.obj = Mutate(pc, store[pc])

(* After a clean successful pass, and during the pass that follows it     *)
(* undisturbed, every step of the path is settled; such a pass has only  *)
(* written, or is about to write, the objects its mutates rebuild whole. *)
QuietSettled ==
    /\ quiet \/ passQuiet => SettledBefore("done")
    /\ quiet /\ pc # "idle" => passQuiet
    /\ passQuiet =>
           /\ clean
           /\ wrote \subseteq TemplateCopied
           /\ pend # NoPend => pend.r \in TemplateCopied

(* The inductive invariant behind IdempotentExceptTemplates.              *)
QInv == TypeOK /\ PendAtStep /\ CleanPassSettled /\ QuietSettled

-----------------------------------------------------------------------------
(***************************************************************************)
(* The metric labels at rest.  The operator ConfigMap is read twice in a  *)
(* pass, for DEPLOY_CSI (line 490) and for OCS_METRICS_LABELS (line 348), *)
(* and the PrometheusRule written last carries the labels of the second   *)
(* read.  The watch on the ConfigMap (line 132) re-adds the key on every  *)
(* change, and a change of the CRD does too (line 133).                    *)
(***************************************************************************)

(* The controller waits: no pass runs and the key is not queued.          *)
AtRest == pc = "idle" /\ ~queued

(* When the controller is at rest and the current ConfigMap and CRD say   *)
(* to deploy CSI, an existing PrometheusRule carries the labels of the    *)
(* current ConfigMap: a ConfigMap edit racing either read of it in a pass *)
(* is never left unapplied.                                                *)
LabelsFollowConfig ==
    AtRest /\ DeployCSI /\ store["promRule"].exists
        => store["promRule"].labels = cfg.labels

(* The strengthening behind LabelsFollowConfig.  While the key has not    *)
(* been re-queued since the pass started, neither the ConfigMap nor the   *)
(* CRD has changed since the pass read them: a pass beyond the flag is on *)
(* the CSI path only if DeployCSI holds, the labels it read are the       *)
(* current ones, a pending rule write carries them, and once the pass is  *)
(* done the stored rule does too.                                         *)
PassFollowsConfig ==
    ~queued /\ pc \in Steps /\ Rank["flag"] < Rank[pc] =>
        /\ pc # "done" => DeployCSI
        /\ pc = "promRule" => /\ cfgLabels = cfg.labels
                              /\ pend.r = "promRule" => pend.obj.labels = cfgLabels
        /\ pc = "done" /\ DeployCSI /\ store["promRule"].exists
               => store["promRule"].labels = cfg.labels

(* The inductive invariant behind LabelsFollowConfig.                     *)
LInv == TypeOK /\ LabelsFollowConfig /\ PassFollowsConfig

=============================================================================
