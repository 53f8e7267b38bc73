------------------------- MODULE IdempotenceProofs -------------------------
(***************************************************************************)
(* Proofs that a pass over an unchanged store writes only the objects     *)
(* whose mutate copies a whole template (IdempotentExceptTemplates), and  *)
(* that the reconciler never changes an existing monitor or encryption    *)
(* ConfigMap (WriteOnceKept), for every value of the constants.            *)
(***************************************************************************)
EXTENDS ReconcilerProofs

-----------------------------------------------------------------------------
(* Lemmas about the operators the invariant is built from.                *)

(* A createOrUpdate object other than the two template copies is settled *)
(* by its own write: the store's copy of the mutated object is a fixed   *)
(* point of the mutate function, since Stored only sets exists, the       *)
(* resourceVersion and the server-filled fields, which these mutates keep. *)
LEMMA MutateFixed ==
    ASSUME NEW r \in CouObjs \ TemplateCopied, NEW x \in ObjState,
           store \in [Obj -> ObjState]
    PROVE  Mutate(r, Stored(r, Mutate(r, x))) = Stored(r, Mutate(r, x))
<1>1. CASE r = "promRule"
  BY <1>1 DEF Mutate, MutatePromRule, Stored, ObjState
<1>2. CASE r # "promRule"
  BY <1>2 DEF Mutate, MutateWebhook, MutateNginx, MutateSCC, MutateWorkload,
              Stored, ObjState, CouObjs, TemplateCopied
<1>3. QED
  BY <1>1, <1>2

(* Rank numbers the steps of a pass one by one.                           *)
LEMMA RankFacts ==
    /\ \A s \in Steps : Rank[s] \in 1..20
    /\ \A s, t \in Steps : Rank[s] = Rank[t] => s = t
    /\ Rank["flag"] = 7 /\ Rank["done"] = 20
    /\ Rank["opConfig"] = 18 /\ Rank["promRule"] = 19
    /\ \A s \in Steps : s # "done" => Rank[s] < Rank["done"]
    /\ "idle" \notin Steps
BY DEF Rank, Steps

(* Once the step at p is settled, the pass may move to the next step.     *)
LEMMA Advance ==
    ASSUME NEW p \in Steps, NEW q \in Steps, Rank[q] = Rank[p] + 1,
           SettledBefore(p), OnPath(p) => Settled(p)
    PROVE  SettledBefore(q)
<1> SUFFICES ASSUME NEW s \in Steps, OnPath(s), Rank[s] < Rank[q]
             PROVE  Settled(s)
  BY DEF SettledBefore
<1>1. CASE Rank[s] < Rank[p]
  BY <1>1 DEF SettledBefore
<1>2. CASE Rank[s] = Rank[p]
  BY <1>2, RankFacts
<1>3. QED
  BY <1>1, <1>2, RankFacts

(* Whether a step is settled depends only on its own object and on the    *)
(* inputs; the label text matters for the PrometheusRule and opConfig.    *)
LEMMA SettledFrame ==
    ASSUME NEW s \in Steps,
           s \in Obj => store'[s] = store[s],
           cfg' = cfg, crd' = crd, consoleDep' = consoleDep,
           s \in {"promRule", "opConfig"} => cfgLabels' = cfgLabels
    PROVE  /\ Settled(s)' = Settled(s)
           /\ OnPath(s)' = OnPath(s)
<1>1. OnPath(s)' = OnPath(s)
  BY DEF OnPath, DeployCSI
<1>2. s \in CouObjs \ TemplateCopied =>
          Mutate(s, store[s])' = Mutate(s, store[s])
  BY ObjFacts DEF Mutate, MutateWebhook, MutateNginx, MutateSCC,
                  MutateWorkload, MutatePromRule, CouObjs, TemplateCopied
<1>3. Settled(s)' = Settled(s)
  BY <1>2, ObjFacts DEF Settled
<1>4. QED
  BY <1>1, <1>3

(* The objects whose mutates rebuild them whole are settled whatever     *)
(* they hold.                                                              *)
LEMMA TemplateSettled ==
    ASSUME NEW s \in TemplateCopied
    PROVE  Settled(s) /\ Settled(s)'
BY DEF Settled, TemplateCopied, CouObjs, WriteOnce, Drivers

(* A step that changes no object before p on the path but a template     *)
(* copy, nor the inputs, keeps the steps before p settled.                *)
LEMMA SettledKept ==
    ASSUME NEW p \in Steps, SettledBefore(p),
           \A s \in Obj : OnPath(s) /\ Rank[s] < Rank[p] =>
                             store'[s] = store[s] \/ s \in TemplateCopied,
           cfg' = cfg, crd' = crd, consoleDep' = consoleDep,
           cfgLabels' = cfgLabels \/ Rank[p] <= Rank["opConfig"]
    PROVE  SettledBefore(p)'
<1> SUFFICES ASSUME NEW s \in Steps, OnPath(s)', Rank[s] < Rank[p]
             PROVE  Settled(s)'
  BY DEF SettledBefore
<1>1. s \in {"promRule", "opConfig"} => cfgLabels' = cfgLabels
  BY RankFacts
<1>2. OnPath(s)
  BY SettledFrame DEF OnPath, DeployCSI
<1>3. CASE s \in TemplateCopied
  BY <1>3, TemplateSettled
<1>4. CASE s \notin TemplateCopied
  <2>1. s \in Obj => store'[s] = store[s]
    BY <1>2, <1>4
  <2>2. Settled(s)
    BY <1>2 DEF SettledBefore
  <2>3. QED
    BY <1>1, <2>1, <2>2, SettledFrame
<1>5. QED
  BY <1>3, <1>4

(* A step of the pass at p that settles p, changes no other object and   *)
(* no input (reading the label text only at opConfig), lets the pass go  *)
(* on to the next step q.                                                 *)
LEMMA WriteAdvance ==
    ASSUME NEW p \in Steps, NEW q \in Steps, Rank[q] = Rank[p] + 1,
           SettledBefore(p), OnPath(p)' => Settled(p)',
           \A s \in Obj \ {p} : store'[s] = store[s],
           cfg' = cfg, crd' = crd, consoleDep' = consoleDep,
           cfgLabels' = cfgLabels \/ p = "opConfig"
    PROVE  SettledBefore(q)'
<1> SUFFICES ASSUME NEW s \in Steps, OnPath(s)', Rank[s] < Rank[q]
             PROVE  Settled(s)'
  BY DEF SettledBefore
<1>1. CASE s = p
  BY <1>1
<1>2. CASE s # p
  <2>1. Rank[s] < Rank[p]
    BY <1>2, RankFacts
  <2>2. s \in {"promRule", "opConfig"} => cfgLabels' = cfgLabels
    BY <2>1, RankFacts
  <2>3. OnPath(s)
    BY SettledFrame DEF OnPath, DeployCSI
  <2>4. Settled(s)
    BY <2>1, <2>3 DEF SettledBefore
  <2>5. QED
    BY <1>2, <2>2, <2>4, SettledFrame
<1>3. QED
  BY <1>1, <1>2

(* With CSI not deployed, a settled DEPLOY_CSI check ends the path.       *)
LEMMA SkipCSI ==
    ASSUME SettledBefore("flag"), Settled("flag"), ~DeployCSI
    PROVE  SettledBefore("done")
<1> SUFFICES ASSUME NEW s \in Steps, OnPath(s), Rank[s] < Rank["done"]
             PROVE  Settled(s)
  BY DEF SettledBefore
<1>1. Rank[s] <= Rank["flag"]
  BY DEF OnPath
<1>2. CASE Rank[s] < Rank["flag"]
  BY <1>2 DEF SettledBefore
<1>3. CASE Rank[s] = Rank["flag"]
  <2>1. s = "flag"
    BY <1>3, RankFacts DEF Steps
  <2>2. QED
    BY <2>1
<1>4. QED
  BY <1>1, <1>2, <1>3, RankFacts

(* The next step of a pass is one rank further on, and stays on the path: *)
(* it is before the DEPLOY_CSI check, or CSI is deployed.                 *)
LEMMA SuccFacts ==
    ASSUME NEW r \in (CouObjs \cup WriteOnce \cup Drivers
                      \cup {"subscription", "console", "cluster", "opConfig"})
    PROVE  /\ Succ[r] \in Steps
           /\ Rank[Succ[r]] = Rank[r] + 1
           /\ r \in Steps
           /\ Succ[r] # "idle"
           /\ OnPath(r) /\ Succ[r] # "done" => OnPath(Succ[r])
BY DEF Succ, Rank, Steps, OnPath, CouObjs, WriteOnce, Drivers

(* A write of the mutated copy settles a createOrUpdate object or the     *)
(* Subscription.                                                           *)
LEMMA WriteSettles ==
    ASSUME NEW r \in CouObjs \cup {"subscription"}, TypeOK,
           store'[r] = Stored(r, Mutate(r, store[r])), cfgLabels' = cfgLabels
    PROVE  Settled(r)'
<1>0. r \in Obj /\ store[r] \in ObjState
  BY ObjFacts DEF TypeOK
<1>1. CASE r \in TemplateCopied
  BY <1>1, TemplateSettled
<1>2. CASE r = "subscription"
  <2>1. Mutate(r, store[r]) = MutateSubscription(store[r])
    BY <1>2 DEF Mutate
  <2>2. store'[r].exists /\ store'[r].spec = "desired"
    BY <1>0, <2>1 DEF Stored, MutateSubscription, ObjState
  <2>3. QED
    BY <1>2, <2>2 DEF Settled, CouObjs, WriteOnce, Drivers
<1>3. CASE r \in CouObjs \ TemplateCopied
  <2>1. Mutate(r, Stored(r, Mutate(r, store[r])))
          = Stored(r, Mutate(r, store[r]))
    BY <1>0, <1>3, MutateFixed DEF TypeOK
  <2>2. store'[r].exists
    BY DEF Stored
  <2>3. QED
    BY <1>3, <2>1, <2>2
    DEF Settled, CouObjs, WriteOnce, Drivers, Mutate, MutateWebhook,
        MutateNginx, MutateService, MutatePlugin, MutateSCC, MutatePromRule,
        MutateSubscription, MutateWorkload
<1>4. QED
  BY <1>1, <1>2, <1>3

(* A step that changes neither the store nor the inputs keeps every step  *)
(* settled that was.                                                        *)
LEMMA SettledUnchanged ==
    ASSUME NEW p \in Steps, SettledBefore(p),
           store' = store, cfg' = cfg, crd' = crd, consoleDep' = consoleDep,
           cfgLabels' = cfgLabels
    PROVE  SettledBefore(p)'
BY SettledKept

-----------------------------------------------------------------------------
(* The inductive invariant QInv.                                           *)

LEMMA InitQInv == Init => QInv
<1> SUFFICES ASSUME Init PROVE QInv
  OBVIOUS
<1>1. TypeOK
  BY InitTypeOK
<1>2. QED
  BY <1>1 DEF Init, QInv, PendAtStep, CleanPassSettled, QuietSettled

(* Every error return of the reconciler keeps QInv: the pass ends with   *)
(* nothing pending and the store as it was.                               *)
LEMMA AbortQInv ==
    ASSUME QInv, Abort,
           UNCHANGED <<store, cfg, crd, consoleDep, cfgLabels, clean,
                       passQuiet, wrote>>
    PROVE  (PendAtStep /\ CleanPassSettled /\ QuietSettled)'
<1>1. PendAtStep' /\ CleanPassSettled'
  BY DEF Abort, PendAtStep, CleanPassSettled
<1>2. passQuiet => SettledBefore("done")'
  BY SettledUnchanged DEF QInv, QuietSettled, Steps
<1>3. QED
  BY <1>1, <1>2 DEF Abort, QInv, QuietSettled

(* Every step of another writer and the CA injection make the state      *)
(* unclean and unquiet, and leave the pass where it was or abort it.      *)
LEMMA EnvQInv ==
    ASSUME QInv, EnvNext
    PROVE  (PendAtStep /\ CleanPassSettled /\ QuietSettled)'
<1>1. ~clean' /\ ~quiet' /\ ~passQuiet'
  BY DEF EnvNext, EnvEdit, EnvDelete, EnvClearNginxData, EnvSetConfig,
         EnvToggleCRD, EnvConsoleDeployment, Fault, InjectCA, EnvStep
<1>2. PendAtStep'
  BY DEF QInv, PendAtStep, EnvNext, EnvEdit, EnvDelete, EnvClearNginxData,
         EnvSetConfig, EnvToggleCRD, EnvConsoleDeployment, Fault, Abort,
         InjectCA
<1>3. QED
  BY <1>1, <1>2 DEF CleanPassSettled, QuietSettled

(* A step of the pass at p that is no createOrUpdate, settles p if the    *)
(* pass is clean, moves the pass on to q, and writes nothing in a quiet   *)
(* pass, keeps QInv.                                                       *)
LEMMA AdvanceQInv ==
    ASSUME QInv, NEW p \in Steps, NEW q \in Steps,
           p \notin CouObjs \cup {"subscription"} \/ pend = NoPend,
           p # "done",
           pc = p, pc' = q, Rank[q] = Rank[p] + 1,
           OnPath(p) /\ q # "done" => OnPath(q),
           clean /\ OnPath(p) => Settled(p)',
           \A s \in Obj \ {p} : store'[s] = store[s],
           cfg' = cfg, crd' = crd, consoleDep' = consoleDep,
           cfgLabels' = cfgLabels \/ p = "opConfig",
           passQuiet => store' = store /\ cfgLabels' = cfgLabels
                        /\ wrote' = wrote,
           UNCHANGED <<pend, clean, quiet, passQuiet>>
    PROVE  (PendAtStep /\ CleanPassSettled /\ QuietSettled)'
<1>0. /\ pend = NoPend
      /\ q # "idle"
      /\ OnPath(q)' = OnPath(q)
      /\ OnPath(p)' = OnPath(p)
  BY DEF QInv, PendAtStep, Steps, OnPath, DeployCSI
<1>1. PendAtStep'
  BY <1>0 DEF PendAtStep
<1>2. CleanPassSettled'
  <2> SUFFICES ASSUME clean PROVE CleanPassSettled'
    BY DEF CleanPassSettled
  <2>1. OnPath(p) /\ SettledBefore(p)
    BY RankFacts DEF QInv, CleanPassSettled
  <2>2. SettledBefore(q)'
    BY <1>0, <2>1, WriteAdvance
  <2>3. QED
    BY <1>0, <2>1, <2>2 DEF CleanPassSettled
<1>3. QuietSettled'
  <2>1. quiet => passQuiet
    BY DEF QInv, QuietSettled, Steps
  <2>2. passQuiet => SettledBefore("done")'
    BY SettledUnchanged DEF QInv, QuietSettled, Steps
  <2>3. QED
    BY <1>0, <2>1, <2>2 DEF QInv, QuietSettled
<1>4. QED
  BY <1>1, <1>2, <1>3

(* In a quiet pass every step of the path is settled, including the one  *)
(* the pass is at.                                                         *)
LEMMA QuietAtStep ==
    ASSUME QInv, passQuiet, pc \in Steps, pc # "done"
    PROVE  OnPath(pc) /\ Settled(pc)
<1>1. clean /\ SettledBefore("done") /\ OnPath(pc)
  BY DEF QInv, QuietSettled, CleanPassSettled, Steps
<1>2. Rank[pc] < Rank["done"]
  BY RankFacts
<1>3. QED
  BY <1>1, <1>2 DEF SettledBefore

(* A worker starts a pass: it is clean, and quiet if the last pass was.  *)
LEMMA StartQInv ==
    ASSUME QInv, Start
    PROVE  (PendAtStep /\ CleanPassSettled /\ QuietSettled)'
<1>1. pend = NoPend
  BY DEF Start, QInv, PendAtStep
<1>2. SettledBefore("webhook")' /\ OnPath("webhook")'
  BY RankFacts DEF SettledBefore, OnPath, Rank
<1>3. quiet => SettledBefore("done")'
  BY SettledUnchanged DEF Start, QInv, QuietSettled, Steps
<1>4. QED
  BY <1>1, <1>2, <1>3
  DEF Start, PendAtStep, CleanPassSettled, QuietSettled

(* A pass that ends successfully after a clean run leaves every step of   *)
(* its path settled, so the next state is quiet.                          *)
LEMMA FinishQInv ==
    ASSUME QInv, Finish
    PROVE  (PendAtStep /\ CleanPassSettled /\ QuietSettled)'
<1>1. pend = NoPend
  BY DEF Finish, QInv, PendAtStep, CouObjs
<1>2. clean \/ passQuiet => SettledBefore("done")
  BY DEF Finish, QInv, CleanPassSettled, QuietSettled
<1>3. clean \/ passQuiet => SettledBefore("done")'
  BY <1>2, SettledUnchanged DEF Finish, Steps
<1>4. QED
  BY <1>1, <1>3
  DEF Finish, QInv, PendAtStep, CleanPassSettled, QuietSettled

(* The console Deployment found, the pass moves on to the nginx ConfigMap. *)
LEMMA ConsoleQInv ==
    ASSUME QInv, GetConsoleDeployment
    PROVE  (PendAtStep /\ CleanPassSettled /\ QuietSettled)'
<1>1. CASE consoleDep
  <2>1. pc' = "nginxCM" /\ UNCHANGED <<store, cfg, crd, consoleDep,
              cfgLabels, pend, clean, quiet, passQuiet, wrote>>
    BY <1>1 DEF GetConsoleDeployment, Succ
  <2>2. Settled("console")'
    BY <1>1, <2>1 DEF Settled, CouObjs, WriteOnce, Drivers
  <2>3. QED
    BY <2>1, <2>2, AdvanceQInv, SuccFacts DEF GetConsoleDeployment, Succ,
       CouObjs
<1>2. CASE ~consoleDep
  BY <1>2, AbortQInv DEF GetConsoleDeployment
<1>3. QED
  BY <1>1, <1>2

(* getDeployCSIConfig: an error aborts; a parsed flag settles the check   *)
(* and leads to the CSI steps, or to the end of a pass without them.      *)
LEMMA FlagQInv ==
    ASSUME QInv, ResolveDeployCSI
    PROVE  (PendAtStep /\ CleanPassSettled /\ QuietSettled)'
<1>1. CASE ~cfg.exists \/ cfg.deployCSI = "bad"
  BY <1>1, AbortQInv DEF ResolveDeployCSI
<1>2. CASE cfg.exists /\ cfg.deployCSI # "bad"
  <2>1. UNCHANGED <<store, cfg, crd, consoleDep, cfgLabels, pend, clean,
                    quiet, passQuiet, wrote>>
    BY <1>2 DEF ResolveDeployCSI
  <2>2. Settled("flag") /\ Settled("flag")'
    BY <1>2, <2>1 DEF Settled, CouObjs, WriteOnce, Drivers
  <2>3. CASE DeployCSI
    <3>1. pc' = "cluster"
      BY <1>2, <2>3 DEF ResolveDeployCSI
    <3>2. QED
      BY <2>1, <2>2, <2>3, <3>1, AdvanceQInv
      DEF ResolveDeployCSI, Rank, Steps, OnPath, CouObjs
  <2>4. CASE ~DeployCSI
    <3>1. pc' = "done" /\ pc = "flag" /\ pend = NoPend
      BY <1>2, <2>4 DEF ResolveDeployCSI, QInv, PendAtStep, CouObjs
    <3>2. clean => SettledBefore("flag")
      BY <3>1, RankFacts DEF QInv, CleanPassSettled
    <3>3. clean \/ passQuiet => SettledBefore("done")'
      BY <2>1, <2>2, <2>4, <3>2, SkipCSI, SettledUnchanged, RankFacts
      DEF QInv, QuietSettled, Steps
    <3>4. quiet => passQuiet
      BY <3>1 DEF QInv, QuietSettled
    <3>5. QED
      BY <2>1, <3>1, <3>3, <3>4
      DEF QInv, PendAtStep, CleanPassSettled, QuietSettled
  <2>5. QED
    BY <2>3, <2>4
<1>3. QED
  BY <1>1, <1>2 DEF ResolveDeployCSI

(* InitializeSidecars checks nothing the next pass depends on.            *)
LEMMA SidecarsQInv ==
    ASSUME QInv, InitializeSidecars
    PROVE  (PendAtStep /\ CleanPassSettled /\ QuietSettled)'
<1>1. Settled("cluster")'
  BY DEF Settled, CouObjs, WriteOnce, Drivers
<1>2. QED
  BY <1>1, AdvanceQInv, SuccFacts
  DEF InitializeSidecars, Succ, Rank, Steps, CouObjs

(* getOperatorConfig settles the label text; a quiet pass reads the same *)
(* text as the pass before.                                                *)
LEMMA OpConfigQInv ==
    ASSUME QInv, GetOperatorConfig
    PROVE  (PendAtStep /\ CleanPassSettled /\ QuietSettled)'
<1>1. Settled("opConfig")'
  BY DEF GetOperatorConfig, Settled, CouObjs, WriteOnce, Drivers
<1>2. passQuiet => cfgLabels' = cfgLabels
  <2> SUFFICES ASSUME passQuiet PROVE cfgLabels' = cfgLabels
    OBVIOUS
  <2>1. Settled("opConfig")
    BY QuietAtStep DEF GetOperatorConfig, Steps
  <2>2. QED
    BY <2>1 DEF Settled, GetOperatorConfig, CouObjs, WriteOnce, Drivers
<1>3. QED
  BY <1>1, <1>2, AdvanceQInv, SuccFacts
  DEF GetOperatorConfig, Succ, CouObjs

(* A create-only object exists after its step, whether it was created or *)
(* found; in a quiet pass it is found, so nothing is written.             *)
LEMMA CreateOnlyQInv ==
    ASSUME QInv, NEW r \in WriteOnce \cup Drivers,
           CreateConfigMap(r) \/ CreateCSIDriver(r)
    PROVE  (PendAtStep /\ CleanPassSettled /\ QuietSettled)'
<1>0. /\ pc = r /\ pc' = Succ[r] /\ r \in Obj
      /\ \/ UNCHANGED <<store, wrote>>
         \/ /\ ~store[r].exists
            /\ store' = [store EXCEPT ![r] = Created(r, "operator")]
                 \/ store' = [store EXCEPT ![r] = Created(r, "none")]
            /\ wrote' = wrote \cup {r}
      /\ UNCHANGED <<cfg, crd, consoleDep, pend, cfgLabels, clean, quiet,
                     passQuiet>>
  BY ObjFacts DEF CreateConfigMap, CreateCSIDriver, WriteOnce, Drivers
<1>1. store'[r].exists
  <2>1. CASE store[r].exists
    BY <2>1 DEF CreateConfigMap, CreateCSIDriver
  <2>2. CASE ~store[r].exists
    <3>1. PICK o \in {"operator", "none"} :
             store' = [store EXCEPT ![r] = Created(r, o)]
      BY <2>2 DEF CreateConfigMap, CreateCSIDriver
    <3>2. Created(r, o).exists
      BY DEF Created, Stored
    <3>3. r \in DOMAIN store
      BY <1>0 DEF QInv, TypeOK
    <3>4. QED
      BY <3>1, <3>2, <3>3
  <2>3. QED
    BY <2>1, <2>2
<1>2. Settled(r)'
  BY <1>1 DEF Settled, CouObjs, WriteOnce, Drivers
<1>3. passQuiet => UNCHANGED <<store, wrote>>
  <2> SUFFICES ASSUME passQuiet PROVE UNCHANGED <<store, wrote>>
    OBVIOUS
  <2>1. Settled(r)
    BY <1>0, QuietAtStep, SuccFacts, RankFacts DEF WriteOnce, Drivers
  <2>2. store[r].exists
    BY <2>1 DEF Settled, CouObjs, WriteOnce, Drivers
  <2>3. QED
    BY <1>0, <2>2
<1>4. \A s \in Obj \ {r} : store'[s] = store[s]
  BY <1>0 DEF QInv, TypeOK
<1>5. QED
  BY <1>0, <1>2, <1>3, <1>4, AdvanceQInv, SuccFacts
  DEF WriteOnce, Drivers, CouObjs

(* The Subscription step: missing is an error, labelled moves on, and     *)
(* otherwise the labelled copy is pending; a quiet pass finds it labelled. *)
LEMMA SubscriptionQInv ==
    ASSUME QInv, LabelSubscription
    PROVE  (PendAtStep /\ CleanPassSettled /\ QuietSettled)'
<1>0. pc = "subscription" /\ pend = NoPend
      /\ UNCHANGED <<store, cfg, crd, consoleDep, cfgLabels, clean,
                     passQuiet, wrote>>
  BY DEF LabelSubscription
<1>1. CASE ~store["subscription"].exists
  BY <1>0, <1>1, AbortQInv DEF LabelSubscription
<1>2. CASE store["subscription"].exists
           /\ store["subscription"].spec = "desired"
  <2>1. pc' = "console" /\ UNCHANGED <<pend, quiet>>
    BY <1>2 DEF LabelSubscription, Succ
  <2>2. Settled("subscription")'
    BY <1>0, <1>2 DEF Settled, CouObjs, WriteOnce, Drivers
  <2>3. quiet => passQuiet
    BY <1>0 DEF QInv, QuietSettled
  <2>4. clean => SettledBefore("subscription")
    BY <1>0, RankFacts DEF QInv, CleanPassSettled
  <2>5. clean => SettledBefore("console")'
    BY <1>0, <2>2, <2>4, WriteAdvance, SuccFacts DEF Succ, CouObjs
  <2>6. passQuiet => SettledBefore("done")'
    BY <1>0, SettledUnchanged DEF QInv, QuietSettled, Steps
  <2>7. QED
    BY <1>0, <2>1, <2>3, <2>5, <2>6
    DEF PendAtStep, CleanPassSettled, QuietSettled, QInv, OnPath, DeployCSI,
        Rank
<1>3. CASE store["subscription"].exists
           /\ store["subscription"].spec # "desired"
  <2>1. /\ pend' = [r |-> "subscription",
                    obj |-> MutateSubscription(store["subscription"])]
        /\ UNCHANGED <<pc, quiet>>
    BY <1>3 DEF LabelSubscription
  <2>2. pend' # NoPend /\ pend'.r = pc'
    BY <1>0, <2>1 DEF NoPend
  <2>3. Mutate("subscription", store["subscription"])
          = MutateSubscription(store["subscription"])
    BY DEF Mutate
  <2>4. clean => OnPath(pc) /\ SettledBefore(pc)
    BY <1>0, RankFacts DEF QInv, CleanPassSettled
  <2>5. clean => OnPath("subscription")' /\ SettledBefore("subscription")'
    BY <1>0, <2>4, SettledUnchanged DEF OnPath, DeployCSI, Steps, Rank
  <2>9. (pend.obj = Mutate(pc, store[pc]))'
    BY <1>0, <2>1, <2>3
    DEF Mutate, MutateWebhook, MutateNginx, MutateService, MutatePlugin,
        MutateSCC, MutatePromRule, MutateSubscription, MutateWorkload
  <2>6. ~passQuiet
    <3> SUFFICES ASSUME passQuiet PROVE FALSE
      OBVIOUS
    <3>1. Settled("subscription")
      BY <1>0, QuietAtStep DEF Steps
    <3>2. QED
      BY <1>3, <3>1 DEF Settled, CouObjs
  <2>7. ~quiet
    BY <1>0, <2>6 DEF QInv, QuietSettled
  <2>8. QED
    BY <1>0, <2>1, <2>2, <2>5, <2>6, <2>7, <2>9
    DEF PendAtStep, CleanPassSettled, QuietSettled, CouObjs
<1>4. QED
  BY <1>1, <1>2, <1>3

(* createOrUpdate, first round trip.  An object equal to its mutated copy *)
(* is settled and the pass moves on; otherwise the copy is pending, and   *)
(* in a quiet pass only a template copy can be unequal.                   *)
LEMMA CouGetQInv ==
    ASSUME QInv, NEW r \in CouObjs, CouGet(r)
    PROVE  (PendAtStep /\ CleanPassSettled /\ QuietSettled)'
<1>0. /\ pc = r /\ pend = NoPend /\ r \in Obj /\ r \in Steps
      /\ r # "done" /\ r # "idle"
      /\ UNCHANGED <<store, cfg, crd, consoleDep, cfgLabels, clean, quiet,
                     passQuiet, wrote>>
  BY ObjFacts DEF CouGet, Steps, CouObjs
<1>1. CASE store[r].exists /\ Mutate(r, store[r]) = store[r]
  <2>1. pc' = Succ[r] /\ pend' = pend
    BY <1>1 DEF CouGet
  <2>2. Settled(r)
    BY <1>1 DEF Settled, CouObjs, WriteOnce, Drivers
  <2>3. Settled(r)'
    BY <1>0, <2>2, SettledFrame
  <2>4. QED
    BY <1>0, <2>1, <2>3, AdvanceQInv, SuccFacts DEF CouObjs
<1>2. CASE ~(store[r].exists /\ Mutate(r, store[r]) = store[r])
  <2>1. pend' = [r |-> r, obj |-> Mutate(r, store[r])] /\ pc' = pc
    BY <1>2 DEF CouGet
  <2>2. PendAtStep'
    BY <1>0, <2>1, ObjFacts DEF PendAtStep, NoPend
  <2>3. clean => OnPath(r) /\ SettledBefore(r)
    BY <1>0, RankFacts DEF QInv, CleanPassSettled
  <2>4. clean => OnPath(r)' /\ SettledBefore(r)'
    BY <1>0, <2>3, SettledUnchanged DEF OnPath, DeployCSI
  <2>5. (pend.obj = Mutate(pc, store[pc]))'
    BY <1>0, <2>1
    DEF Mutate, MutateWebhook, MutateNginx, MutateService, MutatePlugin,
        MutateSCC, MutatePromRule, MutateSubscription, MutateWorkload
  <2>6. passQuiet => r \in TemplateCopied
    <3> SUFFICES ASSUME passQuiet, r \notin TemplateCopied PROVE FALSE
      OBVIOUS
    <3>1. Settled(r)
      BY <1>0, QuietAtStep, RankFacts DEF CouObjs
    <3>2. QED
      BY <1>2, <3>1 DEF Settled
  <2>7. quiet => passQuiet
    BY <1>0, RankFacts DEF QInv, QuietSettled
  <2>8. passQuiet => SettledBefore("done")'
    BY <1>0, SettledUnchanged DEF QInv, QuietSettled, Steps
  <2>9. QED
    BY <1>0, <2>1, <2>2, <2>4, <2>5, <2>6, <2>7, <2>8
    DEF CleanPassSettled, QuietSettled, QInv
<1>3. QED
  BY <1>1, <1>2

(* createOrUpdate, second round trip.  An accepted write in a clean pass  *)
(* stores the mutated copy, which settles the object; a quiet pass only   *)
(* writes a template copy.  A refused write aborts.                        *)
LEMMA CouWriteQInv ==
    ASSUME QInv, NEW r \in CouObjs \cup {"subscription"}, CouWrite(r)
    PROVE  (PendAtStep /\ CleanPassSettled /\ QuietSettled)'
<1>0. /\ pc = r /\ pend.r = r /\ pend # NoPend /\ r \in Obj /\ r \in Steps
      /\ r # "done"
      /\ UNCHANGED <<cfg, crd, consoleDep, cfgLabels, clean, passQuiet>>
  BY ObjFacts DEF CouWrite, NoPend, Steps, CouObjs
<1>1. CASE Accepts(r, pend.obj)
  <2>1. /\ store' = [store EXCEPT ![r] = Stored(r, pend.obj)]
        /\ pend' = NoPend /\ pc' = Succ[r] /\ wrote' = wrote \cup {r}
        /\ quiet' = quiet
    BY <1>1 DEF CouWrite, Abort
  <2>2. \A s \in Obj \ {r} : store'[s] = store[s]
    BY <2>1 DEF QInv, TypeOK
  <2>3. /\ Succ[r] \in Steps /\ Rank[Succ[r]] = Rank[r] + 1
        /\ Succ[r] # "idle"
        /\ OnPath(r) /\ Succ[r] # "done" => OnPath(Succ[r])
    BY SuccFacts
  <2>4. PendAtStep'
    BY <2>1, <2>3 DEF PendAtStep
  <2>5. clean => OnPath(r) /\ SettledBefore(r)
                 /\ pend.obj = Mutate(r, store[r])
    BY <1>0, RankFacts DEF QInv, CleanPassSettled
  <2>6. clean => Settled(r)'
    <3> SUFFICES ASSUME clean PROVE Settled(r)'
      OBVIOUS
    <3>1. store'[r] = Stored(r, Mutate(r, store[r]))
      BY <1>0, <2>1, <2>5 DEF QInv, TypeOK
    <3>2. QED
      BY <1>0, <3>1, WriteSettles DEF QInv
  <2>7. clean => SettledBefore(Succ[r])'
    BY <1>0, <2>2, <2>3, <2>5, <2>6, WriteAdvance
  <2>8. clean => (Succ[r] # "done" => OnPath(Succ[r]))'
    BY <1>0, <2>3, <2>5 DEF OnPath, DeployCSI
  <2>9. CleanPassSettled'
    BY <1>0, <2>1, <2>7, <2>8 DEF CleanPassSettled
  <2>10. passQuiet => r \in TemplateCopied
    BY <1>0 DEF QInv, QuietSettled
  <2>11. quiet => passQuiet
    BY <1>0, RankFacts DEF QInv, QuietSettled
  <2>12. passQuiet => SettledBefore("done")'
    <3> SUFFICES ASSUME passQuiet PROVE SettledBefore("done")'
      OBVIOUS
    <3>1. \A s \in Obj : OnPath(s) /\ Rank[s] < Rank["done"] =>
             store'[s] = store[s] \/ s \in TemplateCopied
      BY <2>2, <2>10
    <3>2. QED
      BY <1>0, <3>1, SettledKept DEF QInv, QuietSettled, Steps
  <2>13. QuietSettled'
    BY <1>0, <2>1, <2>10, <2>11, <2>12 DEF QInv, QuietSettled
  <2>14. QED
    BY <2>4, <2>9, <2>13
<1>2. CASE ~Accepts(r, pend.obj)
  BY <1>2, AbortQInv DEF CouWrite
<1>3. QED
  BY <1>1, <1>2

(* Every step of the reconciler keeps QInv.                              *)
LEMMA CtrlQInv ==
    ASSUME QInv, CtrlNext
    PROVE  (PendAtStep /\ CleanPassSettled /\ QuietSettled)'
<1>1. CASE Start
  BY <1>1, StartQInv
<1>2. CASE \E r \in CouObjs : CouGet(r)
  BY <1>2, CouGetQInv
<1>3. CASE NginxNilMapPanic
  BY <1>3, AbortQInv DEF NginxNilMapPanic
<1>4. CASE \E r \in CouObjs \cup {"subscription"} : CouWrite(r)
  BY <1>4, CouWriteQInv
<1>5. CASE LabelSubscription
  BY <1>5, SubscriptionQInv
<1>6. CASE GetConsoleDeployment
  BY <1>6, ConsoleQInv
<1>7. CASE ResolveDeployCSI
  BY <1>7, FlagQInv
<1>8. CASE InitializeSidecars
  BY <1>8, SidecarsQInv
<1>9. CASE \E r \in WriteOnce : CreateConfigMap(r)
  BY <1>9, CreateOnlyQInv
<1>10. CASE \E r \in Drivers : CreateCSIDriver(r)
  BY <1>10, CreateOnlyQInv
<1>11. CASE GetOperatorConfig
  BY <1>11, OpConfigQInv
<1>12. CASE ApplyLabelsPanic
  BY <1>12, AbortQInv DEF ApplyLabelsPanic
<1>13. CASE Finish
  BY <1>13, FinishQInv
<1>14. QED
  BY <1>1, <1>2, <1>3, <1>4, <1>5, <1>6, <1>7, <1>8, <1>9, <1>10, <1>11,
     <1>12, <1>13 DEF CtrlNext

LEMMA QInvStep == QInv /\ [Next]_vars => QInv'
<1> SUFFICES ASSUME QInv, [Next]_vars PROVE QInv'
  OBVIOUS
<1>1. TypeOK'
  BY CtrlTypeOK, EnvTypeOK, ResyncTypeOK DEF QInv, Next, vars, TypeOK
<1>2. CASE CtrlNext
  BY <1>1, <1>2, CtrlQInv DEF QInv
<1>3. CASE EnvNext
  BY <1>1, <1>3, EnvQInv DEF QInv
<1>4. CASE Resync \/ UNCHANGED vars
  <2>0. UNCHANGED <<store, cfg, crd, consoleDep, cfgLabels, pc, pend, clean,
                    quiet, passQuiet, wrote>>
    BY <1>4 DEF Resync, vars
  <2>1. clean /\ pc # "idle" => SettledBefore(pc)'
    BY <2>0, SettledUnchanged DEF QInv, TypeOK, CleanPassSettled
  <2>2. quiet \/ passQuiet => SettledBefore("done")'
    BY <2>0, SettledUnchanged DEF QInv, QuietSettled, Steps
  <2>3. OnPath(pc)' = OnPath(pc)
    BY <2>0 DEF OnPath, DeployCSI
  <2>4. Mutate(pc, store[pc])' = Mutate(pc, store[pc])
    BY <2>0
    DEF Mutate, MutateWebhook, MutateNginx, MutateService, MutatePlugin,
        MutateSCC, MutatePromRule, MutateSubscription, MutateWorkload
  <2>5. QED
    BY <1>1, <2>0, <2>1, <2>2, <2>3, <2>4
    DEF QInv, PendAtStep, CleanPassSettled, QuietSettled
<1>5. QED
  BY <1>2, <1>3, <1>4 DEF Next

(* QInv holds in every reachable state.                                   *)
THEOREM QInvariant == Spec => []QInv
<1>1. Init => QInv
  BY InitQInv
<1>2. QInv /\ [Next]_vars => QInv'
  BY QInvStep
<1>3. QED
  BY <1>1, <1>2, PTL DEF Spec

(* IdempotentExceptTemplates: a pass that follows a clean successful pass, *)
(* with no other writer acting since, writes nothing but the console      *)
(* Service, the ConsolePlugin and the SCC, whose desired states are       *)
(* whole objects built afresh on every pass; every other object, the      *)
(* webhook with its injected caBundle included, is left alone.            *)
THEOREM IdempotenceKept == Spec => []IdempotentExceptTemplates
<1>1. QInv => IdempotentExceptTemplates
  BY DEF QInv, QuietSettled, IdempotentExceptTemplates
<1>2. QED
  BY <1>1, QInvariant, PTL

-----------------------------------------------------------------------------
(* The create-only ConfigMaps.                                             *)

(* No step of the reconciler changes an existing monitor or encryption    *)
(* ConfigMap: createOrUpdate never writes them, and their own step        *)
(* creates only what is missing.                                           *)
LEMMA CtrlKeepsWriteOnce ==
    ASSUME TypeOK, CtrlNext, NEW w \in WriteOnce, store[w].exists
    PROVE  store'[w] = store[w]
<1>0. w \in Obj /\ w \notin CouObjs \cup {"subscription"} \cup Drivers
  BY ObjFacts DEF WriteOnce, CouObjs, Drivers
<1>1. ASSUME NEW r \in CouObjs \cup {"subscription"}, CouWrite(r)
      PROVE  store'[w] = store[w]
  BY <1>0, <1>1 DEF CouWrite, Abort, TypeOK
<1>2. ASSUME NEW r \in WriteOnce, CreateConfigMap(r)
      PROVE  store'[w] = store[w]
  <2>1. CASE r = w
    BY <1>2, <2>1 DEF CreateConfigMap
  <2>2. CASE r # w
    BY <1>0, <1>2, <2>2 DEF CreateConfigMap, TypeOK
  <2>3. QED
    BY <2>1, <2>2
<1>3. ASSUME NEW r \in Drivers, CreateCSIDriver(r)
      PROVE  store'[w] = store[w]
  BY <1>0, <1>3 DEF CreateCSIDriver, TypeOK
<1>4. QED
  BY <1>1, <1>2, <1>3
  DEF CtrlNext, Start, CouGet, NginxNilMapPanic, LabelSubscription,
      GetConsoleDeployment, ResolveDeployCSI, InitializeSidecars,
      GetOperatorConfig, ApplyLabelsPanic, Finish, Abort

(* WriteOnceKept: the users' monitor and encryption configuration is      *)
(* never overwritten by the reconciler (create-only, lines 224 and 245).  *)
THEOREM WriteOnceProved == Spec => WriteOnceKept
<1>1. TypeOK => [CtrlNext => \A r \in WriteOnce :
                     store[r].exists => store'[r] = store[r]]_vars
  BY CtrlKeepsWriteOnce
<1>2. QED
  BY <1>1, TypeCorrect, PTL DEF WriteOnceKept

=============================================================================
