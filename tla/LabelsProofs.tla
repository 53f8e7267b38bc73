--------------------------- MODULE LabelsProofs ---------------------------
(***************************************************************************)
(* Proof that the PrometheusRule carries the labels of the current        *)
(* operator ConfigMap whenever the controller is at rest with CSI         *)
(* deployed (LabelsFollowConfig), for every value of the constants.       *)
(* The proof uses QInv, proved in IdempotenceProofs, for its conjunct     *)
(* PendAtStep: no write of the rule is pending before its step.           *)
(***************************************************************************)
EXTENDS IdempotenceProofs

(* The stored rule is only deleted or kept with its labels.               *)
RuleKept ==
    store'["promRule"].exists =>
        /\ store["promRule"].exists
        /\ store'["promRule"].labels = store["promRule"].labels

-----------------------------------------------------------------------------
(* A step that changes neither the ConfigMap, the CRD nor the label text, *)
(* does not re-queue a key that was queued, keeps the rule's labels, and  *)
(* stays at its step or moves one step on (not from the DEPLOY_CSI check, *)
(* the label read, the rule write or the end), keeps LInv.                *)
LEMMA FrameLInv ==
    ASSUME LInv, TypeOK',
           UNCHANGED <<cfg, crd, cfgLabels>>,
           ~queued' => ~queued,
           RuleKept,
           pend'.r = "promRule" => pend' = pend,
           \/ pc' = pc
           \/ /\ pc \in Steps \ {"flag", "opConfig", "promRule", "done"}
              /\ pc' \in Steps
              /\ Rank[pc'] = Rank[pc] + 1
    PROVE  LInv'
<1>1. DeployCSI' = DeployCSI
  BY DEF DeployCSI
<1>2. LabelsFollowConfig'
  <2> SUFFICES ASSUME AtRest', DeployCSI', store'["promRule"].exists
               PROVE  store'["promRule"].labels = cfg'.labels
    BY DEF LabelsFollowConfig
  <2>1. pc' = pc
    BY RankFacts DEF AtRest
  <2>2. QED
    BY <1>1, <2>1 DEF LInv, LabelsFollowConfig, AtRest, RuleKept
<1>3. PassFollowsConfig'
  <2> SUFFICES ASSUME ~queued', pc' \in Steps, Rank["flag"] < Rank[pc']
               PROVE  /\ pc' # "done" => DeployCSI'
                      /\ pc' = "promRule" =>
                           /\ cfgLabels' = cfg'.labels
                           /\ pend'.r = "promRule" =>
                                pend'.obj.labels = cfgLabels'
                      /\ pc' = "done" /\ DeployCSI' /\ store'["promRule"].exists
                           => store'["promRule"].labels = cfg'.labels
    BY DEF PassFollowsConfig
  <2>1. CASE pc' = pc
    BY <1>1, <2>1 DEF LInv, PassFollowsConfig, RuleKept
  <2>2. CASE pc' # pc
    <3>1. pc \in Steps \ {"flag", "opConfig", "promRule", "done"}
          /\ Rank[pc'] = Rank[pc] + 1
      BY <2>2
    <3>2. Rank["flag"] < Rank[pc]
      <4>1. "flag" \in Steps /\ "promRule" \in Steps /\ "done" \in Steps
        BY DEF Steps
      <4>2. Rank[pc] \in Nat /\ Rank[pc'] \in Nat
        BY <3>1, RankFacts
      <4>3. Rank[pc] # Rank["flag"]
        BY <3>1, <4>1, RankFacts
      <4>4. QED
        BY <3>1, <4>2, <4>3, RankFacts
    <3>3. DeployCSI
      BY <3>1, <3>2 DEF LInv, PassFollowsConfig
    <3>4. pc' # "done" /\ pc' # "promRule"
      <4>1. "promRule" \in Steps /\ "opConfig" \in Steps
        BY DEF Steps
      <4>2. Rank[pc] # Rank["promRule"] /\ Rank[pc] # Rank["opConfig"]
        BY <3>1, <4>1, RankFacts
      <4>3. Rank[pc] \in 1..20
        BY <3>1, RankFacts
      <4>4. QED
        BY <3>1, <4>2, <4>3, RankFacts
    <3>5. QED
      BY <1>1, <3>3, <3>4
  <2>3. QED
    BY <2>1, <2>2
<1>4. QED
  BY <1>2, <1>3 DEF LInv

(* A step that queues the key keeps LInv: both conjuncts are about a      *)
(* state with an empty queue.                                             *)
LEMMA QueuedLInv ==
    ASSUME TypeOK', queued'
    PROVE  LInv'
BY DEF LInv, LabelsFollowConfig, PassFollowsConfig, AtRest

LEMMA InitLInv == Init => LInv
BY InitTypeOK DEF Init, LInv, LabelsFollowConfig, PassFollowsConfig, AtRest

(* Another writer edits or deletes objects without touching the rule's    *)
(* labels; a change of the ConfigMap or the CRD, a fault and the CA       *)
(* injection queue the key.                                               *)
LEMMA EnvLInv ==
    ASSUME LInv, EnvNext
    PROVE  LInv'
<1>0. TypeOK'
  BY EnvTypeOK DEF LInv
<1>1. ASSUME NEW r \in Obj, EnvEdit(r) \/ EnvDelete(r)
      PROVE  LInv'
  <2>0. "promRule" \in Obj /\ store["promRule"] \in ObjState
    BY DEF Obj, Managed, CouObjs, LInv, TypeOK
  <2>1. RuleKept
    <3>1. CASE r # "promRule"
      <4>1. store'["promRule"] = store["promRule"]
        BY <1>1, <2>0, <3>1 DEF EnvEdit, EnvDelete, LInv, TypeOK
      <4>2. QED
        BY <4>1 DEF RuleKept
    <3>2. CASE r = "promRule" /\ EnvEdit(r)
      BY <2>0, <3>2 DEF EnvEdit, RuleKept, Stored, ObjState
    <3>3. CASE r = "promRule" /\ EnvDelete(r)
      BY <2>0, <3>3 DEF EnvDelete, RuleKept, Absent
    <3>4. QED
      BY <1>1, <3>1, <3>2, <3>3
  <2>2. QED
    BY <1>0, <1>1, <2>1, FrameLInv DEF EnvEdit, EnvDelete
<1>2. CASE EnvClearNginxData
  <2>1. RuleKept
    BY <1>2 DEF EnvClearNginxData, RuleKept, LInv, TypeOK
  <2>2. QED
    BY <1>0, <1>2, <2>1, FrameLInv DEF EnvClearNginxData
<1>3. CASE EnvConsoleDeployment
  <2>1. RuleKept
    BY <1>3 DEF EnvConsoleDeployment, RuleKept, Absent, LInv, TypeOK, Obj,
                Managed, CouObjs
  <2>2. QED
    BY <1>0, <1>3, <2>1, FrameLInv DEF EnvConsoleDeployment
<1>4. CASE EnvSetConfig \/ EnvToggleCRD \/ Fault \/ InjectCA
  BY <1>0, <1>4, QueuedLInv DEF EnvSetConfig, EnvToggleCRD, Fault, Abort,
                                InjectCA
<1>5. QED
  BY <1>1, <1>2, <1>3, <1>4 DEF EnvNext


-----------------------------------------------------------------------------
(* The reconciler's steps.                                                 *)

(* A step of the pass at r, before the DEPLOY_CSI check or on the CSI     *)
(* path short of the label read, that leaves the rule, the ConfigMap, the *)
(* CRD and the label text alone and stays or moves on to Succ[r].         *)
LEMMA AdvanceLInv ==
    ASSUME LInv, TypeOK',
           NEW r \in (CouObjs \cup WriteOnce \cup Drivers
                      \cup {"subscription", "console", "cluster"})
                     \ {"promRule"},
           pc = r, pc' = pc \/ pc' = Succ[r],
           UNCHANGED <<cfg, crd, cfgLabels>>,
           ~queued' => ~queued,
           store'["promRule"] = store["promRule"],
           pend'.r = "promRule" => pend' = pend
    PROVE  LInv'
<1>1. /\ Succ[r] \in Steps
      /\ Rank[Succ[r]] = Rank[r] + 1
      /\ r \in Steps \ {"flag", "opConfig", "promRule", "done"}
  BY SuccFacts DEF CouObjs, WriteOnce, Drivers, Steps
<1>2. RuleKept
  BY DEF RuleKept
<1>3. QED
  BY <1>1, <1>2, FrameLInv

(* A worker starts a pass: it is at the first step, far from the rule.   *)
LEMMA StartLInv ==
    ASSUME LInv, TypeOK', Start
    PROVE  LInv'
<1>1. pc' = "webhook" /\ Rank["webhook"] = 1
  BY DEF Start, Rank
<1>2. QED
  BY <1>1, RankFacts
  DEF LInv, LabelsFollowConfig, PassFollowsConfig, AtRest

(* getDeployCSIConfig: with the key not re-queued, the pass enters the   *)
(* CSI path exactly when DeployCSI holds for the current inputs.          *)
LEMMA FlagLInv ==
    ASSUME LInv, TypeOK', ResolveDeployCSI
    PROVE  LInv'
<1>1. CASE ~cfg.exists \/ cfg.deployCSI = "bad"
  BY <1>1, QueuedLInv DEF ResolveDeployCSI, Abort
<1>2. CASE cfg.exists /\ cfg.deployCSI # "bad"
  <2>1. UNCHANGED <<store, cfg, crd, queued, pend, cfgLabels>>
        /\ pc' = IF DeployCSI THEN "cluster" ELSE "done"
    BY <1>2 DEF ResolveDeployCSI
  <2>2. DeployCSI' = DeployCSI
    BY <2>1 DEF DeployCSI
  <2>3. "cluster" \in Steps /\ "done" \in Steps
    BY DEF Steps
  <2>4. QED
    BY <2>1, <2>2, <2>3, RankFacts
    DEF LInv, LabelsFollowConfig, PassFollowsConfig, AtRest
<1>3. QED
  BY <1>1, <1>2 DEF ResolveDeployCSI

(* getOperatorConfig reads the current labels; no write of the rule is   *)
(* pending yet (PendAtStep).                                              *)
LEMMA OpConfigLInv ==
    ASSUME LInv, QInv, TypeOK', GetOperatorConfig
    PROVE  LInv'
<1>1. pc = "opConfig" /\ pc' = "promRule" /\ cfgLabels' = cfg.labels
      /\ UNCHANGED <<store, cfg, crd, queued, pend>>
  BY DEF GetOperatorConfig, Succ
<1>2. pend.r # "promRule"
  BY <1>1 DEF QInv, PendAtStep, NoPend
<1>3. ~queued => DeployCSI
  <2>1. "opConfig" \in Steps /\ Rank["flag"] < Rank["opConfig"]
    BY RankFacts DEF Steps
  <2>2. QED
    BY <1>1, <2>1 DEF LInv, PassFollowsConfig
<1>4. DeployCSI' = DeployCSI
  BY <1>1 DEF DeployCSI
<1>5. "promRule" \in Steps
  BY DEF Steps
<1>6. QED
  BY <1>1, <1>2, <1>3, <1>4, <1>5
  DEF LInv, LabelsFollowConfig, PassFollowsConfig, AtRest


(* The mutate of the rule sets its labels to the text read.              *)
LEMMA RuleMutateLabels ==
    ASSUME NEW x \in ObjState, NEW t
    PROVE  Mutate("promRule", x) = MutatePromRule(x, cfgLabels)
           /\ MutatePromRule(x, t).labels = t
BY DEF Mutate, MutatePromRule, ObjState

(* createOrUpdate's Get of the rule: a rule found with the labels read   *)
(* ends the pass; otherwise the write pending carries those labels.      *)
LEMMA RuleGetLInv ==
    ASSUME LInv, TypeOK', CouGet("promRule")
    PROVE  LInv'
<1> DEFINE new == Mutate("promRule", store["promRule"])
<1>0. /\ "promRule" \in Obj /\ store["promRule"] \in ObjState
      /\ "promRule" \in Steps /\ "done" \in Steps
      /\ Rank["flag"] < Rank["promRule"]
  BY RankFacts DEF Obj, Managed, CouObjs, LInv, TypeOK, Steps
<1>1. new.labels = cfgLabels
  BY <1>0, RuleMutateLabels
<1>2. pc = "promRule" /\ UNCHANGED <<store, cfg, crd, queued, cfgLabels>>
  BY DEF CouGet
<1>3. DeployCSI' = DeployCSI
  BY <1>2 DEF DeployCSI
<1>4. ~queued => cfgLabels = cfg.labels
  BY <1>0, <1>2 DEF LInv, PassFollowsConfig
<1>5. CASE store["promRule"].exists /\ new = store["promRule"]
  <2>1. pc' = "done"
    BY <1>5 DEF CouGet, Succ
  <2>2. QED
    BY <1>0, <1>1, <1>2, <1>3, <1>4, <1>5, <2>1, RankFacts
    DEF LInv, LabelsFollowConfig, PassFollowsConfig, AtRest
<1>6. CASE ~(store["promRule"].exists /\ new = store["promRule"])
  <2>1. pend' = [r |-> "promRule", obj |-> new] /\ pc' = pc
    BY <1>6 DEF CouGet
  <2>2. QED
    BY <1>0, <1>1, <1>2, <1>3, <1>4, <2>1
    DEF LInv, LabelsFollowConfig, PassFollowsConfig, AtRest
<1>7. QED
  BY <1>5, <1>6

(* createOrUpdate's write of the rule stores the labels it carries and   *)
(* ends the pass; the rule is not watched, so the queue stays as it is.  *)
LEMMA RuleWriteLInv ==
    ASSUME LInv, TypeOK', CouWrite("promRule")
    PROVE  LInv'
<1>0. /\ "promRule" \in Obj /\ store["promRule"] \in ObjState
      /\ "promRule" \in Steps /\ "done" \in Steps
      /\ Rank["flag"] < Rank["promRule"]
      /\ "promRule" \notin Watched
  BY RankFacts DEF Obj, Managed, CouObjs, LInv, TypeOK, Steps, Watched
<1>1. CASE Accepts("promRule", pend.obj)
  <2>1. /\ store'["promRule"] = Stored("promRule", pend.obj)
        /\ pc = "promRule" /\ pc' = "done" /\ pend.r = "promRule"
        /\ queued' = queued
        /\ UNCHANGED <<cfg, crd, cfgLabels>>
    BY <1>0, <1>1 DEF CouWrite, Succ, LInv, TypeOK
  <2>2. store'["promRule"].labels = pend.obj.labels
    BY <2>1 DEF Stored
  <2>3. DeployCSI' = DeployCSI
    BY <2>1 DEF DeployCSI
  <2>4. QED
    BY <1>0, <2>1, <2>2, <2>3, RankFacts
    DEF LInv, LabelsFollowConfig, PassFollowsConfig, AtRest
<1>2. CASE ~Accepts("promRule", pend.obj)
  BY <1>2, QueuedLInv DEF CouWrite, Abort
<1>3. QED
  BY <1>1, <1>2

(* Reconcile returns success: a pass done with the key not re-queued     *)
(* leaves the controller at rest with the rule's labels current.          *)
LEMMA FinishLInv ==
    ASSUME LInv, TypeOK', Finish
    PROVE  LInv'
<1>1. pc = "done" /\ pc' = "idle"
      /\ UNCHANGED <<store, cfg, crd, queued>>
  BY DEF Finish
<1>2. "done" \in Steps /\ Rank["flag"] < Rank["done"] /\ "idle" \notin Steps
  BY RankFacts DEF Steps
<1>3. DeployCSI' = DeployCSI
  BY <1>1 DEF DeployCSI
<1>4. QED
  BY <1>1, <1>2, <1>3
  DEF LInv, LabelsFollowConfig, PassFollowsConfig, AtRest


LEMMA CtrlLInv ==
    ASSUME LInv, QInv, CtrlNext
    PROVE  LInv'
<1>0. TypeOK' /\ "promRule" \in Obj /\ store \in [Obj -> ObjState]
  BY CtrlTypeOK DEF LInv, Obj, Managed, CouObjs, TypeOK
<1>1. CASE Start
  BY <1>0, <1>1, StartLInv
<1>2. ASSUME NEW r \in CouObjs, CouGet(r)
      PROVE  LInv'
  <2>1. CASE r = "promRule"
    BY <1>0, <1>2, <2>1, RuleGetLInv
  <2>2. CASE r # "promRule"
    <3>1. /\ pc = r /\ (pc' = pc \/ pc' = Succ[r])
          /\ UNCHANGED <<store, cfg, crd, cfgLabels, queued>>
          /\ (pend' = pend \/ pend'.r = r)
      BY <1>2 DEF CouGet
    <3>2. QED
      BY <1>0, <2>2, <3>1, AdvanceLInv
  <2>3. QED
    BY <2>1, <2>2
<1>3. CASE NginxNilMapPanic \/ ApplyLabelsPanic
  BY <1>0, <1>3, QueuedLInv DEF NginxNilMapPanic, ApplyLabelsPanic, Abort
<1>4. ASSUME NEW r \in CouObjs \cup {"subscription"}, CouWrite(r)
      PROVE  LInv'
  <2>1. CASE r = "promRule"
    BY <1>0, <1>4, <2>1, RuleWriteLInv
  <2>2. CASE r # "promRule" /\ Accepts(r, pend.obj)
    <3>1. /\ pc = r /\ pc' = Succ[r]
          /\ UNCHANGED <<cfg, crd, cfgLabels>>
          /\ queued' = (queued \/ r \in Watched)
          /\ store'["promRule"] = store["promRule"]
          /\ pend' = NoPend
      BY <1>0, <1>4, <2>2 DEF CouWrite
    <3>2. QED
      BY <1>0, <2>2, <3>1, AdvanceLInv DEF NoPend
  <2>3. CASE ~Accepts(r, pend.obj)
    BY <1>0, <1>4, <2>3, QueuedLInv DEF CouWrite, Abort
  <2>4. QED
    BY <2>1, <2>2, <2>3
<1>5. CASE LabelSubscription \/ GetConsoleDeployment
  <2>1. CASE queued'
    BY <1>0, <2>1, QueuedLInv
  <2>2. CASE ~queued'
    <3>1. /\ pc \in {"subscription", "console"}
          /\ (pc' = pc \/ pc' = Succ[pc])
          /\ UNCHANGED <<store, cfg, crd, cfgLabels, queued>>
          /\ (pend' = pend \/ pend'.r = "subscription")
      BY <1>5, <2>2 DEF LabelSubscription, GetConsoleDeployment, Abort
    <3>2. QED
      BY <1>0, <3>1, AdvanceLInv
  <2>3. QED
    BY <2>1, <2>2
<1>6. CASE ResolveDeployCSI
  BY <1>0, <1>6, FlagLInv
<1>7. CASE InitializeSidecars
  <2>1. pc = "cluster" /\ pc' = Succ["cluster"]
        /\ UNCHANGED <<store, cfg, crd, cfgLabels, queued, pend>>
    BY <1>7 DEF InitializeSidecars, Succ
  <2>2. QED
    BY <1>0, <2>1, AdvanceLInv
<1>8. ASSUME NEW r \in WriteOnce \cup Drivers,
             CreateConfigMap(r) \/ CreateCSIDriver(r)
      PROVE  LInv'
  <2>1. /\ pc = r /\ pc' = Succ[r]
        /\ UNCHANGED <<cfg, crd, cfgLabels, queued, pend>>
        /\ store'["promRule"] = store["promRule"]
    BY <1>0, <1>8 DEF CreateConfigMap, CreateCSIDriver, WriteOnce, Drivers
  <2>2. r # "promRule"
    BY DEF WriteOnce, Drivers
  <2>3. QED
    BY <1>0, <2>1, <2>2, AdvanceLInv
<1>9. CASE GetOperatorConfig
  BY <1>0, <1>9, OpConfigLInv
<1>10. CASE Finish
  BY <1>0, <1>10, FinishLInv
<1>11. QED
  BY <1>1, <1>2, <1>3, <1>4, <1>5, <1>6, <1>7, <1>8, <1>9, <1>10
  DEF CtrlNext

(* A step of the whole system keeps LInv, given QInv in the state before. *)
LEMMA LInvStep == LInv /\ QInv /\ [Next]_vars => LInv'
<1> SUFFICES ASSUME LInv, QInv, [Next]_vars PROVE LInv'
  OBVIOUS
<1>1. CASE CtrlNext
  BY <1>1, CtrlLInv
<1>2. CASE EnvNext
  BY <1>2, EnvLInv
<1>3. CASE Resync
  BY <1>3, ResyncTypeOK, QueuedLInv DEF Resync, LInv
<1>4. CASE UNCHANGED vars
  BY <1>4 DEF vars, LInv, TypeOK, LabelsFollowConfig, PassFollowsConfig,
              AtRest, DeployCSI
<1>5. QED
  BY <1>1, <1>2, <1>3, <1>4 DEF Next

(* LInv holds in every reachable state.                                   *)
THEOREM LInvariant == Spec => []LInv
<1>1. Init => LInv
  BY InitLInv
<1>2. LInv /\ QInv /\ [Next]_vars => LInv'
  BY LInvStep
<1>3. Spec => []QInv
  BY QInvariant
<1>4. QED
  BY <1>1, <1>2, <1>3, PTL DEF Spec

(* LabelsFollowConfig: whenever the controller is at rest and the current *)
(* ConfigMap and CRD say to deploy CSI, the PrometheusRule carries the    *)
(* labels of the current ConfigMap; the two reads of the ConfigMap in a   *)
(* pass (lines 348 and 490) never leave an edit unapplied, because the    *)
(* ConfigMap watch re-queues the key.                                      *)
THEOREM LabelsFollow == Spec => []LabelsFollowConfig
<1>1. LInv => LabelsFollowConfig
  BY DEF LInv
<1>2. QED
  BY <1>1, LInvariant, PTL
=============================================================================
