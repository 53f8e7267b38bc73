-------------------------- MODULE ReconcilerProofs --------------------------
(***************************************************************************)
(* Proofs about ClusterVersionReconciler for every value of its constants: *)
(* type correctness, and that no reconciler step clears the caBundle the   *)
(* service-CA operator injected into the webhook.                          *)
(***************************************************************************)
EXTENDS ClusterVersionReconciler, TLAPS

-----------------------------------------------------------------------------
(* Lemmas about the operators on stored objects.                          *)

(* What the store holds after a write is again an object state.           *)
LEMMA StoredType ==
    ASSUME NEW r \in Obj, NEW obj \in ObjState, store \in [Obj -> ObjState]
    PROVE  Stored(r, obj) \in ObjState
<1>1. NextRV(store[r].rv) \in Nat
  BY DEF NextRV, ObjState, NoRV
<1>2. QED
  BY <1>1 DEF Stored, ObjState

(* Every mutate function maps object states to object states.             *)
LEMMA MutateType ==
    ASSUME NEW r \in Obj, NEW old \in ObjState, cfgLabels \in LabelTexts
    PROVE  Mutate(r, old) \in ObjState
BY DEF Mutate, MutateWebhook, MutateNginx, MutateService, MutatePlugin,
       MutateSCC, MutateWorkload, MutatePromRule, MutateSubscription,
       ObjState, NoRV

LEMMA AbsentType == Absent \in ObjState
BY DEF Absent, ObjState, NoRV

(* A deleted object keeps the resourceVersion it had.                     *)
LEMMA DeletedType ==
    ASSUME NEW x \in ObjState
    PROVE  [Absent EXCEPT !.rv = x.rv] \in ObjState
BY DEF Absent, ObjState

(* Another writer's edit and the CA injection change one field.           *)
LEMMA EditedType ==
    ASSUME NEW x \in ObjState
    PROVE  /\ [x EXCEPT !.spec = "drift"] \in ObjState
           /\ [x EXCEPT !.spec = "nodata"] \in ObjState
           /\ [x EXCEPT !.ca = TRUE] \in ObjState
BY DEF ObjState

(* Writing one object keeps the store a function of object states.        *)
LEMMA StoreUpdate ==
    ASSUME NEW st \in [Obj -> ObjState], NEW r \in Obj, NEW x \in ObjState
    PROVE  [st EXCEPT ![r] = x] \in [Obj -> ObjState]
OBVIOUS

(* The object names and the steps of a pass.                              *)
LEMMA ObjFacts ==
    /\ CouObjs \cup WriteOnce \cup Drivers \cup {"subscription"} \subseteq Obj
    /\ "webhook" \in Obj
    /\ "nginxCM" \in Obj /\ "nginxCM" # "webhook"
    /\ "none" \notin Obj
    /\ \A r \in CouObjs \cup WriteOnce \cup Drivers \cup
                {"subscription", "console", "opConfig"} : Succ[r] \in Steps
BY DEF Obj, Managed, CouObjs, WriteOnce, Drivers, Succ, Steps

-----------------------------------------------------------------------------
(* The type invariant.                                                    *)

LEMMA InitTypeOK == Init => TypeOK
<1> SUFFICES ASSUME Init PROVE TypeOK
  OBVIOUS
<1>1. [Absent EXCEPT !.exists = TRUE, !.spec = "drift", !.server = TRUE]
        \in ObjState
  BY DEF Absent, ObjState, NoRV
<1>2. store \in [Obj -> ObjState]
  BY <1>1, AbsentType DEF Init
<1>3. pend \in {NoPend} \cup [r : Obj, obj : ObjState]
  BY DEF Init
<1>4. budget \in 0..MaxEnv
  BY EnvAssumption DEF Init
<1>5. QED
  BY <1>2, <1>3, <1>4, EnvAssumption DEF Init, TypeOK, Steps

(* An environment step spends one unit of a budget that stays in range.   *)
LEMMA EnvStepBudget == TypeOK /\ EnvStep => budget' \in 0..MaxEnv
BY EnvAssumption DEF TypeOK, EnvStep

(* The steps of the environment keep the types.                           *)
LEMMA EnvTypeOK == TypeOK /\ EnvNext => TypeOK'
<1> SUFFICES ASSUME TypeOK, EnvNext PROVE TypeOK'
  OBVIOUS
<1> USE DEF TypeOK
<1>0. EnvStep => budget' \in 0..MaxEnv
  BY EnvStepBudget
<1>1. ASSUME NEW r \in Obj, EnvEdit(r) PROVE TypeOK'
  <2>1. Stored(r, [store[r] EXCEPT !.spec = "drift"]) \in ObjState
    BY EditedType, StoredType
  <2>2. store' \in [Obj -> ObjState]
    BY <1>1, <2>1, StoreUpdate DEF EnvEdit
  <2>3. QED
    BY <1>1, <2>2, <1>0 DEF EnvEdit, EnvStep
<1>2. ASSUME NEW r \in Obj, EnvDelete(r) PROVE TypeOK'
  <2>1. store' \in [Obj -> ObjState]
    BY <1>2, DeletedType, StoreUpdate DEF EnvDelete
  <2>2. QED
    BY <1>2, <2>1, <1>0 DEF EnvDelete, EnvStep
<1>3. CASE EnvSetConfig
  BY <1>3, <1>0 DEF EnvSetConfig, EnvStep
<1>4. CASE EnvToggleCRD
  BY <1>4, <1>0 DEF EnvToggleCRD, EnvStep
<1>5. CASE EnvConsoleDeployment
  <2>1. store' \in [Obj -> ObjState]
    BY <1>5, DeletedType DEF EnvConsoleDeployment
  <2>2. QED
    BY <1>5, <2>1, <1>0 DEF EnvConsoleDeployment, EnvStep
<1>6. CASE Fault
  BY <1>6, <1>0 DEF Fault, EnvStep, Abort, NoPend
<1>7. CASE InjectCA
  <2>1. Stored("webhook", [store["webhook"] EXCEPT !.ca = TRUE]) \in ObjState
    BY ObjFacts, EditedType, StoredType
  <2>2. store' \in [Obj -> ObjState]
    BY <1>7, <2>1, ObjFacts, StoreUpdate DEF InjectCA
  <2>3. QED
    BY <1>7, <2>2 DEF InjectCA
<1>8. CASE EnvClearNginxData
  <2>1. Stored("nginxCM", [store["nginxCM"] EXCEPT !.spec = "nodata"])
          \in ObjState
    BY ObjFacts, EditedType, StoredType
  <2>2. store' \in [Obj -> ObjState]
    BY <1>8, <2>1, ObjFacts, StoreUpdate DEF EnvClearNginxData
  <2>3. QED
    BY <1>8, <2>2, <1>0 DEF EnvClearNginxData, EnvStep
<1>9. QED
  BY <1>1, <1>2, <1>3, <1>4, <1>5, <1>6, <1>7, <1>8 DEF EnvNext

(* The steps of the reconciler keep the types.                            *)
LEMMA CtrlTypeOK == TypeOK /\ CtrlNext => TypeOK'
<1> SUFFICES ASSUME TypeOK, CtrlNext PROVE TypeOK'
  OBVIOUS
<1> USE DEF TypeOK
<1>1. CASE Start
  BY <1>1 DEF Start, Steps
<1>2. ASSUME NEW r \in CouObjs, CouGet(r) PROVE TypeOK'
  <2>1. /\ r \in Obj
        /\ Succ[r] \in Steps
    BY ObjFacts
  <2>2. Mutate(r, store[r]) \in ObjState
    BY <2>1, MutateType
  <2>3. pend' \in {NoPend} \cup [r : Obj, obj : ObjState]
    BY <1>2, <2>1, <2>2 DEF CouGet
  <2>4. QED
    BY <1>2, <2>1, <2>3 DEF CouGet
<1>3. ASSUME NEW r \in CouObjs \cup {"subscription"}, CouWrite(r)
      PROVE TypeOK'
  <2>1. /\ r \in Obj
        /\ Succ[r] \in Steps
    BY ObjFacts
  <2>2. pend.obj \in ObjState
    BY <1>3, <2>1, ObjFacts DEF CouWrite, NoPend
  <2>3. [store EXCEPT ![r] = Stored(r, pend.obj)] \in [Obj -> ObjState]
    BY <2>1, <2>2, StoredType, StoreUpdate
  <2>4. CASE Accepts(r, pend.obj)
    BY <1>3, <2>1, <2>3, <2>4 DEF CouWrite
  <2>5. CASE ~Accepts(r, pend.obj)
    BY <1>3, <2>5 DEF CouWrite, Abort
  <2>6. QED
    BY <2>4, <2>5
<1>4. CASE LabelSubscription
  <2>1. MutateSubscription(store["subscription"]) \in ObjState
    BY ObjFacts DEF MutateSubscription, ObjState
  <2>2. "subscription" \in Obj /\ Succ["subscription"] \in Steps
    BY ObjFacts
  <2>3. pend' \in {NoPend} \cup [r : Obj, obj : ObjState]
    BY <1>4, <2>1, <2>2 DEF LabelSubscription, Abort
  <2>4. pc' \in Steps \cup {"idle"}
    BY <1>4, <2>2 DEF LabelSubscription, Abort
  <2>5. QED
    BY <1>4, <2>3, <2>4 DEF LabelSubscription, Abort
<1>5. CASE GetConsoleDeployment
  BY <1>5, ObjFacts DEF GetConsoleDeployment, Abort
<1>6. CASE ResolveDeployCSI
  BY <1>6 DEF ResolveDeployCSI, Abort, Steps
<1>7. CASE InitializeSidecars
  BY <1>7 DEF InitializeSidecars, Steps
<1>8. ASSUME NEW r \in WriteOnce, CreateConfigMap(r) PROVE TypeOK'
  <2>1. /\ r \in Obj
        /\ Succ[r] \in Steps
    BY ObjFacts
  <2>2. Created(r, "operator") \in ObjState
    <3>1. [Absent EXCEPT !.spec = "desired", !.owner = "operator"]
            \in ObjState
      BY DEF Absent, ObjState, NoRV
    <3>2. QED
      BY <2>1, <3>1, StoredType DEF Created
  <2>3. store' \in [Obj -> ObjState]
    BY <1>8, <2>1, <2>2, StoreUpdate DEF CreateConfigMap
  <2>4. QED
    BY <1>8, <2>1, <2>3 DEF CreateConfigMap
<1>9. ASSUME NEW r \in Drivers, CreateCSIDriver(r) PROVE TypeOK'
  <2>1. /\ r \in Obj
        /\ Succ[r] \in Steps
    BY ObjFacts
  <2>2. Created(r, "none") \in ObjState
    <3>1. [Absent EXCEPT !.spec = "desired", !.owner = "none"] \in ObjState
      BY DEF Absent, ObjState, NoRV
    <3>2. QED
      BY <2>1, <3>1, StoredType DEF Created
  <2>3. store' \in [Obj -> ObjState]
    BY <1>9, <2>1, <2>2, StoreUpdate DEF CreateCSIDriver
  <2>4. QED
    BY <1>9, <2>1, <2>3 DEF CreateCSIDriver
<1>10. CASE GetOperatorConfig
  <2>1. cfg.labels \in LabelTexts
    <3>1. CASE cfg = NoConfig
      BY <3>1, EnvAssumption DEF NoConfig
    <3>2. CASE cfg \in [exists : {TRUE}, deployCSI : DeployCSIValues,
                        labels : LabelTexts]
      BY <3>2
    <3>3. QED
      BY <3>1, <3>2 DEF CfgStates
  <2>2. QED
    BY <1>10, <2>1, ObjFacts DEF GetOperatorConfig
<1>11. CASE ApplyLabelsPanic
  BY <1>11 DEF ApplyLabelsPanic, Abort
<1>12. CASE Finish
  BY <1>12 DEF Finish
<1>13. CASE NginxNilMapPanic
  BY <1>13 DEF NginxNilMapPanic, Abort
<1>14. QED
  BY <1>1, <1>2, <1>3, <1>4, <1>5, <1>6, <1>7, <1>8, <1>9, <1>10, <1>11,
     <1>12, <1>13 DEF CtrlNext

(* A resync only re-queues the key.                                     *)
LEMMA ResyncTypeOK == TypeOK /\ Resync => TypeOK'
BY DEF Resync, TypeOK

(* Type correctness of the specification.                                *)
THEOREM TypeCorrect == Spec => []TypeOK
<1>1. Init => TypeOK
  BY InitTypeOK
<1>2. TypeOK /\ [Next]_vars => TypeOK'
  BY EnvTypeOK, CtrlTypeOK, ResyncTypeOK DEF Next, vars, TypeOK
<1>3. QED
  BY <1>1, <1>2, PTL DEF Spec

-----------------------------------------------------------------------------
(* The caBundle.  IInv strengthens TypeOK with three facts: the store     *)
(* holds assigned resourceVersions only, an injected caBundle sits on a   *)
(* stored webhook, and a pending webhook write whose Get predates an      *)
(* injection carries a resourceVersion the store has moved past.          *)

(* The fields Stored sets.                                                *)
LEMMA StoredFields ==
    ASSUME NEW r \in Obj, NEW obj \in ObjState, store \in [Obj -> ObjState]
    PROVE  /\ Stored(r, obj).rv = store[r].rv + 1
           /\ Stored(r, obj).ca = obj.ca
           /\ Stored(r, obj).exists
BY DEF Stored, NextRV, ObjState

(* A step that leaves the store alone and starts no webhook write keeps   *)
(* the strengthening.                                                     *)
LEMMA StoreKept ==
    ASSUME IInv, store' = store, pend' = pend \/ pend'.r # "webhook"
    PROVE  (StoreRVsAssigned /\ CAOnlyOnStored /\ PendingWebhookStale)'
BY DEF IInv, StoreRVsAssigned, CAOnlyOnStored, PendingWebhookStale

LEMMA InitIInv == Init => IInv
<1> SUFFICES ASSUME Init PROVE IInv
  OBVIOUS
<1>1. TypeOK
  BY InitTypeOK
<1>2. StoreRVsAssigned
  BY DEF Init, StoreRVsAssigned, Absent
<1>3. CAOnlyOnStored
  BY ObjFacts DEF Init, CAOnlyOnStored, Absent
<1>4. PendingWebhookStale
  BY DEF Init, PendingWebhookStale, NoPend
<1>5. QED
  BY <1>1, <1>2, <1>3, <1>4 DEF IInv
(* The steps of the reconciler keep the strengthening.                    *)
LEMMA CtrlIInv ==
    IInv /\ CtrlNext
      => (StoreRVsAssigned /\ CAOnlyOnStored /\ PendingWebhookStale)'
<1> SUFFICES ASSUME IInv, CtrlNext
             PROVE  (StoreRVsAssigned /\ CAOnlyOnStored /\ PendingWebhookStale)'
  OBVIOUS
<1> DEFINE Goal == (StoreRVsAssigned /\ CAOnlyOnStored /\ PendingWebhookStale)'
<1>0. TypeOK
  BY DEF IInv
<1>1. CASE Start
  BY <1>1, StoreKept DEF Start
<1>2. ASSUME NEW r \in CouObjs, CouGet(r) PROVE Goal
  <2>1. CASE r # "webhook"
    BY <1>2, <2>1, StoreKept DEF CouGet
  <2>2. CASE r = "webhook"
    <3>1. Mutate(r, store[r]) = [store["webhook"] EXCEPT !.spec = "desired"]
      BY <2>2 DEF Mutate, MutateWebhook
    <3>2. store["webhook"].rv \in Nat /\ store["webhook"] \in ObjState
      BY <1>0, ObjFacts DEF IInv, StoreRVsAssigned, TypeOK
    <3>3. pend' = pend \/ pend' = [r |-> "webhook",
                  obj |-> [store["webhook"] EXCEPT !.spec = "desired"]]
      BY <1>2, <2>2, <3>1 DEF CouGet
    <3>4. CASE pend' = pend
      BY <1>2, <3>4, StoreKept DEF CouGet
    <3>5. CASE pend' # pend
      <4>1. pend'.obj.rv = store["webhook"].rv
            /\ pend'.obj.ca = store["webhook"].ca
        BY <3>2, <3>3, <3>5 DEF ObjState
      <4>2. QED
        BY <1>2, <3>2, <3>3, <4>1 DEF CouGet, IInv, StoreRVsAssigned,
           CAOnlyOnStored, PendingWebhookStale
    <3>6. QED
      BY <3>4, <3>5
  <2>3. QED
    BY <2>1, <2>2
<1>3. ASSUME NEW r \in CouObjs \cup {"subscription"}, CouWrite(r) PROVE Goal
  <2>1. CASE ~Accepts(r, pend.obj)
    BY <1>3, <2>1, StoreKept DEF CouWrite, Abort, NoPend
  <2>2. CASE Accepts(r, pend.obj)
    <3>1. r \in Obj /\ pend.obj \in ObjState
      BY <1>0, <1>3, ObjFacts DEF CouWrite, NoPend, TypeOK
    <3>2. /\ Stored(r, pend.obj).rv \in Nat
          /\ Stored(r, pend.obj).exists
      BY <1>0, <3>1, StoredFields DEF IInv, StoreRVsAssigned, TypeOK
    <3>3. store' = [store EXCEPT ![r] = Stored(r, pend.obj)]
          /\ pend' = NoPend
      BY <1>3, <2>2 DEF CouWrite
    <3>4. StoreRVsAssigned'
      BY <1>0, <3>2, <3>3 DEF IInv, StoreRVsAssigned, TypeOK
    <3>5. CAOnlyOnStored'
      BY <1>0, <3>1, <3>2, <3>3, ObjFacts DEF IInv, CAOnlyOnStored, TypeOK
    <3>6. PendingWebhookStale'
      BY <3>3 DEF PendingWebhookStale, NoPend
    <3>7. QED
      BY <3>4, <3>5, <3>6
  <2>3. QED
    BY <2>1, <2>2
<1>4. CASE LabelSubscription
  BY <1>4, StoreKept DEF LabelSubscription, Abort, NoPend
<1>5. CASE GetConsoleDeployment
  BY <1>5, StoreKept DEF GetConsoleDeployment, Abort, NoPend
<1>6. CASE ResolveDeployCSI
  BY <1>6, StoreKept DEF ResolveDeployCSI, Abort, NoPend
<1>7. CASE InitializeSidecars
  BY <1>7, StoreKept DEF InitializeSidecars
<1>8. ASSUME NEW r \in WriteOnce \cup Drivers,
             \/ CreateConfigMap(r)
             \/ CreateCSIDriver(r)
      PROVE  Goal
  <2>1. CASE UNCHANGED store
    BY <1>8, <2>1, StoreKept DEF CreateConfigMap, CreateCSIDriver
  <2>2. CASE ~UNCHANGED store
    <3>1. PICK o \in {"operator", "none"} :
               store' = [store EXCEPT ![r] = Created(r, o)]
      BY <1>8, <2>2 DEF CreateConfigMap, CreateCSIDriver
    <3>2. r \in Obj /\ r # "webhook"
      BY ObjFacts DEF WriteOnce, Drivers
    <3>3. [Absent EXCEPT !.spec = "desired", !.owner = o] \in ObjState
      BY DEF Absent, ObjState
    <3>4. Created(r, o).rv \in Nat
      BY <1>0, <3>2, <3>3, StoredFields DEF Created, IInv, StoreRVsAssigned,
         TypeOK
    <3>5. pend' = pend
      BY <1>8 DEF CreateConfigMap, CreateCSIDriver
    <3>6. QED
      BY <1>0, <3>1, <3>2, <3>4, <3>5 DEF IInv, StoreRVsAssigned,
         CAOnlyOnStored, PendingWebhookStale, TypeOK
  <2>3. QED
    BY <2>1, <2>2
<1>9. CASE GetOperatorConfig
  BY <1>9, StoreKept DEF GetOperatorConfig
<1>10. CASE ApplyLabelsPanic
  BY <1>10, StoreKept DEF ApplyLabelsPanic, Abort, NoPend
<1>11. CASE Finish
  BY <1>11, StoreKept DEF Finish
<1>12. CASE NginxNilMapPanic
  BY <1>12, StoreKept DEF NginxNilMapPanic, Abort, NoPend
<1>13. QED
  BY <1>1, <1>2, <1>3, <1>4, <1>5, <1>6, <1>7, <1>8, <1>9, <1>10, <1>11,
     <1>12 DEF CtrlNext

(* The steps of the environment keep the strengthening.                   *)
LEMMA EnvIInv ==
    IInv /\ EnvNext
      => (StoreRVsAssigned /\ CAOnlyOnStored /\ PendingWebhookStale)'
<1> SUFFICES ASSUME IInv, EnvNext
             PROVE  (StoreRVsAssigned /\ CAOnlyOnStored /\ PendingWebhookStale)'
  OBVIOUS
<1> DEFINE Goal == (StoreRVsAssigned /\ CAOnlyOnStored /\ PendingWebhookStale)'
<1>0. TypeOK /\ StoreRVsAssigned /\ CAOnlyOnStored /\ PendingWebhookStale
  BY DEF IInv
<1>1. ASSUME NEW r \in Obj, EnvEdit(r) PROVE Goal
  <2>1. [store[r] EXCEPT !.spec = "drift"] \in ObjState
    BY <1>0, EditedType DEF TypeOK
  <2>2. /\ Stored(r, [store[r] EXCEPT !.spec = "drift"]).rv
             = store[r].rv + 1
        /\ Stored(r, [store[r] EXCEPT !.spec = "drift"]).ca = store[r].ca
        /\ Stored(r, [store[r] EXCEPT !.spec = "drift"]).exists
    BY <1>0, <2>1, StoredFields DEF TypeOK, ObjState
  <2>3. QED
    BY <1>0, <1>1, <2>2 DEF EnvEdit, StoreRVsAssigned, CAOnlyOnStored,
       PendingWebhookStale, TypeOK
<1>2. ASSUME NEW r \in Obj, EnvDelete(r) PROVE Goal
  BY <1>0, <1>2 DEF EnvDelete, Absent, StoreRVsAssigned, CAOnlyOnStored,
     PendingWebhookStale, TypeOK
<1>3. CASE EnvSetConfig
  BY <1>3, StoreKept DEF EnvSetConfig
<1>4. CASE EnvToggleCRD
  BY <1>4, StoreKept DEF EnvToggleCRD
<1>5. CASE EnvConsoleDeployment
  BY <1>0, <1>5, ObjFacts DEF EnvConsoleDeployment, Absent, StoreRVsAssigned,
     CAOnlyOnStored, PendingWebhookStale, TypeOK
<1>6. CASE Fault
  BY <1>6, StoreKept DEF Fault, Abort, NoPend
<1>7. CASE InjectCA
  <2>1. "webhook" \in Obj
        /\ [store["webhook"] EXCEPT !.ca = TRUE] \in ObjState
    BY <1>0, ObjFacts, EditedType DEF TypeOK
  <2>2. /\ Stored("webhook", [store["webhook"] EXCEPT !.ca = TRUE]).rv
             = store["webhook"].rv + 1
        /\ Stored("webhook", [store["webhook"] EXCEPT !.ca = TRUE]).exists
    BY <1>0, <2>1, StoredFields DEF TypeOK
  <2>3. QED
    BY <1>0, <1>7, <2>1, <2>2 DEF InjectCA, StoreRVsAssigned, CAOnlyOnStored,
       PendingWebhookStale, TypeOK
<1>8. CASE EnvClearNginxData
  <2>1. [store["nginxCM"] EXCEPT !.spec = "nodata"] \in ObjState
    BY <1>0, ObjFacts, EditedType DEF TypeOK
  <2>2. /\ Stored("nginxCM", [store["nginxCM"] EXCEPT !.spec = "nodata"]).rv
             = store["nginxCM"].rv + 1
        /\ Stored("nginxCM", [store["nginxCM"] EXCEPT !.spec = "nodata"]).exists
    BY <1>0, <2>1, ObjFacts, StoredFields DEF TypeOK
  <2>3. QED
    BY <1>0, <1>8, <2>2, ObjFacts DEF EnvClearNginxData, StoreRVsAssigned,
       CAOnlyOnStored, PendingWebhookStale, TypeOK
<1>9. QED
  BY <1>1, <1>2, <1>3, <1>4, <1>5, <1>6, <1>7, <1>8 DEF EnvNext

(* A resync leaves everything IInv is about as it was.                   *)
LEMMA ResyncIInv == IInv /\ Resync => IInv'
BY ResyncTypeOK DEF Resync, IInv, StoreRVsAssigned, CAOnlyOnStored,
   PendingWebhookStale

(* Every step, or stuttering step, keeps IInv.                           *)
LEMMA IInvStep == IInv /\ [Next]_vars => IInv'
<1> SUFFICES ASSUME IInv, [Next]_vars PROVE IInv'
  OBVIOUS
<1>1. TypeOK'
  BY CtrlTypeOK, EnvTypeOK, ResyncTypeOK DEF IInv, Next, vars, TypeOK
<1>2. CASE Next
  BY <1>1, <1>2, CtrlIInv, EnvIInv, ResyncIInv DEF Next, IInv
<1>3. CASE UNCHANGED vars
  BY <1>1, <1>3 DEF vars, IInv, StoreRVsAssigned, CAOnlyOnStored,
     PendingWebhookStale
<1>4. QED
  BY <1>2, <1>3

(* IInv is an invariant of the specification.                            *)
THEOREM IInvariant == Spec => []IInv
<1>1. Init => IInv
  BY InitIInv
<1>2. IInv /\ [Next]_vars => IInv'
  BY IInvStep
<1>3. QED
  BY <1>1, <1>2, PTL DEF Spec

(* No reconciler step clears an injected caBundle.  Only an accepted     *)
(* Update of the webhook writes it: the Update carries the               *)
(* resourceVersion of its Get, so the store accepts it only if no         *)
(* injection came in between, and then the mutate copied the bundle.      *)
LEMMA CtrlKeepsCA ==
    IInv /\ CtrlNext => (store["webhook"].ca => store'["webhook"].ca)
<1> SUFFICES ASSUME IInv, CtrlNext, store["webhook"].ca
             PROVE  store'["webhook"].ca
  OBVIOUS
<1>0. /\ TypeOK /\ CAOnlyOnStored /\ PendingWebhookStale
      /\ "webhook" \in Obj /\ store["webhook"].exists
  BY ObjFacts DEF IInv, CAOnlyOnStored
<1>1. CASE CouWrite("webhook") /\ Accepts("webhook", pend.obj)
  <2>1. pend.r = "webhook" /\ pend.obj \in ObjState
    BY <1>0, <1>1, ObjFacts DEF CouWrite, NoPend, TypeOK
  <2>2. pend.obj.exists
    BY <1>0, <1>1 DEF Accepts
  <2>3. pend.obj.rv = store["webhook"].rv
    BY <1>0, <1>1, <2>1, <2>2 DEF Accepts, PendingWebhookStale, NoRV
  <2>4. pend.obj.ca
    BY <1>0, <2>1, <2>3 DEF PendingWebhookStale
  <2>5. store'["webhook"] = Stored("webhook", pend.obj)
    BY <1>0, <1>1 DEF CouWrite, TypeOK
  <2>6. QED
    BY <1>0, <2>1, <2>4, <2>5, StoredFields DEF TypeOK
<1>2. CASE ~(CouWrite("webhook") /\ Accepts("webhook", pend.obj))
  <2>1. store'["webhook"] = store["webhook"]
    <3>1. ASSUME NEW r \in CouObjs \cup {"subscription"}, CouWrite(r)
          PROVE  store'["webhook"] = store["webhook"]
      BY <1>0, <1>2, <3>1 DEF CouWrite, Abort, TypeOK
    <3>2. ASSUME NEW r \in WriteOnce \cup Drivers,
                 CreateConfigMap(r) \/ CreateCSIDriver(r)
          PROVE  store'["webhook"] = store["webhook"]
      BY <1>0, <3>2 DEF CreateConfigMap, CreateCSIDriver, TypeOK, WriteOnce,
         Drivers
    <3>3. QED
      BY <3>1, <3>2 DEF CtrlNext, Start, CouGet, LabelSubscription,
         GetConsoleDeployment, ResolveDeployCSI, InitializeSidecars,
         GetOperatorConfig, ApplyLabelsPanic, NginxNilMapPanic, Finish, Abort
  <2>2. QED
    BY <2>1
<1>3. QED
  BY <1>1, <1>2

(* The caBundle the service-CA operator injected into the webhook is     *)
(* never cleared by a step of the reconciler (mutateWebhook copying the  *)
(* bundle back, and the resourceVersion conflict of a stale Update).     *)
THEOREM CABundleKept == Spec => CABundleNeverCleared
<1>1. IInv => [CtrlNext => (store["webhook"].ca => store'["webhook"].ca)]_vars
  BY CtrlKeepsCA
<1>2. QED
  BY <1>1, IInvariant, PTL DEF CABundleNeverCleared
=============================================================================
