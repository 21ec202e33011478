---------------------- MODULE JaegerConvergenceProofs ----------------------
(***************************************************************************)
(* An operator of one pod, as its deployment runs it: phase Running means  *)
(* that the objects of the CR exist, and an empty work queue means that    *)
(* the CR and its objects agree (no lost wake-up).  Two pods break both: a *)
(* pod that read an older CR writes the objects after the other is done.   *)
(***************************************************************************)
EXTENDS JaegerVersionProofs

Alone == \E p : Pods = {p}

(* The kinds in the order of Stages before the first whose error is not    *)
(* returned; Reported is the set of these.                                 *)
Reports(n) == \A m \in 1..n : OnError[Stages[m]] = "fail"

(* The stages before n have been applied for the copy j.                   *)
UpTo(objects, n, j) ==
    \A i \in 1..Len(Stages) :
        i < n /\ Reports(i) => objects[Stages[i]] = Render(j)
AllDeployed(objects, j) == \A k \in Reported : objects[k] = Render(j)

(* A pod at work either saw the last write of the CR or has its request    *)
(* queued again; what it has applied so far is still there as long as the  *)
(* CR it read exists; and a CR that is not the one it read cannot be       *)
(* Running, since nobody else would have written that.                     *)
ConvergeOK(p) ==
    /\ pc[p] \in InReconcile /\ cr.uid # loc[p].orig.uid
          => cr.phase # "Running"
    /\ pc[p] = "certs" => loc[p].stage = 1
    /\ pc[p] = "stage" /\ cr.uid = loc[p].orig.uid
          => UpTo(res, loc[p].stage, loc[p].orig)
    /\ pc[p] \in {"store", "status"} /\ cr.uid = loc[p].orig.uid
          => AllDeployed(res, loc[p].orig)
    /\ pc[p] \in InReconcile /\ ~pending[p] => fresh[p] /\ cr = loc[p].orig
    /\ pc[p] \in {"sync", "adopt"} /\ fresh[p] => cr.phase = loc[p].orig.phase
    /\ pc[p] \in Applying => loc[p].inst.norm
    /\ pc[p] \in InReconcile \ {"status"}
          => loc[p].inst.phase = loc[p].orig.phase
    /\ pc[p] = "status" /\ ~pending[p]
          => loc[p].inst.phase = cr.phase /\ cr.norm
    /\ pc[p] = "idle" /\ ~pending[p] /\ Exists => Converged(Reported)
ConvergeInv == RunningMeansDeployed /\ \A p \in Pods : ConvergeOK(p)

-----------------------------------------------------------------------------
LEMMA Single ==
    ASSUME Alone, NEW p \in Pods
    PROVE  /\ \A q \in Pods : q = p
           /\ Identities = {Identity[p]}
  BY DEF Alone, Identities

(* What apply writes names the copy it was rendered from and is no absence.*)
LEMMA Rendered ==
    ASSUME IInv, NEW p \in Pods, pc[p] \in Holding
    PROVE  /\ Render(loc[p].orig) # Absent
           /\ Render(loc[p].orig).uid = loc[p].orig.uid
  <1>1. loc[p].orig \in CRs /\ loc[p].orig.uid # 0
    BY CopyTypes DEF IInv, CopyInv, CopyOK
  <1>2. /\ loc[p].orig.uid \in 1..MaxCreates /\ loc[p].orig.edit \in 0..MaxEdits
        /\ loc[p].orig.mig \in Migrations
    <2>1. /\ loc[p].orig.uid \in 0..MaxCreates
          /\ loc[p].orig.edit \in 0..MaxEdits
          /\ loc[p].orig.mig \in Migrations
      BY <1>1 DEF CRs
    <2>2. MaxCreates \in Nat
      BY ReconcileAssumption
    <2> QED BY <1>1, <2>1, <2>2
  <1>3. Render(loc[p].orig) \in Manifests
    BY <1>2 DEF Render, Manifests
  <1> QED BY <1>3, AbsentAssumption DEF Render

LEMMA DeployedAll ==
    ASSUME NEW objects, NEW j, UpTo(objects, Len(Stages) + 1, j)
    PROVE  AllDeployed(objects, j)
  <1> SUFFICES ASSUME NEW k \in Reported PROVE objects[k] = Render(j)
    BY DEF AllDeployed
  <1>1. PICK n \in 1..Len(Stages) : k = Stages[n] /\ Reports(n)
    BY DEF Reported, Reports
  <1>2. Len(Stages) \in Nat
    BY ReconcileAssumption
  <1> QED BY <1>1, <1>2 DEF UpTo

(* A stage whose error ends apply is not followed by a reported one.       *)
LEMMA DeployedUntilFinish ==
    ASSUME NEW objects, NEW j, NEW n \in 1..Len(Stages),
           UpTo(objects, n, j), OnError[Stages[n]] # "fail"
    PROVE  AllDeployed(objects, j)
  <1>1. Len(Stages) \in Nat
    BY ReconcileAssumption
  <1>2. \A i \in 1..Len(Stages) : Reports(i) => i < n
    BY <1>1 DEF Reports
  <1>3. UpTo(objects, Len(Stages) + 1, j)
    BY <1>1, <1>2 DEF UpTo
  <1> QED BY <1>3, DeployedAll

(* The pod of an operator is the only one: its part is all there is.       *)
LEMMA PodConverge ==
    ASSUME Alone, NEW p \in Pods, RunningMeansDeployed', ConvergeOK(p)'
    PROVE  ConvergeInv'
  BY Single DEF ConvergeInv

(* Nothing of the CR that RunningMeansDeployed reads has changed.          *)
LEMMA PhaseKept ==
    ASSUME RunningMeansDeployed, res' = res,
           cr'.phase = "Running" => cr.phase = "Running" /\ cr'.uid = cr.uid
    PROVE  RunningMeansDeployed'
  BY DEF RunningMeansDeployed

(* A pod that holds no copy and is not idle, or is idle with a request     *)
(* queued or no CR to work on, has nothing to show.                        *)
LEMMA RestConverge ==
    ASSUME NEW p \in Pods,
           \/ pc'[p] \in {"down", "startup"} \cup Upgrading
           \/ pc'[p] = "idle" /\ (pending'[p] \/ ~Exists')
    PROVE  ConvergeOK(p)'
  BY DEF ConvergeOK, InReconcile, Applying, Upgrading

-----------------------------------------------------------------------------
(* One lemma per action.                                                   *)

LEMMA LifeConverge ==
    ASSUME Alone, IInv, ConvergeInv, NEW p \in Pods, Crash(p) \/ Restart(p)
    PROVE  ConvergeInv'
  <1>1. UNCHANGED <<cr, res>> /\ pc'[p] \in {"down", "startup"}
    BY CrashStep, RestartStep
  <1>2. RunningMeansDeployed'
    BY <1>1, PhaseKept DEF ConvergeInv
  <1> QED BY <1>1, <1>2, RestConverge, PodConverge

LEMMA StartupConverge ==
    ASSUME Alone, IInv, ConvergeInv, NEW p \in Pods, ManagedInstances(p)
    PROVE  ConvergeInv'
  <1>1. cr \in CRs
    BY CopyTypes
  <1>2. /\ res' = res /\ cr'.uid = cr.uid /\ cr'.phase = cr.phase
        /\ \/ pc'[p] \in Upgrading
           \/ pc'[p] = "idle" /\ (pending'[p] \/ ~Exists')
    <2>1. CASE StartupList(p)
      BY <2>1, StartupListStep DEF Upgrading, Exists
    <2>2. CASE StartupPatch(p)
      BY <1>1, <2>2, StartupPatchStep DEF Upgrading, Exists, CRs
    <2>3. CASE StartupStatusPatch(p)
      BY <1>1, <2>3, StartupStatusPatchStep DEF Exists, CRs
    <2> QED BY <2>1, <2>2, <2>3 DEF ManagedInstances
  <1>3. RunningMeansDeployed'
    BY <1>2, PhaseKept DEF ConvergeInv
  <1> QED BY <1>2, <1>3, RestConverge, PodConverge

LEMMA ReconcileGetConverge ==
    ASSUME Alone, IInv, ConvergeInv, NEW p \in Pods, ReconcileGet(p)
    PROVE  ConvergeInv'
  <1>1. UNCHANGED <<cr, res>> /\ ConvergeOK(p) /\ pc[p] = "idle"
    BY ReconcileGetStep DEF ConvergeInv
  <1>2. RunningMeansDeployed'
    BY <1>1, PhaseKept DEF ConvergeInv
  <1>3. CASE /\ pc'[p] = "sync" /\ loc'[p].orig = cr /\ loc'[p].inst = cr
             /\ fresh'[p] /\ ~pending'[p]
    <2>1. ConvergeOK(p)'
      BY <1>1, <1>3 DEF ConvergeOK, InReconcile, Applying
    <2> QED BY <1>2, <2>1, PodConverge
  <1>4. CASE UNCHANGED <<pc, loc, fresh>> /\ (pending'[p] \/ ~Exists)
    BY <1>1, <1>2, <1>4, RestConverge, PodConverge DEF Exists
  <1> QED BY <1>3, <1>4, ReconcileGetStep

(* An instance of another operator would be left alone with an empty work  *)
(* queue; with a single pod there is no other operator.                    *)
LEMMA ReconcileCheckConverge ==
    ASSUME Alone, IInv, ConvergeInv, NEW p \in Pods, ReconcileCheck(p)
    PROVE  ConvergeInv'
  <1>1. /\ UNCHANGED <<cr, res, fresh>> /\ ConvergeOK(p) /\ pc[p] = "sync"
        /\ loc[p].orig \in CRs /\ loc[p].inst \in CRs
    BY ReconcileCheckStep, CopyTypes DEF ConvergeInv
  <1>2. RunningMeansDeployed'
    BY <1>1, PhaseKept DEF ConvergeInv
  <1>3. CASE /\ pc'[p] = "idle"
             /\ \/ pending'[p]
                \/ loc[p].orig.owner \notin {NoOwner, Identity[p]}
    <2>1. loc[p].orig.owner \in {NoOwner, Identity[p]}
      BY <1>1, Single DEF CRs
    <2> QED BY <1>2, <1>3, <2>1, RestConverge, PodConverge
  <1>4. CASE pc'[p] = "adopt" /\ UNCHANGED <<loc, pending>>
    <2>1. ConvergeOK(p)'
      BY <1>1, <1>4 DEF ConvergeOK, InReconcile, Applying
    <2> QED BY <1>2, <2>1, PodConverge
  <1>5. CASE /\ pc'[p] = "upgrade" /\ pending' = pending
             /\ loc'[p].orig = loc[p].orig
             /\ loc'[p].inst = [loc[p].inst EXCEPT !.norm = TRUE]
    <2>1. loc'[p].inst.norm /\ loc'[p].inst.phase = loc[p].inst.phase
      BY <1>1, <1>5 DEF CRs
    <2>2. ConvergeOK(p)'
      BY <1>1, <1>5, <2>1 DEF ConvergeOK, InReconcile, Applying
    <2> QED BY <1>2, <2>2, PodConverge
  <1> QED BY <1>3, <1>4, <1>5, ReconcileCheckStep

(* The label that is set is a change: the event of the write brings the    *)
(* pod back.                                                               *)
LEMMA AdoptConverge ==
    ASSUME Alone, IInv, ConvergeInv, NEW p \in Pods, ReconcileAdopt(p)
    PROVE  ConvergeInv'
  <1>1. /\ res' = res /\ ConvergeOK(p) /\ pc[p] = "adopt"
        /\ loc[p].inst \in CRs
    BY AdoptStep, CopyTypes DEF ConvergeInv
  <1>2. CASE /\ fresh[p] /\ pc'[p] = "idle"
             /\ cr' = [loc[p].inst EXCEPT !.owner = Identity[p]]
             /\ pending'[p] \/ cr' = cr
    <2>1. /\ cr'.owner = Identity[p] /\ cr'.phase = loc[p].inst.phase
          /\ cr'.uid = loc[p].inst.uid
      BY <1>1, <1>2 DEF CRs
    <2>2. /\ cr.owner = NoOwner /\ cr'.uid = cr.uid /\ cr'.phase = cr.phase
      BY <1>1, <1>2, <2>1 DEF ConvergeOK, IInv, FreshInv, FreshOK, CopyInv,
         CopyOK, InReconcile
    <2>3. pending'[p]
      BY <1>2, <2>1, <2>2, ReconcileAssumption DEF Identities
    <2>4. RunningMeansDeployed'
      BY <1>1, <2>2, PhaseKept DEF ConvergeInv
    <2> QED BY <1>2, <2>3, <2>4, RestConverge, PodConverge
  <1>3. CASE pc'[p] = "adoptFailed" /\ UNCHANGED <<cr, fresh, pending, loc>>
    <2>1. RunningMeansDeployed'
      BY <1>1, <1>3, PhaseKept DEF ConvergeInv
    <2>2. ConvergeOK(p)'
      BY <1>1, <1>3 DEF ConvergeOK, InReconcile, Applying
    <2> QED BY <2>1, <2>2, PodConverge
  <1> QED BY <1>2, <1>3, AdoptStep

(* A failure that is stored is also returned: the request is queued again. *)
LEMMA FailedConverge ==
    ASSUME Alone, IInv, ConvergeInv, NEW p \in Pods,
           ReconcileAdoptFailed(p) \/ StoreFailed(p)
    PROVE  ConvergeInv'
  <1>1. /\ res' = res /\ pc'[p] = "idle" /\ pending'[p]
        /\ \/ cr' = cr
           \/ \E v : cr' = WithStatus(v, "Failed")
    BY AdoptFailedStep, StoreFailedStep
  <1>2. cr' = cr \/ cr'.phase = "Failed"
    BY <1>1, CopyTypes DEF WithStatus, CRs
  <1>3. RunningMeansDeployed'
    BY <1>1, <1>2, PhaseKept DEF ConvergeInv
  <1> QED BY <1>1, <1>3, RestConverge, PodConverge

LEMMA ApplyUpgradeConverge ==
    ASSUME Alone, IInv, ConvergeInv, NEW p \in Pods, ApplyUpgrade(p)
    PROVE  ConvergeInv'
  <1>1. /\ UNCHANGED <<cr, res, fresh, pending>> /\ ConvergeOK(p)
        /\ pc[p] = "upgrade" /\ loc[p].inst \in CRs
    BY ApplyUpgradeStep, CopyTypes DEF ConvergeInv
  <1>2. RunningMeansDeployed'
    BY <1>1, PhaseKept DEF ConvergeInv
  <1>3. /\ loc'[p].orig = loc[p].orig
        /\ loc'[p].inst.norm = loc[p].inst.norm
        /\ loc'[p].inst.phase = loc[p].inst.phase
        /\ \/ pc'[p] \in {"certs", "stage"} /\ loc'[p].stage = 1
           \/ pc'[p] = "failed"
    BY <1>1, ApplyUpgradeStep DEF CRs
  <1>4. \A j : UpTo(res', 1, j)
    BY DEF UpTo
  <1>5. ConvergeOK(p)'
    BY <1>1, <1>3, <1>4 DEF ConvergeOK, InReconcile, Applying
  <1> QED BY <1>2, <1>5, PodConverge

LEMMA ApplyCertsConverge ==
    ASSUME Alone, IInv, ConvergeInv, NEW p \in Pods, ApplyCerts(p)
    PROVE  ConvergeInv'
  <1>1. /\ UNCHANGED <<cr, res, fresh, pending, loc>> /\ ConvergeOK(p)
        /\ pc[p] = "certs" /\ pc'[p] \in {"stage", "certsFailed", "failed"}
    BY ApplyCertsStep DEF ConvergeInv
  <1>2. RunningMeansDeployed'
    BY <1>1, PhaseKept DEF ConvergeInv
  <1>3. \A j : UpTo(res', 1, j)
    BY DEF UpTo
  <1>4. ConvergeOK(p)'
    BY <1>1, <1>3 DEF ConvergeOK, InReconcile, Applying
  <1> QED BY <1>2, <1>4, PodConverge

LEMMA ApplyCertsFailedConverge ==
    ASSUME Alone, IInv, ConvergeInv, NEW p \in Pods, ApplyCertsFailed(p)
    PROVE  ConvergeInv'
  <1>1. /\ UNCHANGED <<res, loc>> /\ ConvergeOK(p)
        /\ pc[p] = "certsFailed" /\ pc'[p] = "failed"
    BY ApplyCertsFailedStep DEF ConvergeInv
  <1>2. CASE UNCHANGED <<cr, fresh, pending>>
    <2>1. RunningMeansDeployed'
      BY <1>1, <1>2, PhaseKept DEF ConvergeInv
    <2>2. ConvergeOK(p)'
      BY <1>1, <1>2 DEF ConvergeOK, InReconcile, Applying
    <2> QED BY <2>1, <2>2, PodConverge
  <1>3. CASE /\ cr' = WithStatus(loc[p].inst.ver, "Failed")
             /\ ~pending'[p] => ~pending[p] /\ cr' = cr
             /\ cr' = cr => fresh'[p]
    <2>1. cr'.phase = "Failed"
      BY <1>3, CopyTypes DEF WithStatus, CRs
    <2>2. RunningMeansDeployed'
      BY <2>1 DEF RunningMeansDeployed
    <2>3. ConvergeOK(p)'
      BY <1>1, <1>3, <2>1 DEF ConvergeOK, InReconcile, Applying
    <2> QED BY <2>2, <2>3, PodConverge
  <1> QED BY <1>2, <1>3, ApplyCertsFailedStep

(* A stage writes the objects of the CR the pod read: when that is the     *)
(* stored one they are its own, when not the stored one is not Running.    *)
LEMMA ApplyStageConverge ==
    ASSUME Alone, IInv, ConvergeInv, NEW p \in Pods, ApplyStage(p)
    PROVE  ConvergeInv'
  <1> DEFINE i == loc[p].stage
             k == Stages[i]
             rendered == Render(loc[p].orig)
  <1>1. /\ UNCHANGED <<cr, fresh, pending>> /\ ConvergeOK(p)
        /\ pc[p] = "stage" /\ i \in 1..Len(Stages)
        /\ loc'[p].orig = loc[p].orig /\ loc'[p].inst = loc[p].inst
        /\ Len(Stages) \in Nat
    BY ApplyStageStep, ReconcileAssumption DEF ConvergeInv
  <1>2. res \in [Kinds -> Manifests \cup {Absent}] /\ k \in Kinds
    <2>1. k \in Kinds
      BY <1>1, Zenon DEF Kinds
    <2> QED BY <2>1 DEF IInv, TypeOK
  <1>3. /\ rendered # Absent /\ rendered.uid = loc[p].orig.uid
    BY <1>1, Rendered DEF Holding, InReconcile, Applying
  <1>4. \/ res' = [res EXCEPT ![k] = rendered]
        \/ res' = res
    BY ApplyStageStep
  <1>5. RunningMeansDeployed'
    <2> SUFFICES ASSUME cr'.phase = "Running", NEW h \in Reported
                 PROVE  res'[h] # Absent /\ res'[h].uid = cr'.uid
      BY DEF RunningMeansDeployed
    <2>1. cr.uid = loc[p].orig.uid
      BY <1>1 DEF ConvergeOK, InReconcile, Applying
    <2>2. res[h] # Absent /\ res[h].uid = cr.uid
      BY <1>1 DEF ConvergeInv, RunningMeansDeployed
    <2>3. res'[h] \in {rendered, res[h]}
      <3>1. h \in Kinds
        BY DEF Reported, Kinds
      <3> HIDE DEF rendered, k
      <3> QED BY <1>2, <1>4, <3>1
    <2> QED BY <1>1, <1>3, <2>1, <2>2, <2>3
  <1>6. cr.uid = loc[p].orig.uid => UpTo(res, i, loc[p].orig)
    BY <1>1 DEF ConvergeOK
  <1>7. ASSUME NEW n \in Int, UpTo(res, n, loc[p].orig)
        PROVE  UpTo(res', n, loc[p].orig)
    <2> SUFFICES ASSUME NEW m \in 1..Len(Stages), m < n, Reports(m)
                 PROVE  res'[Stages[m]] = rendered
      BY DEF UpTo
    <2>1. Stages[m] \in Kinds /\ res[Stages[m]] = rendered
      BY <1>7 DEF UpTo, Kinds
    <2> HIDE DEF rendered, k
    <2> QED BY <1>2, <1>4, <2>1
  <1>8. ASSUME res' = [res EXCEPT ![k] = rendered] \/ OnError[k] = "log",
               cr.uid = loc[p].orig.uid
        PROVE  UpTo(res', i + 1, loc[p].orig)
    <2> SUFFICES ASSUME NEW m \in 1..Len(Stages), m < i + 1, Reports(m)
                 PROVE  res'[Stages[m]] = rendered
      BY DEF UpTo
    <2>1. CASE m < i
      <3>1. UpTo(res', i, loc[p].orig)
        BY <1>1, <1>6, <1>7, <1>8
      <3> QED BY <2>1, <3>1 DEF UpTo
    <2>2. CASE m = i
      <3>1. OnError[k] = "fail"
        BY <1>1, <2>2 DEF Reports
      <3>2. res' = [res EXCEPT ![k] = rendered]
        BY <1>8, <3>1
      <3> HIDE DEF rendered
      <3> QED BY <1>2, <2>2, <3>2
    <2> QED BY <1>1, <2>1, <2>2
  <1>9. CASE /\ loc'[p].stage = i + 1
             /\ pc'[p] = IF i = Len(Stages) THEN "store" ELSE "stage"
             /\ res' = [res EXCEPT ![k] = rendered] \/ OnError[k] = "log"
    <2>1. cr.uid = loc[p].orig.uid => UpTo(res', i + 1, loc[p].orig)
      BY <1>8, <1>9
    <2>2. CASE i = Len(Stages)
      <3>1. cr.uid = loc[p].orig.uid => AllDeployed(res', loc[p].orig)
        BY <2>1, <2>2, <1>1, DeployedAll
      <3>2. ConvergeOK(p)'
        BY <1>1, <1>9, <2>2, <3>1 DEF ConvergeOK, InReconcile, Applying
      <3> QED BY <1>5, <3>2, PodConverge
    <2>3. CASE i # Len(Stages)
      <3>1. ConvergeOK(p)'
        BY <1>1, <1>9, <2>1, <2>3 DEF ConvergeOK, InReconcile, Applying
      <3> QED BY <1>5, <3>1, PodConverge
    <2> QED BY <2>2, <2>3
  <1>10. CASE pc'[p] = "failed"
    <2>1. ConvergeOK(p)'
      BY <1>1, <1>10 DEF ConvergeOK, InReconcile, Applying
    <2> QED BY <1>5, <2>1, PodConverge
  <1>11. CASE pc'[p] = "store" /\ OnError[k] = "finish"
    <2>1. cr.uid = loc[p].orig.uid => UpTo(res', i, loc[p].orig)
      BY <1>1, <1>6, <1>7
    <2>2. cr.uid = loc[p].orig.uid => AllDeployed(res', loc[p].orig)
      BY <1>1, <1>11, <2>1, DeployedUntilFinish
    <2>3. ConvergeOK(p)'
      BY <1>1, <1>11, <2>2 DEF ConvergeOK, InReconcile, Applying
    <2> QED BY <1>5, <2>3, PodConverge
  <1> QED BY <1>9, <1>10, <1>11, ApplyStageStep

(* Storing the copy changes neither the phase nor the uid; when the write  *)
(* changes anything its event queues the request again.                    *)
LEMMA StoreInstanceConverge ==
    ASSUME Alone, IInv, ConvergeInv, NEW p \in Pods, StoreInstance(p)
    PROVE  ConvergeInv'
  <1>1. /\ res' = res /\ ConvergeOK(p) /\ pc[p] = "store"
        /\ loc[p].inst \in CRs
    BY StoreInstanceStep, CopyTypes DEF ConvergeInv
  <1>2. CASE /\ loc[p].inst = loc[p].orig /\ pc'[p] = "status"
             /\ UNCHANGED <<cr, fresh, pending, loc>>
    <2>1. RunningMeansDeployed'
      BY <1>1, <1>2, PhaseKept DEF ConvergeInv
    <2>2. ConvergeOK(p)'
      BY <1>1, <1>2 DEF ConvergeOK, InReconcile, Applying
    <2> QED BY <2>1, <2>2, PodConverge
  <1>3. CASE /\ pc'[p] = "status" /\ fresh[p] /\ fresh'[p]
             /\ cr' = [loc[p].inst EXCEPT !.ver = cr.ver, !.phase = cr.phase]
             /\ loc'[p].orig = loc[p].orig
             /\ loc'[p].inst = [loc[p].inst EXCEPT !.phase = cr.phase]
             /\ ~pending'[p] => ~pending[p] /\ cr' = cr
    <2>1. /\ cr'.uid = loc[p].inst.uid /\ cr'.phase = cr.phase
          /\ cr'.norm = loc[p].inst.norm
          /\ loc'[p].inst.phase = cr.phase
          /\ loc'[p].inst.norm = loc[p].inst.norm
      BY <1>1, <1>3 DEF CRs
    <2>2. cr'.uid = cr.uid /\ cr.uid = loc[p].orig.uid
      BY <1>1, <1>3, <2>1 DEF IInv, FreshInv, FreshOK, CopyInv, CopyOK,
         InReconcile, Applying
    <2>3. RunningMeansDeployed'
      BY <1>1, <2>1, <2>2, PhaseKept DEF ConvergeInv
    <2>4. ConvergeOK(p)'
      BY <1>1, <1>3, <2>1, <2>2 DEF ConvergeOK, InReconcile, Applying
    <2> QED BY <2>3, <2>4, PodConverge
  <1>4. CASE pc'[p] = "idle" /\ cr' = cr /\ pending'[p]
    <2>1. RunningMeansDeployed'
      BY <1>1, <1>4, PhaseKept DEF ConvergeInv
    <2> QED BY <1>4, <2>1, RestConverge, PodConverge
  <1> QED BY <1>2, <1>3, <1>4, StoreInstanceStep

(* The end of a reconciliation: Running is written over the CR whose       *)
(* objects were applied, and the pod rests only when it changed nothing.   *)
LEMMA StoreStatusConverge ==
    ASSUME Alone, IInv, ConvergeInv, NEW p \in Pods, StoreStatus(p)
    PROVE  ConvergeInv'
  <1> DEFINE recorded == /\ loc[p].inst.ver = loc[p].orig.ver
                         /\ loc[p].inst.phase = "Running"
  <1>1. /\ res' = res /\ ConvergeOK(p) /\ pc[p] = "status" /\ pc'[p] = "idle"
        /\ cr \in CRs
    BY StoreStatusStep, CopyTypes DEF ConvergeInv
  <1>2. /\ loc[p].orig.owner = Identity[p] /\ Identity[p] # NoOwner
        /\ fresh[p] => cr.uid = loc[p].orig.uid
        /\ Render(loc[p].orig) # Absent
        /\ Render(loc[p].orig).uid = loc[p].orig.uid
    BY <1>1, ReconcileAssumption, Rendered DEF IInv, CopyInv, CopyOK, FreshInv,
       FreshOK, Holding, InReconcile, Applying, Identities
  <1>3. CASE recorded /\ cr' = cr /\ pending' = pending
    <2>1. RunningMeansDeployed'
      BY <1>1, <1>3, PhaseKept DEF ConvergeInv
    <2>2. ASSUME ~pending[p]
          PROVE  Converged(Reported)
      <3>1. /\ cr = loc[p].orig /\ cr.norm /\ cr.phase = "Running"
            /\ AllDeployed(res, loc[p].orig)
        BY <1>1, <1>3, <2>2 DEF ConvergeOK, InReconcile, Applying
      <3> QED BY <1>2, <3>1 DEF Converged, AllDeployed
    <2>3. ~pending'[p] => Converged(Reported)'
      BY <1>1, <1>3, <2>2 DEF Converged
    <2>4. ConvergeOK(p)'
      BY <1>1, <2>3 DEF ConvergeOK, InReconcile, Applying
    <2> QED BY <2>1, <2>4, PodConverge
  <1>4. CASE /\ ~recorded /\ fresh[p]
             /\ cr' = WithStatus(loc[p].inst.ver, "Running")
             /\ ~pending'[p] => ~pending[p] /\ cr' = cr
    <2>1. /\ cr'.uid = cr.uid /\ cr'.ver = loc[p].inst.ver
          /\ cr'.phase = "Running"
      BY <1>1, <1>4 DEF WithStatus, CRs
    <2>2. AllDeployed(res, loc[p].orig) /\ cr.uid = loc[p].orig.uid
      BY <1>1, <1>2, <1>4 DEF ConvergeOK
    <2>3. RunningMeansDeployed'
      BY <1>1, <1>2, <2>1, <2>2 DEF RunningMeansDeployed, AllDeployed
    <2>4. pending'[p]
      <3> SUFFICES ASSUME ~pending'[p] PROVE FALSE
        OBVIOUS
      <3>1. cr = loc[p].orig /\ loc[p].inst.phase = cr.phase /\ cr' = cr
        BY <1>1, <1>4 DEF ConvergeOK, InReconcile, Applying
      <3> QED BY <1>4, <2>1, <3>1
    <2> QED BY <1>1, <2>3, <2>4, RestConverge, PodConverge
  <1>5. CASE cr' = cr /\ pending'[p]
    <2>1. RunningMeansDeployed'
      BY <1>1, <1>5, PhaseKept DEF ConvergeInv
    <2> QED BY <1>1, <1>5, <2>1, RestConverge, PodConverge
  <1> QED BY <1>3, <1>4, <1>5, StoreStatusStep

(* What is collected belongs to a CR that is gone.                         *)
LEMMA GarbageConverge ==
    ASSUME IInv, ConvergeInv, NEW k \in Kinds, GarbageCollect(k)
    PROVE  ConvergeInv'
  <1>1. /\ UNCHANGED <<cr, pc, pending, fresh, loc>>
        /\ \A h \in Kinds : res'[h] # res[h] => res[h].uid # cr.uid
        /\ \A h \in Kinds : res[h].uid = cr.uid => res'[h] = res[h]
    BY DEF GarbageCollect, IInv, TypeOK
  <1>2. Reported \subseteq Kinds
    BY DEF Reported, Kinds
  <1>3. RunningMeansDeployed'
    BY <1>1, <1>2 DEF ConvergeInv, RunningMeansDeployed
  <1>4. ASSUME NEW p \in Pods
        PROVE  ConvergeOK(p)'
    <2>1. ConvergeOK(p)
      BY DEF ConvergeInv
    <2>2. ASSUME pc[p] \in {"stage", "store", "status"},
                 cr.uid = loc[p].orig.uid
          PROVE  \A h \in Kinds : res[h] = Render(loc[p].orig)
                                    => res'[h] = Render(loc[p].orig)
      <3>1. Render(loc[p].orig).uid = cr.uid
        BY <2>2, Rendered DEF Holding, InReconcile, Applying
      <3> QED BY <1>1, <3>1
    <2>3. pc[p] = "stage" /\ cr.uid = loc[p].orig.uid
            => UpTo(res', loc[p].stage, loc[p].orig)
      BY <2>1, <2>2 DEF ConvergeOK, UpTo, Kinds
    <2>4. pc[p] \in {"store", "status"} /\ cr.uid = loc[p].orig.uid
            => AllDeployed(res', loc[p].orig)
      BY <1>2, <2>1, <2>2 DEF ConvergeOK, AllDeployed
    <2>5. Converged(Reported) => Converged(Reported)'
      <3>1. Render(cr).uid = cr.uid
        BY DEF Render
      <3> QED BY <1>1, <1>2, <3>1 DEF Converged
    <2> QED BY <1>1, <2>1, <2>3, <2>4, <2>5 DEF ConvergeOK, Exists
  <1> QED BY <1>3, <1>4 DEF ConvergeInv

(* Every write of the user changes the CR, so a watching pod is woken; a   *)
(* new CR has a uid that no copy has, and no phase.                        *)
LEMMA UserConverge ==
    ASSUME IInv, ConvergeInv, User
    PROVE  ConvergeInv'
  <1>1. /\ cr \in CRs /\ cr.uid \in Nat /\ cr.edit \in Nat
        /\ creates \in Nat /\ edits \in Nat
        /\ cr.uid <= creates /\ cr.edit <= edits
    <2>1. /\ cr \in CRs /\ creates \in 0..MaxCreates /\ edits \in 0..MaxEdits
          /\ cr.uid <= creates /\ cr.edit <= edits
      BY DEF IInv, TypeOK, NumbersInv
    <2>2. cr.uid \in 0..MaxCreates /\ cr.edit \in 0..MaxEdits
      BY <2>1 DEF CRs
    <2> QED BY <2>1, <2>2
  <1>2. /\ UNCHANGED <<res, pc, loc>> /\ cr' # cr /\ Write(cr', {}, {})
        /\ \/ cr'.phase = "" /\ cr'.uid \in {0, creates + 1}
           \/ cr'.phase = cr.phase /\ cr'.uid = cr.uid
    <2>1. CASE UserCreate
      <3>1. cr'.uid = creates + 1 /\ cr'.phase = ""
        BY <2>1 DEF UserCreate, Write, NoCR
      <3>2. creates + 1 # cr.uid
        BY <1>1
      <3>3. cr' # cr
        BY <3>1, <3>2
      <3> QED BY <2>1, <3>1, <3>3 DEF UserCreate, Write
    <2>2. CASE UserEdit
      <3>1. cr'.uid = cr.uid /\ cr'.phase = cr.phase /\ cr'.edit = edits + 1
        BY <1>1, <2>2 DEF UserEdit, Write, CRs
      <3>2. cr' # cr
        BY <1>1, <3>1
      <3> QED BY <2>2, <3>1, <3>2 DEF UserEdit, Write
    <2>3. CASE UserDelete
      <3>1. cr'.uid = 0 /\ cr'.phase = ""
        BY <2>3 DEF UserDelete, Write, NoCR
      <3>2. cr' # cr
        BY <2>3, <3>1 DEF UserDelete, Exists
      <3> QED BY <2>3, <3>1, <3>2 DEF UserDelete, Write
    <2> QED BY <2>1, <2>2, <2>3 DEF User
  <1>3. RunningMeansDeployed'
    BY <1>2, PhaseKept DEF ConvergeInv
  <1>4. ASSUME NEW p \in Pods
        PROVE  ConvergeOK(p)'
    <2>1. /\ ConvergeOK(p) /\ loc[p].orig.uid <= creates
          /\ loc[p].orig.uid \in Nat
          /\ pc[p] \in Holding => loc[p].orig.uid # 0
      <3>1. loc[p].orig.uid \in 0..MaxCreates
        BY CopyTypes DEF CRs
      <3> QED BY <3>1 DEF ConvergeInv, IInv, CopyInv, CopyOK
    <2>2. ~fresh'[p] /\ (Watching(p) => pending'[p])
      BY <1>2 DEF Write, IInv, TypeOK
    <2>3. pc[p] \in InReconcile \cup {"idle"} => Watching(p)
      BY DEF Watching, InReconcile, Applying, Upgrading
    <2>4. pc[p] \in InReconcile
            => \/ cr'.uid = cr.uid /\ cr'.phase = cr.phase
               \/ cr'.uid # loc[p].orig.uid /\ cr'.phase = ""
      <3>1. creates + 1 # loc[p].orig.uid
        BY <1>1, <2>1
      <3> QED BY <1>2, <2>1, <3>1 DEF Holding
    <2> QED BY <1>2, <2>1, <2>2, <2>3, <2>4 DEF ConvergeOK, InReconcile,
            Applying
  <1> QED BY <1>3, <1>4 DEF ConvergeInv

LEMMA InitConverge ==
    ASSUME Init
    PROVE  ConvergeInv
  <1>1. RunningMeansDeployed
    <2>1. CASE cr = NoCR
      BY <2>1 DEF NoCR, RunningMeansDeployed
    <2>2. CASE /\ res = [k \in Kinds |-> Render(cr)]
               /\ \E o \in Identities, v \in Binaries :
                    /\ MaxCreates > 0
                    /\ cr = [uid |-> 1, owner |-> o, edit |-> 0, norm |-> TRUE,
                             mig |-> FormatOf(v), ver |-> v,
                             phase |-> "Running"]
      <3> PICK o \in Identities, v \in Binaries :
                    /\ MaxCreates > 0
                    /\ cr = [uid |-> 1, owner |-> o, edit |-> 0, norm |-> TRUE,
                             mig |-> FormatOf(v), ver |-> v,
                             phase |-> "Running"]
        BY <2>2
      <3>1. /\ 1 \in 1..MaxCreates /\ 0 \in 0..MaxEdits
            /\ FormatOf(v) \in Migrations
        BY ReconcileAssumption, FormatType DEF Versions
      <3>2. Render(cr) \in Manifests /\ Render(cr).uid = cr.uid
        BY <3>1 DEF Render, Manifests
      <3>3. Reported \subseteq Kinds
        BY DEF Reported, Kinds
      <3> QED BY <2>2, <3>2, <3>3, AbsentAssumption DEF RunningMeansDeployed
    <2> QED BY <2>1, <2>2 DEF Init
  <1>2. ASSUME NEW p \in Pods
        PROVE  ConvergeOK(p)
    BY DEF Init, ConvergeOK, InReconcile, Applying
  <1> QED BY <1>1, <1>2 DEF ConvergeInv

-----------------------------------------------------------------------------
LEMMA NextConverge ==
    ASSUME Alone, IInv, ConvergeInv, [Next]_vars
    PROVE  ConvergeInv'
  <1>1. CASE User
    BY <1>1, UserConverge
  <1>2. ASSUME NEW k \in Kinds, GarbageCollect(k) PROVE ConvergeInv'
    BY <1>2, GarbageConverge
  <1>3. ASSUME NEW p \in Pods, Crash(p) \/ Restart(p) PROVE ConvergeInv'
    BY <1>3, LifeConverge
  <1>4. ASSUME NEW p \in Pods, ManagedInstances(p) PROVE ConvergeInv'
    BY <1>4, StartupConverge
  <1>5. ASSUME NEW p \in Pods, Reconcile(p) PROVE ConvergeInv'
    BY <1>5, ReconcileGetConverge, ReconcileCheckConverge, AdoptConverge,
       FailedConverge, ApplyUpgradeConverge, ApplyCertsConverge,
       ApplyCertsFailedConverge, ApplyStageConverge, StoreInstanceConverge,
       StoreStatusConverge
    DEF Reconcile
  <1>6. CASE UNCHANGED vars
    BY <1>6 DEF vars, ConvergeInv, ConvergeOK, RunningMeansDeployed, Converged,
       Exists
  <1> QED BY <1>1, <1>2, <1>3, <1>4, <1>5, <1>6 DEF Next

LEMMA ConvergeInvariance ==
    ASSUME Alone
    PROVE  Spec => []ConvergeInv
  <1>1. Init => ConvergeInv
    BY InitConverge
  <1>2. IInv /\ ConvergeInv /\ [Next]_vars => ConvergeInv'
    BY NextConverge
  <1> QED BY <1>1, <1>2, Invariance, PTL DEF Spec

(* Phase Running is only ever shown over objects of this very CR, for any  *)
(* stages and error policies, through crashes, failed calls, deletions and *)
(* re-creations of the CR while a pass is under way.                       *)
THEOREM RunningMeansDeployedHolds ==
    ASSUME Alone
    PROVE  Spec => []RunningMeansDeployed
  <1>1. ConvergeInv => RunningMeansDeployed
    BY DEF ConvergeInv
  <1> QED BY <1>1, ConvergeInvariance, PTL

(* No wake-up is lost: an idle pod with an empty work queue leaves a CR    *)
(* that is labelled, normalised and Running, with the objects its content  *)
(* asks for.  Every edit that a pass did not see has queued another pass,  *)
(* and so has every write of the pass itself that changed the CR.          *)
THEOREM QuietMeansConvergedHolds ==
    ASSUME Alone
    PROVE  Spec => []QuietMeansConverged
  <1>1. ConvergeInv => QuietMeansConverged
    <2>1. PICK p : Pods = {p}
      BY DEF Alone
    <2> QED BY <2>1 DEF ConvergeInv, ConvergeOK, QuietMeansConverged, Quiet
  <1> QED BY <1>1, ConvergeInvariance, PTL
=============================================================================
