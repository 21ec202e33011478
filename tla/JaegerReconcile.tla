-------------------------- MODULE JaegerReconcile --------------------------
(***************************************************************************)
(* The reconciliation of one Jaeger custom resource (CR) by the pods of    *)
(* one or more operators: pkg/controller/jaeger/jaeger_controller.go, the  *)
(* upgrade at start-up (pkg/upgrade/upgrade.go, called by bootstrap) and   *)
(* the calls to the Kubernetes API they are made of.                       *)
(*                                                                         *)
(* Every call to the API server is a step of its own: between two of them  *)
(* the user may edit, delete or create the CR, another pod may write it,   *)
(* the call may fail, and the pod may crash.  The stages of apply (secrets,*)
(* config maps, deployments...) are the entries of Stages; what a stage    *)
(* does to the objects of its kind is the subject of ApplyResources.       *)
(***************************************************************************)
EXTENDS Upgrade, Sequences

CONSTANTS
    Pods,          \* operator processes
    Identity,      \* Pods -> identities: "<pod namespace>.<OPERATOR_NAME>"
    NoOwner,       \* the operated-by label is absent
    Absent,        \* no object of a kind exists in the cluster
    Stages,        \* the kinds in the order apply goes through them
    OnError,       \* kind -> "fail" | "log" | "finish": what its error does
    NeedsCerts,    \* self-provisioned Elasticsearch without cert management
    BadEdits,      \* the edits of the user whose readTTL does not parse
    Binaries,      \* the versions of the operator binaries that may be started
    MaxEdits, MaxCreates, MaxFaults, MaxRestarts  \* bounds of the model

Kinds == {Stages[i] : i \in 1..Len(Stages)}
Identities == {Identity[p] : p \in Pods}

ASSUME ReconcileAssumption ==
    /\ Identity \in [Pods -> Identities]
    /\ NoOwner \notin Identities
    /\ Stages \in Seq(Kinds) /\ Stages # <<>>
    /\ OnError \in [Kinds -> {"fail", "log", "finish"}]
    /\ NeedsCerts \in BOOLEAN
    /\ Binaries \subseteq Versions
    /\ MaxEdits \in Nat /\ MaxCreates \in Nat
    /\ MaxFaults \in Nat /\ MaxRestarts \in Nat
    /\ BadEdits \subseteq 0..MaxEdits

VARIABLES
    cr,        \* the stored CR; uid 0 when there is none
    res,       \* kind -> what the objects of that kind were rendered from
    pc,        \* pod -> the step it is at
    bin,       \* pod -> the version of its binary
    pending,   \* pod -> its work queue holds the request for this CR
    fresh,     \* pod -> no write of the CR since the pod read or wrote it
    loc,       \* pod -> the local variables of Reconcile / ManagedInstances
    edits, creates, faults, restarts   \* how much of the bounds is used

vars == <<cr, res, pc, bin, pending, fresh, loc,
          edits, creates, faults, restarts>>
bounds == <<edits, creates, faults, restarts>>

-----------------------------------------------------------------------------
(* The stored CR.  edit stands for the content the user gave it, norm says *)
(* that the strategy's normalisation has been stored, mig is the format of *)
(* its flags, owner the operated-by label.                                 *)
CRs == [uid : 0..MaxCreates, owner : Identities \cup {NoOwner},
        edit : 0..MaxEdits, norm : BOOLEAN, mig : Migrations,
        ver : 0..MaxVersion, phase : {"", "Running", "Failed"}]

NoCR == [uid |-> 0, owner |-> NoOwner, edit |-> 0, norm |-> FALSE,
         mig |-> FormatOf(0), ver |-> 0, phase |-> ""]

Exists == cr.uid # 0

(* What the strategy renders the objects of an instance from; their owner  *)
(* reference carries its uid.                                              *)
Render(j) == [uid |-> j.uid, edit |-> j.edit, mig |-> j.mig]
Manifests == [uid : 1..MaxCreates, edit : 0..MaxEdits, mig : Migrations]

ASSUME AbsentAssumption == Absent \notin Manifests

Locals == [orig : CRs, inst : CRs, stage : 0..(Len(Stages) + 1),
           rver : 0..MaxVersion]
NoLocals == [orig |-> NoCR, inst |-> NoCR, stage |-> 0, rver |-> 0]

Steady == {"idle", "down", "startup"}
Applying == {"upgrade", "certs", "certsFailed", "stage", "failed",
             "store", "status"}
Upgrading == {"patch", "statusPatch"}
PCs == Steady \cup Applying \cup Upgrading
         \cup {"sync", "adopt", "adoptFailed"}

Init ==
    /\ \/ /\ cr = NoCR
          /\ res = [k \in Kinds |-> Absent]
          /\ creates = 0
       \/ \E o \in Identities, v \in Binaries :
            /\ MaxCreates > 0
            /\ cr = [uid |-> 1, owner |-> o, edit |-> 0, norm |-> TRUE,
                     mig |-> FormatOf(v), ver |-> v, phase |-> "Running"]
            /\ res = [k \in Kinds |-> Render(cr)]
            /\ creates = 1
    /\ pc = [p \in Pods |-> "startup"]
    /\ bin \in [Pods -> Binaries]
    /\ pending = [p \in Pods |-> FALSE]
    /\ fresh = [p \in Pods |-> FALSE]
    /\ loc = [p \in Pods |-> NoLocals]
    /\ edits = 0
    /\ faults = 0
    /\ restarts = 0

-----------------------------------------------------------------------------
(* The Kubernetes API, as the operator sees it.                            *)

(* The pods whose informer runs.                                           *)
Watching(p) == pc[p] \notin {"down", "startup"} \cup Upgrading

(* The server replaces the CR by new.  A write that changes nothing keeps  *)
(* the resource version and sends no watch event; any other makes every    *)
(* copy but the writers' stale and queues a request in every watching pod. *)
(* again are the pods that queue the request whatever happened.            *)
Write(new, writers, again) ==
    /\ cr' = new
    /\ fresh' = [q \in Pods |-> q \in writers \/ (fresh[q] /\ new = cr)]
    /\ pending' = [q \in Pods |-> \/ pending[q]
                                  \/ q \in again
                                  \/ new # cr /\ Watching(q)]

(* What Status().Update stores: the status of the copy, nothing else of it.*)
WithStatus(ver, phase) == [cr EXCEPT !.ver = ver, !.phase = phase]

(* A call fails for a reason of its own: the network, a timeout, a quota.  *)
Fault == faults < MaxFaults /\ faults' = faults + 1
NoFault == UNCHANGED faults

Goto(p, step) == pc' = [pc EXCEPT ![p] = step]

(* Reconcile returns: without an error the request leaves the work queue,  *)
(* with one it is queued again.                                            *)
Return(p) ==
    /\ Goto(p, "idle")
    /\ loc' = [loc EXCEPT ![p] = NoLocals]
Done(p) == Return(p) /\ UNCHANGED pending
Requeue(p) == Return(p) /\ pending' = [pending EXCEPT ![p] = TRUE]

-----------------------------------------------------------------------------
(* The user, the garbage collector and the life of a pod.                  *)

UserCreate ==
    /\ ~Exists
    /\ creates < MaxCreates
    /\ edits < MaxEdits
    /\ creates' = creates + 1
    /\ edits' = edits + 1
    /\ Write([NoCR EXCEPT !.uid = creates + 1, !.edit = edits + 1,
                           !.mig = FormatOf(MaxVersion)], {}, {})
    /\ UNCHANGED <<res, pc, bin, loc, faults, restarts>>

UserEdit ==
    /\ Exists
    /\ edits < MaxEdits
    /\ edits' = edits + 1
    /\ Write([cr EXCEPT !.edit = edits + 1, !.norm = FALSE], {}, {})
    /\ UNCHANGED <<res, pc, bin, loc, creates, faults, restarts>>

UserDelete ==
    /\ Exists
    /\ Write(NoCR, {}, {})
    /\ UNCHANGED <<res, pc, bin, loc, bounds>>

(* Objects whose owner reference names a CR that is gone are collected.    *)
GarbageCollect(k) ==
    /\ res[k] # Absent
    /\ res[k].uid # cr.uid
    /\ res' = [res EXCEPT ![k] = Absent]
    /\ UNCHANGED <<cr, pc, bin, pending, fresh, loc, bounds>>

Crash(p) ==
    /\ pc[p] # "down"
    /\ restarts < MaxRestarts
    /\ restarts' = restarts + 1
    /\ Goto(p, "down")
    /\ loc' = [loc EXCEPT ![p] = NoLocals]
    /\ pending' = [pending EXCEPT ![p] = FALSE]
    /\ UNCHANGED <<cr, res, bin, fresh, edits, creates, faults>>

(* The pod is started again, perhaps from another image.                   *)
Restart(p) ==
    /\ pc[p] = "down"
    /\ Goto(p, "startup")
    /\ \E v \in Binaries : bin' = [bin EXCEPT ![p] = v]
    /\ UNCHANGED <<cr, res, pending, fresh, loc, bounds>>

-----------------------------------------------------------------------------
(* ManagedInstances, run by bootstrap before the controllers start.        *)

(* The manager starts: the first list of the informer queues the CR.       *)
StartControllers(p) ==
    /\ Goto(p, "idle")
    /\ loc' = [loc EXCEPT ![p] = NoLocals]
    /\ pending' = [pending EXCEPT ![p] = Exists]

(* List the instances of this operator and upgrade the copy.  An empty     *)
(* version does not parse and the instance is skipped; so is one that did  *)
(* not change, or whose routine failed.                                    *)
StartupList(p) ==
    LET up == ManagedInstance(cr.ver, cr.mig, bin[p])
    IN  /\ pc[p] = "startup"
        /\ \/ /\ NoFault
              /\ Exists
              /\ cr.owner = Identity[p]
              /\ cr.ver # 0
              /\ up.ver # cr.ver
              /\ Goto(p, "patch")
              /\ loc' = [loc EXCEPT ![p].orig = cr,
                                    ![p].inst = [cr EXCEPT !.ver = up.ver,
                                                           !.mig = up.mig]]
              /\ UNCHANGED pending
           \/ /\ NoFault
              /\ ~Exists \/ cr.owner # Identity[p] \/ cr.ver = 0
                   \/ up.ver = cr.ver
              /\ StartControllers(p)
           \/ /\ Fault
              /\ StartControllers(p)
        /\ UNCHANGED <<cr, res, bin, fresh, edits, creates, restarts>>

(* Patch: a merge patch without a resource version; it carries the flags   *)
(* the routines changed and lands on whatever CR has the name by now.      *)
StartupPatch(p) ==
    LET l == loc[p]
        patched == [s \in Steps |-> IF l.inst.mig[s] # l.orig.mig[s]
                                    THEN l.inst.mig[s] ELSE cr.mig[s]]
    IN  /\ pc[p] = "patch"
        /\ \/ /\ NoFault
              /\ Exists
              /\ Write([cr EXCEPT !.mig = patched], {}, {})
              /\ loc' = [loc EXCEPT ![p].rver = cr.ver]
              /\ Goto(p, "statusPatch")
           \/ /\ Fault \/ (~Exists /\ NoFault)
              /\ StartControllers(p)
              /\ UNCHANGED <<cr, fresh>>
        /\ UNCHANGED <<res, bin, edits, creates, restarts>>

(* Status().Patch: the difference between the answer of Patch and the new  *)
(* version, again without a resource version; a failure is only logged.    *)
StartupStatusPatch(p) ==
    /\ pc[p] = "statusPatch"
    /\ Goto(p, "idle")
    /\ loc' = [loc EXCEPT ![p] = NoLocals]
    /\ \/ /\ NoFault
          /\ Exists
          /\ Write(IF loc[p].rver = loc[p].inst.ver THEN cr
                   ELSE [cr EXCEPT !.ver = loc[p].inst.ver], {}, {p})
       \/ /\ Fault \/ (~Exists /\ NoFault)
          /\ pending' = [pending EXCEPT ![p] = Exists]
          /\ UNCHANGED <<cr, fresh>>
    /\ UNCHANGED <<res, bin, edits, creates, restarts>>

-----------------------------------------------------------------------------
(* ReconcileJaeger.Reconcile.                                              *)

(* Mutant: an instance that is not found is reconciled like any other.     *)
ReconcileGetIgnoresNotFound(p) ==
    /\ pc[p] = "idle" /\ pending[p] /\ NoFault
    /\ loc' = [loc EXCEPT ![p].orig = cr, ![p].inst = cr]
    /\ fresh' = [fresh EXCEPT ![p] = TRUE]
    /\ pending' = [pending EXCEPT ![p] = FALSE]
    /\ Goto(p, "sync")
    /\ UNCHANGED <<cr, res, bin, edits, creates, restarts>>

(* Get, from the API server and not from the cache.  When the CR is gone,  *)
(* cleanConfigMaps runs (its failure to list is an error) and Reconcile    *)
(* ends: the objects of the CR are left to the garbage collector.          *)
ReconcileGet(p) ==
    /\ pc[p] = "idle"
    /\ pending[p]
    /\ \/ /\ Exists /\ NoFault
          /\ loc' = [loc EXCEPT ![p].orig = cr, ![p].inst = cr]
          /\ fresh' = [fresh EXCEPT ![p] = TRUE]
          /\ pending' = [pending EXCEPT ![p] = FALSE]
          /\ Goto(p, "sync")
       \/ /\ ~Exists /\ NoFault
          /\ pending' = [pending EXCEPT ![p] = FALSE]
          /\ UNCHANGED <<pc, loc, fresh>>
       \/ /\ Fault
          /\ UNCHANGED <<pc, loc, fresh, pending>>
    /\ UNCHANGED <<cr, res, bin, edits, creates, restarts>>

(* Mutant: only the absent label is looked at, not whose it is.            *)
ReconcileCheckAnyOwner(p) ==
    /\ pc[p] = "sync" /\ NoFault
    /\ IF loc[p].orig.owner = NoOwner
       THEN Goto(p, "adopt") /\ UNCHANGED loc
       ELSE Goto(p, "upgrade") /\ loc' = [loc EXCEPT ![p].inst.norm = TRUE]
    /\ UNCHANGED <<cr, res, bin, pending, fresh, edits, creates, restarts>>

(* syncOnJaegerChanges (it touches deployments, not the CR), validate, and *)
(* the owner check.  The strategy chosen for an own instance normalises    *)
(* the copy in place.                                                      *)
ReconcileCheck(p) ==
    LET j == loc[p].orig
    IN  /\ pc[p] = "sync"
        /\ \/ /\ Fault
              /\ Requeue(p)
           \/ /\ NoFault
              /\ j.edit \in BadEdits
              /\ Requeue(p)
           \/ /\ NoFault
              /\ j.edit \notin BadEdits
              /\ j.owner \notin {NoOwner, Identity[p]}
              /\ Done(p)
           \/ /\ NoFault
              /\ j.edit \notin BadEdits
              /\ j.owner = NoOwner
              /\ Goto(p, "adopt")
              /\ UNCHANGED <<loc, pending>>
           \/ /\ NoFault
              /\ j.edit \notin BadEdits
              /\ j.owner = Identity[p]
              /\ Goto(p, "upgrade")
              /\ loc' = [loc EXCEPT ![p].inst.norm = TRUE]
              /\ UNCHANGED pending
        /\ UNCHANGED <<cr, res, bin, fresh, edits, creates, restarts>>

(* Mutant: the label is written whatever the resource version.             *)
ReconcileAdoptUnconditional(p) ==
    /\ pc[p] = "adopt" /\ Exists /\ NoFault
    /\ Write([cr EXCEPT !.owner = Identity[p]], {p}, {})
    /\ Return(p)
    /\ UNCHANGED <<res, bin, edits, creates, restarts>>

(* Update with the operated-by label set: refused unless the copy is the   *)
(* latest one.                                                             *)
ReconcileAdopt(p) ==
    /\ pc[p] = "adopt"
    /\ \/ /\ fresh[p] /\ NoFault
          /\ Write([loc[p].inst EXCEPT !.owner = Identity[p]], {p}, {})
          /\ Return(p)
       \/ /\ (~fresh[p] /\ NoFault) \/ Fault
          /\ Goto(p, "adoptFailed")
          /\ UNCHANGED <<cr, fresh, pending, loc>>
    /\ UNCHANGED <<res, bin, edits, creates, restarts>>

(* Status().Update to Failed after the label could not be stored; a failure*)
(* is only logged and the first error is returned.                         *)
ReconcileAdoptFailed(p) ==
    /\ pc[p] = "adoptFailed"
    /\ Return(p)
    /\ \/ /\ fresh[p] /\ NoFault
          /\ Write(WithStatus(loc[p].inst.ver, "Failed"), {p}, {p})
       \/ /\ (~fresh[p] /\ NoFault) \/ Fault
          /\ pending' = [pending EXCEPT ![p] = TRUE]
          /\ UNCHANGED <<cr, fresh>>
    /\ UNCHANGED <<res, bin, edits, creates, restarts>>

-----------------------------------------------------------------------------
(* ReconcileJaeger.apply.                                                  *)

(* applyUpgrades works on a copy of the instance, after the strategy has   *)
(* rendered the objects; a routine may fail.                               *)
ApplyUpgrade(p) ==
    LET j == loc[p].inst
        up == ApplyUpgrades(j.ver, j.mig, bin[p])
    IN  /\ pc[p] = "upgrade"
        /\ \/ /\ NoFault
              /\ loc' = [loc EXCEPT ![p].inst.ver = up.ver,
                                    ![p].inst.mig = up.mig,
                                    ![p].stage = 1]
              /\ Goto(p, IF NeedsCerts THEN "certs" ELSE "stage")
           \/ /\ Fault
              /\ Goto(p, "failed")
              /\ UNCHANGED loc
        /\ UNCHANGED <<cr, res, bin, pending, fresh, edits, creates, restarts>>

(* The secrets are listed and the certificates of Elasticsearch created.   *)
ApplyCerts(p) ==
    /\ pc[p] = "certs"
    /\ \/ NoFault /\ Goto(p, "stage")
       \/ Fault /\ Goto(p, "certsFailed")
       \/ Fault /\ Goto(p, "failed")
    /\ UNCHANGED <<cr, res, bin, pending, fresh, loc, edits, creates, restarts>>

(* The list of secrets failed: Status().Update of the copy apply works on, *)
(* whose version applyUpgrades has already moved.  The copy of Reconcile   *)
(* is not the writer: it becomes stale.                                    *)
ApplyCertsFailed(p) ==
    /\ pc[p] = "certsFailed"
    /\ Goto(p, "failed")
    /\ \/ /\ fresh[p] /\ NoFault
          /\ Write(WithStatus(loc[p].inst.ver, "Failed"), {}, {})
       \/ /\ (~fresh[p] /\ NoFault) \/ Fault
          /\ UNCHANGED <<cr, fresh, pending>>
    /\ UNCHANGED <<res, bin, loc, edits, creates, restarts>>

(* Mutant: the error of every stage is only logged.                        *)
ApplyStageLogsErrors(p) ==
    LET k == Stages[loc[p].stage]
    IN  /\ pc[p] = "stage"
        /\ \/ NoFault /\ res' = [res EXCEPT ![k] = Render(loc[p].orig)]
           \/ Fault /\ UNCHANGED res
        /\ loc' = [loc EXCEPT ![p].stage = @ + 1]
        /\ Goto(p, IF loc[p].stage = Len(Stages) THEN "store" ELSE "stage")
        /\ UNCHANGED <<cr, bin, pending, fresh, edits, creates, restarts>>

(* One kind: list, create, update, delete.  A failed stage may have done   *)
(* part of its work.  The error of the autoscalers ends apply without an   *)
(* error, that of the console links is only logged.                        *)
ApplyStage(p) ==
    LET i == loc[p].stage
        k == Stages[i]
        rendered == Render(loc[p].orig)
    IN  /\ pc[p] = "stage"
        /\ \/ /\ NoFault
              /\ res' = [res EXCEPT ![k] = rendered]
              /\ loc' = [loc EXCEPT ![p].stage = i + 1]
              /\ IF i = Len(Stages) THEN Goto(p, "store") ELSE UNCHANGED pc
           \/ /\ Fault
              /\ \E r \in {rendered, res[k]} : res' = [res EXCEPT ![k] = r]
              /\ \/ /\ OnError[k] = "fail"
                    /\ Goto(p, "failed")
                    /\ UNCHANGED loc
                 \/ /\ OnError[k] = "log"
                    /\ loc' = [loc EXCEPT ![p].stage = i + 1]
                    /\ IF i = Len(Stages) THEN Goto(p, "store")
                       ELSE UNCHANGED pc
                 \/ /\ OnError[k] = "finish"
                    /\ Goto(p, "store")
                    /\ UNCHANGED loc
        /\ UNCHANGED <<cr, bin, pending, fresh, edits, creates, restarts>>

-----------------------------------------------------------------------------
(* What Reconcile does with the result of apply.                           *)

(* Mutant: the error of apply is reported in the status and not returned.  *)
StoreFailedReturnsNil(p) ==
    /\ pc[p] = "failed"
    /\ Return(p)
    /\ \/ /\ fresh[p] /\ NoFault
          /\ Write(WithStatus(loc[p].orig.ver, "Failed"), {p}, {})
       \/ Fault /\ UNCHANGED <<cr, fresh, pending>>
    /\ UNCHANGED <<res, bin, edits, creates, restarts>>

(* apply failed: Status().Update of the copy Reconcile read.  Its failure  *)
(* is only logged; the error of apply is returned.                         *)
StoreFailed(p) ==
    /\ pc[p] = "failed"
    /\ Return(p)
    /\ \/ /\ fresh[p] /\ NoFault
          /\ Write(WithStatus(loc[p].orig.ver, "Failed"), {p}, {p})
       \/ /\ (~fresh[p] /\ NoFault) \/ Fault
          /\ pending' = [pending EXCEPT ![p] = TRUE]
          /\ UNCHANGED <<cr, fresh>>
    /\ UNCHANGED <<res, bin, edits, creates, restarts>>

(* Mutants: the copy is stored whatever the resource version; a refused    *)
(* Update does not make Reconcile return an error.                         *)
StoreInstanceUnconditional(p) ==
    /\ pc[p] = "store" /\ Exists /\ NoFault
    /\ Write([loc[p].inst EXCEPT !.uid = cr.uid, !.ver = cr.ver,
                                 !.phase = cr.phase], {p}, {})
    /\ Goto(p, "status")
    /\ UNCHANGED <<res, bin, loc, edits, creates, restarts>>
StoreInstanceSwallowsError(p) ==
    /\ pc[p] = "store"
    /\ \/ /\ fresh[p] /\ NoFault
          /\ Write([loc[p].inst EXCEPT !.ver = cr.ver, !.phase = cr.phase],
                   {p}, {})
          /\ Goto(p, "status")
          /\ UNCHANGED loc
       \/ /\ (~fresh[p] /\ NoFault) \/ Fault
          /\ Done(p)
          /\ UNCHANGED <<cr, fresh>>
    /\ UNCHANGED <<res, bin, edits, creates, restarts>>

(* The CR is stored back when normalisation or an upgrade changed it.  The *)
(* status is not part of Update: the answer carries the stored one.        *)
StoreInstance(p) ==
    LET j == loc[p].inst
    IN  /\ pc[p] = "store"
        /\ \/ /\ j = loc[p].orig
              /\ Goto(p, "status")
              /\ NoFault
              /\ UNCHANGED <<cr, fresh, pending, loc>>
           \/ /\ j # loc[p].orig
              /\ fresh[p] /\ NoFault
              /\ Write([j EXCEPT !.ver = cr.ver, !.phase = cr.phase], {p}, {})
              /\ loc' = [loc EXCEPT ![p].inst.phase = cr.phase]
              /\ Goto(p, "status")
           \/ /\ j # loc[p].orig
              /\ (~fresh[p] /\ NoFault) \/ Fault
              /\ Requeue(p)
              /\ UNCHANGED <<cr, fresh>>
        /\ UNCHANGED <<res, bin, edits, creates, restarts>>

(* The version and the phase Running are recorded, unless they already are.*)
StoreStatus(p) ==
    LET j == loc[p].inst
        recorded == j.ver = loc[p].orig.ver /\ j.phase = "Running"
    IN  /\ pc[p] = "status"
        /\ \/ /\ recorded
              /\ NoFault
              /\ Done(p)
              /\ UNCHANGED <<cr, fresh>>
           \/ /\ ~recorded
              /\ fresh[p] /\ NoFault
              /\ Write(WithStatus(j.ver, "Running"), {p}, {})
              /\ Return(p)
           \/ /\ ~recorded
              /\ (~fresh[p] /\ NoFault) \/ Fault
              /\ Requeue(p)
              /\ UNCHANGED <<cr, fresh>>
        /\ UNCHANGED <<res, bin, edits, creates, restarts>>

-----------------------------------------------------------------------------
Reconcile(p) ==
    \/ ReconcileGet(p) \/ ReconcileCheck(p)
    \/ ReconcileAdopt(p) \/ ReconcileAdoptFailed(p)
    \/ ApplyUpgrade(p) \/ ApplyCerts(p) \/ ApplyCertsFailed(p) \/ ApplyStage(p)
    \/ StoreFailed(p) \/ StoreInstance(p) \/ StoreStatus(p)

ManagedInstances(p) ==
    StartupList(p) \/ StartupPatch(p) \/ StartupStatusPatch(p)

User == UserCreate \/ UserEdit \/ UserDelete

Next ==
    \/ User
    \/ \E k \in Kinds : GarbageCollect(k)
    \/ \E p \in Pods : \/ Crash(p) \/ Restart(p)
                       \/ ManagedInstances(p) \/ Reconcile(p)

Spec == Init /\ [][Next]_vars

(* A running pod goes on, a crashed one is restarted (kubelet), and the    *)
(* garbage collector of the cluster works.  The user owes nobody a step.   *)
Fairness ==
    /\ \A p \in Pods : /\ WF_vars(Reconcile(p))
                       /\ WF_vars(ManagedInstances(p))
                       /\ WF_vars(Restart(p))
    /\ \A k \in Kinds : WF_vars(GarbageCollect(k))

FairSpec == Spec /\ Fairness

-----------------------------------------------------------------------------
TypeOK ==
    /\ cr \in CRs
    /\ res \in [Kinds -> Manifests \cup {Absent}]
    /\ pc \in [Pods -> PCs]
    /\ bin \in [Pods -> Binaries]
    /\ pending \in [Pods -> BOOLEAN]
    /\ fresh \in [Pods -> BOOLEAN]
    /\ loc \in [Pods -> Locals]
    /\ edits \in 0..MaxEdits
    /\ creates \in 0..MaxCreates
    /\ faults \in 0..MaxFaults
    /\ restarts \in 0..MaxRestarts

(* Managers never disagree: a pod that is past the owner check of          *)
(* Reconcile, or upgrades at start-up, works for the identity in the       *)
(* operated-by label of the CR it read, as long as that CR exists.  Two    *)
(* operators with different identities are therefore never at work on the  *)
(* same CR, whatever the interleaving of their Get and Update.             *)
SingleManager ==
    \A p \in Pods :
        pc[p] \in Applying \cup Upgrading /\ loc[p].orig.uid = cr.uid
            => cr.owner = Identity[p]

(* The operated-by label is set once: no step of an operator takes a CR    *)
(* away from another, and losing the race to set it (Reconcile lines       *)
(* 121-144) leaves the winner in place.                                    *)
OwnerNeverStolen ==
    [][cr'.uid = cr.uid /\ cr.owner # NoOwner => cr'.owner = cr.owner]_vars

(* The operators that are past the owner check for the CR there is.        *)
Working == {Identity[p] : p \in {q \in Pods :
              pc[q] \in Applying \cup Upgrading /\ loc[q].orig.uid = cr.uid}}

(* All the calls of all the pods, races, retries and crashes included, are *)
(* steps of Management: existence and content of the CR change by its user *)
(* alone, the label is set once, and only its bearer works.                *)
M == INSTANCE Management WITH
        uid <- cr.uid, owner <- cr.owner, edit <- cr.edit,
        given <- creates, made <- edits, working <- Working
ImplementsManagement == M!Spec

(* What Reconcile stores back (normalised and upgraded, computed from a    *)
(* copy read many API calls ago) never undoes an edit the user made in     *)
(* between.                                                                *)
EditNeverLost ==
    [][cr'.uid = cr.uid /\ Exists => cr'.edit >= cr.edit]_vars

(* Status.Version promises the format of the spec: every upgrade routine   *)
(* up to the recorded version has been run on what is stored, so skipping  *)
(* it on the next reconciliation is right (upgrade.go, "at this point, the *)
(* Jaeger we are managing is in sync with the Operator's version").        *)
VersionImpliesMigrated ==
    Exists => \A s \in Steps : s <= cr.ver => cr.mig[s] >= 1

(* The kinds whose failure makes Reconcile return an error.                *)
Reported == {Stages[i] : i \in {n \in 1..Len(Stages) :
                \A m \in 1..n : OnError[Stages[m]] = "fail"}}

(* Phase Running is only shown when the objects of this very CR exist (of  *)
(* the kinds whose errors apply returns: see Reported).                    *)
RunningMeansDeployed ==
    cr.phase = "Running" =>
        \A k \in Reported : res[k] # Absent /\ res[k].uid = cr.uid

(* No lost wake-up: when every pod is idle with an empty work queue, the   *)
(* objects and the CR agree and the CR is Running.  The owner reads the CR *)
(* outside its queue and writes it itself; the events of those writes are  *)
(* the only thing that brings it back after an upgrade.                    *)
Quiet == \A p \in Pods : pc[p] = "idle" /\ ~pending[p]
Converged(kinds) ==
    /\ cr.owner # NoOwner
    /\ cr.norm
    /\ cr.phase = "Running"
    /\ \A k \in kinds : res[k] = Render(cr)
QuietMeansConverged == Quiet /\ Exists => Converged(Reported)

(* Once the user, the failures and the crashes stop, the CR is Running and *)
(* its objects follow it, or it is gone and so are its objects.            *)
Settled ==
    IF Exists THEN Converged(Reported)
    ELSE \A k \in Kinds : res[k] = Absent
EventuallySettled == <>[](cr.edit \in BadEdits \/ Settled)
=============================================================================
