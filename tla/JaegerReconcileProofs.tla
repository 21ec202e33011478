----------------------- MODULE JaegerReconcileProofs -----------------------
(***************************************************************************)
(* Proofs about JaegerReconcile, for any number of pods, identities,       *)
(* versions, stages and any value of the bounds.                           *)
(***************************************************************************)
EXTENDS JaegerReconcile, TLAPS

(* The steps at which a pod holds a copy of the CR.                        *)
InReconcile == Applying \cup {"sync", "adopt", "adoptFailed"}
Holding == InReconcile \cup Upgrading

(* The uid and the edit number of the CR have been given out.              *)
NumbersInv ==
    /\ cr.uid <= creates
    /\ cr.edit <= edits

(* The working copy keeps what only the user or adoption may change, and a *)
(* pod past the owner check holds a copy that names it.                    *)
CopyOK(p) ==
    /\ loc[p].inst.uid = loc[p].orig.uid
    /\ loc[p].inst.owner = loc[p].orig.owner
    /\ loc[p].inst.edit = loc[p].orig.edit
    /\ loc[p].orig.uid <= creates
    /\ pc[p] \in Holding => loc[p].orig.uid # 0
    /\ pc[p] \in Applying \cup Upgrading => loc[p].orig.owner = Identity[p]
    /\ pc[p] = "adopt" => loc[p].orig.owner = NoOwner
    /\ pc[p] \in {"certs", "stage"} => loc[p].stage \in 1..Len(Stages)
CopyInv == \A p \in Pods : CopyOK(p)

(* A copy whose resource version is the stored one agrees with the CR on   *)
(* these fields.                                                           *)
FreshOK(p) ==
    fresh[p] /\ pc[p] \in InReconcile =>
        /\ cr.uid = loc[p].orig.uid
        /\ cr.owner = loc[p].orig.owner
        /\ cr.edit = loc[p].orig.edit
FreshInv == \A p \in Pods : FreshOK(p)

(* The label, once read, is the label of that CR for ever.                 *)
LabelOK(p) ==
    cr.uid # 0 /\ loc[p].orig.uid = cr.uid /\ loc[p].orig.owner # NoOwner
        => cr.owner = loc[p].orig.owner
LabelInv == \A p \in Pods : LabelOK(p)

IInv == TypeOK /\ NumbersInv /\ CopyInv /\ FreshInv /\ LabelInv

-----------------------------------------------------------------------------
(* The upgrade operators keep their types.                                 *)
LEMMA FormatType == \A v \in Int : FormatOf(v) \in Migrations
  BY UpgradeAssumption DEF FormatOf, Migrations

LEMMA RunUpgradesType ==
    ASSUME NEW mig \in Migrations, NEW todo
    PROVE  RunUpgrades(mig, todo) \in Migrations
  BY DEF RunUpgrades, Migrations

LEMMA ManagedInstanceType ==
    ASSUME NEW v \in 0..MaxVersion, NEW mig \in Migrations, NEW b \in Versions
    PROVE  /\ ManagedInstance(v, mig, b).ver \in 0..MaxVersion
           /\ ManagedInstance(v, mig, b).mig \in Migrations
  BY UpgradeAssumption, RunUpgradesType DEF ManagedInstance, Versions

LEMMA ApplyUpgradesType ==
    ASSUME NEW v \in 0..MaxVersion, NEW mig \in Migrations, NEW b \in Versions
    PROVE  /\ ApplyUpgrades(v, mig, b).ver \in 0..MaxVersion
           /\ ApplyUpgrades(v, mig, b).mig \in Migrations
  BY UpgradeAssumption, ManagedInstanceType DEF ApplyUpgrades, Versions

LEMMA NoCRType == NoCR \in CRs
  BY UpgradeAssumption, ReconcileAssumption, FormatType DEF NoCR, CRs

LEMMA NoLocalsType == NoLocals \in Locals
  BY NoCRType, UpgradeAssumption, ReconcileAssumption DEF NoLocals, Locals

LEMMA NoFields ==
    /\ NoLocals.orig = NoCR
    /\ NoLocals.inst = NoCR
    /\ NoCR.uid = 0
    /\ NoCR.edit = 0
    /\ NoCR.owner = NoOwner
  <1>1. NoLocals.orig = NoCR /\ NoLocals.inst = NoCR
    BY DEF NoLocals
  <1> QED BY <1>1 DEF NoCR

(* The pieces that the steps are made of keep the types.                   *)
LEMMA WriteType ==
    ASSUME TypeOK, NEW new \in CRs, NEW W, NEW A, Write(new, W, A)
    PROVE  /\ cr' \in CRs
           /\ fresh' \in [Pods -> BOOLEAN]
           /\ pending' \in [Pods -> BOOLEAN]
  BY DEF Write, TypeOK

LEMMA WithStatusType ==
    ASSUME TypeOK, NEW v \in 0..MaxVersion, NEW ph \in {"Running", "Failed"}
    PROVE  WithStatus(v, ph) \in CRs
  BY DEF TypeOK, WithStatus, CRs

LEMMA LocalsExcept ==
    ASSUME NEW l \in Locals, NEW j \in CRs, NEW n \in 0..(Len(Stages) + 1)
    PROVE  [l EXCEPT !.inst = j, !.stage = n] \in Locals
  BY DEF Locals

LEMMA GotoType ==
    ASSUME TypeOK, NEW p \in Pods, NEW step \in PCs, Goto(p, step)
    PROVE  pc' \in [Pods -> PCs] /\ pc'[p] = step
  BY DEF TypeOK, Goto

LEMMA ReturnType ==
    ASSUME TypeOK, NEW p \in Pods, Return(p)
    PROVE  /\ pc' \in [Pods -> PCs]
           /\ loc' \in [Pods -> Locals]
  BY NoLocalsType, GotoType DEF TypeOK, Return, PCs, Steady

LEMMA FaultType ==
    ASSUME TypeOK, Fault \/ NoFault
    PROVE  faults' \in 0..MaxFaults
  BY ReconcileAssumption DEF TypeOK, Fault, NoFault

LEMMA InitIInv == Init => IInv
  <1> SUFFICES ASSUME Init PROVE IInv
    OBVIOUS
  <1> USE UpgradeAssumption, ReconcileAssumption
  <1>0. /\ edits = 0
        /\ loc = [p \in Pods |-> NoLocals]
        /\ pc = [p \in Pods |-> "startup"]
        /\ fresh = [p \in Pods |-> FALSE]
    BY DEF Init
  <1>1. cr \in CRs /\ cr.uid <= creates /\ cr.edit <= edits
        /\ creates \in 0..MaxCreates
    <2>1. CASE cr = NoCR /\ creates = 0
      <3>1. NoCR.uid = 0 /\ NoCR.edit = 0
        BY DEF NoCR
      <3> QED BY <2>1, <3>1, <1>0, NoCRType
    <2>2. CASE creates = 1 /\ MaxCreates > 0 /\ \E o \in Identities, v \in Binaries :
             cr = [uid |-> 1, owner |-> o, edit |-> 0, norm |-> TRUE,
                   mig |-> FormatOf(v), ver |-> v, phase |-> "Running"]
      <3> PICK o \in Identities, v \in Binaries :
             cr = [uid |-> 1, owner |-> o, edit |-> 0, norm |-> TRUE,
                   mig |-> FormatOf(v), ver |-> v, phase |-> "Running"]
        BY <2>2
      <3>1. v \in 1..MaxVersion /\ FormatOf(v) \in Migrations
        BY FormatType DEF Versions
      <3> QED BY <1>0, <2>2, <3>1 DEF CRs
    <2> QED BY <2>1, <2>2 DEF Init
  <1>2. res \in [Kinds -> Manifests \cup {Absent}]
    BY FormatType DEF Init, Manifests, Render, Versions
  <1>3. loc \in [Pods -> Locals]
    BY NoLocalsType DEF Init
  <1>4. TypeOK
    BY <1>1, <1>2, <1>3 DEF Init, TypeOK, PCs, Steady
  <1>5. NumbersInv /\ CopyInv /\ FreshInv /\ LabelInv
    <2>1. \A p \in Pods : /\ loc[p].inst = NoCR /\ loc[p].orig = NoCR
                          /\ pc[p] = "startup" /\ fresh[p] = FALSE
      BY <1>0 DEF NoLocals
    <2>2. NoCR.uid = 0 /\ NoCR.owner = NoOwner
      BY DEF NoCR
    <2>3. creates \in Nat
      BY <1>1
    <2> QED
      BY <1>1, <2>1, <2>2, <2>3 DEF NumbersInv, CopyInv, CopyOK, FreshInv, FreshOK,
         LabelInv, LabelOK, Holding, InReconcile, Applying, Upgrading
  <1> QED BY <1>4, <1>5 DEF IInv

-----------------------------------------------------------------------------
(* What a step of a pod may do to the CR: write it without touching its    *)
(* uid or its edit, and set a label that was absent.                       *)
CRKept ==
    /\ cr'.uid = cr.uid
    /\ cr'.edit = cr.edit
    /\ cr.owner # NoOwner \/ cr.uid = 0 => cr'.owner = cr.owner

(* A step of p leaves the other pods' variables and the numbers alone, and *)
(* makes a stale copy of theirs fresh in no case.                          *)
Framed(p) ==
    /\ \A q \in Pods \ {p} :
          /\ loc'[q] = loc[q]
          /\ pc'[q] = pc[q]
          /\ fresh'[q] => fresh[q] /\ cr' = cr
    /\ UNCHANGED <<creates, edits>>

LEMMA PodStep ==
    ASSUME IInv, NEW p \in Pods, TypeOK', CRKept, Framed(p),
           CopyOK(p)', FreshOK(p)', LabelOK(p)'
    PROVE  IInv' /\ CRKept
  <1>1. NumbersInv'
    BY DEF IInv, NumbersInv, CRKept, Framed
  <1>2. ASSUME NEW q \in Pods, q # p
        PROVE  CopyOK(q)' /\ FreshOK(q)' /\ LabelOK(q)'
    <2>1. CopyOK(q)'
      BY <1>2 DEF IInv, CopyInv, CopyOK, Framed
    <2>2. FreshOK(q)'
      BY <1>2 DEF IInv, FreshInv, FreshOK, Framed
    <2>3. LabelOK(q)'
      BY <1>2 DEF IInv, LabelInv, LabelOK, Framed, CRKept
    <2> QED BY <2>1, <2>2, <2>3
  <1> QED BY <1>1, <1>2 DEF IInv, CopyInv, FreshInv, LabelInv

(* A pod that ends a reconciliation or an upgrade satisfies its part.      *)
LEMMA Returned ==
    ASSUME IInv, NEW p \in Pods, Return(p), UNCHANGED creates
    PROVE  CopyOK(p)' /\ FreshOK(p)' /\ LabelOK(p)'
  <1>1. pc'[p] = "idle" /\ loc'[p] = NoLocals
    BY DEF Return, Goto, IInv, TypeOK
  <1>2. loc'[p].orig = NoCR /\ loc'[p].inst = NoCR
        /\ NoCR.uid = 0 /\ NoCR.owner = NoOwner
    BY <1>1, NoFields
  <1>3. creates' \in Nat
    BY ReconcileAssumption DEF IInv, TypeOK
  <1> QED BY <1>1, <1>2, <1>3 DEF CopyOK, FreshOK, LabelOK, Holding, InReconcile,
          Applying, Upgrading

LEMMA StoreStatusIInv ==
    ASSUME IInv, NEW p \in Pods, StoreStatus(p)
    PROVE  IInv' /\ CRKept
  <1> USE DEF IInv
  <1>1. CRKept /\ Framed(p)
    BY DEF StoreStatus, Done, Requeue, Return, Goto, Write, WithStatus, NoFault, CRKept,
           Framed, TypeOK, CRs
  <1>2. TypeOK'
    <2>1. loc[p].inst.ver \in 0..MaxVersion
      BY DEF TypeOK, Locals, CRs
    <2>2. WithStatus(loc[p].inst.ver, "Running") \in CRs
      BY <2>1, WithStatusType
    <2>3. /\ cr' \in CRs
          /\ fresh' \in [Pods -> BOOLEAN]
          /\ pending' \in [Pods -> BOOLEAN]
      BY <2>2, WriteType DEF StoreStatus, Done, Requeue, TypeOK
    <2>4. /\ pc' \in [Pods -> PCs]
          /\ loc' \in [Pods -> Locals]
          /\ faults' \in 0..MaxFaults
      BY ReturnType, FaultType DEF StoreStatus, Done, Requeue
    <2> QED BY <2>3, <2>4 DEF StoreStatus, TypeOK
  <1>3. Return(p) /\ UNCHANGED creates
    BY DEF StoreStatus, Done, Requeue
  <1> QED BY <1>1, <1>2, <1>3, Returned, PodStep

LEMMA StoreFailedIInv ==
    ASSUME IInv, NEW p \in Pods, StoreFailed(p)
    PROVE  IInv' /\ CRKept
  <1> USE DEF IInv
  <1>1. CRKept /\ Framed(p)
    BY DEF StoreFailed, Return, Goto, Write, WithStatus, CRKept, Framed, TypeOK, CRs
  <1>2. TypeOK'
    <2>1. WithStatus(loc[p].orig.ver, "Failed") \in CRs
      BY WithStatusType DEF TypeOK, Locals, CRs
    <2>2. /\ cr' \in CRs
          /\ fresh' \in [Pods -> BOOLEAN]
          /\ pending' \in [Pods -> BOOLEAN]
      BY <2>1, WriteType DEF StoreFailed, TypeOK
    <2>3. /\ pc' \in [Pods -> PCs]
          /\ loc' \in [Pods -> Locals]
          /\ faults' \in 0..MaxFaults
      BY ReturnType, FaultType DEF StoreFailed
    <2> QED BY <2>2, <2>3 DEF StoreFailed, TypeOK
  <1>3. Return(p) /\ UNCHANGED creates
    BY DEF StoreFailed
  <1> QED BY <1>1, <1>2, <1>3, Returned, PodStep

LEMMA ReconcileAdoptFailedIInv ==
    ASSUME IInv, NEW p \in Pods, ReconcileAdoptFailed(p)
    PROVE  IInv' /\ CRKept
  <1> USE DEF IInv
  <1>1. CRKept /\ Framed(p)
    BY DEF ReconcileAdoptFailed, Return, Goto, Write, WithStatus, CRKept, Framed,
           TypeOK, CRs
  <1>2. TypeOK'
    <2>1. WithStatus(loc[p].inst.ver, "Failed") \in CRs
      BY WithStatusType DEF TypeOK, Locals, CRs
    <2>2. /\ cr' \in CRs
          /\ fresh' \in [Pods -> BOOLEAN]
          /\ pending' \in [Pods -> BOOLEAN]
      BY <2>1, WriteType DEF ReconcileAdoptFailed, TypeOK
    <2>3. /\ pc' \in [Pods -> PCs]
          /\ loc' \in [Pods -> Locals]
          /\ faults' \in 0..MaxFaults
      BY ReturnType, FaultType DEF ReconcileAdoptFailed
    <2> QED BY <2>2, <2>3 DEF ReconcileAdoptFailed, TypeOK
  <1>3. Return(p) /\ UNCHANGED creates
    BY DEF ReconcileAdoptFailed
  <1> QED BY <1>1, <1>2, <1>3, Returned, PodStep

(* Adoption writes the label only over a copy that is still the stored CR: *)
(* by FreshInv its label is then absent, so nobody's CR is taken.          *)
LEMMA ReconcileAdoptIInv ==
    ASSUME IInv, NEW p \in Pods, ReconcileAdopt(p)
    PROVE  IInv' /\ CRKept
  <1> USE DEF IInv
  <1> DEFINE new == [loc[p].inst EXCEPT !.owner = Identity[p]]
  <1>1. CASE fresh[p] /\ NoFault /\ Write(new, {p}, {}) /\ Return(p)
    <2>1. /\ loc[p].inst \in CRs
          /\ Identity[p] \in Identities
      BY DEF TypeOK, Locals, Identities
    <2>2. new \in CRs /\ new.uid = loc[p].inst.uid /\ new.edit = loc[p].inst.edit
      BY <2>1 DEF CRs
    <2>3. CopyOK(p) /\ FreshOK(p) /\ pc[p] = "adopt"
      BY DEF CopyInv, FreshInv, ReconcileAdopt
    <2>4. /\ cr.uid = new.uid /\ cr.edit = new.edit /\ cr.owner = NoOwner
          /\ cr.uid # 0
      BY <1>1, <2>2, <2>3 DEF CopyOK, FreshOK, InReconcile, Holding
    <2>5. CRKept /\ Framed(p)
      BY <1>1, <2>4 DEF ReconcileAdopt, Return, Goto, Write, CRKept, Framed, TypeOK
    <2>6. TypeOK'
      BY <1>1, <2>2, WriteType, ReturnType, FaultType DEF ReconcileAdopt, TypeOK
    <2> QED BY <1>1, <2>5, <2>6, Returned, PodStep DEF ReconcileAdopt
  <1>2. CASE /\ (~fresh[p] /\ NoFault) \/ Fault
             /\ Goto(p, "adoptFailed")
             /\ UNCHANGED <<cr, fresh, pending, loc>>
    <2>1. pc' \in [Pods -> PCs] /\ pc'[p] = "adoptFailed"
      BY <1>2, GotoType DEF PCs
    <2>2. TypeOK'
      BY <1>2, <2>1, FaultType DEF ReconcileAdopt, TypeOK
    <2>3. CRKept /\ Framed(p)
      BY <1>2 DEF ReconcileAdopt, Goto, CRKept, Framed, TypeOK
    <2>4. CopyOK(p) /\ FreshOK(p) /\ LabelOK(p) /\ pc[p] = "adopt"
      BY DEF CopyInv, FreshInv, LabelInv, ReconcileAdopt
    <2>5. CopyOK(p)' /\ FreshOK(p)' /\ LabelOK(p)'
      BY <1>2, <2>1, <2>4 DEF ReconcileAdopt, CopyOK, FreshOK, LabelOK,
         Holding, InReconcile, Applying, Upgrading
    <2> QED BY <2>2, <2>3, <2>5, PodStep
  <1> QED BY <1>1, <1>2 DEF ReconcileAdopt

(* A pod that goes from one step of apply to another, its copy's uid,      *)
(* owner and edit unchanged, keeps its part of the invariant as long as it *)
(* is fresh only when it was.                                              *)
LEMMA Advanced ==
    ASSUME IInv, NEW p \in Pods, pc[p] \in Applying, pc'[p] \in Applying,
           loc'[p].orig = loc[p].orig,
           loc'[p].inst.uid = loc[p].inst.uid,
           loc'[p].inst.owner = loc[p].inst.owner,
           loc'[p].inst.edit = loc[p].inst.edit,
           pc'[p] \in {"certs", "stage"} => loc'[p].stage \in 1..Len(Stages),
           fresh'[p] => fresh[p],
           cr'.uid = cr.uid, cr'.edit = cr.edit, cr'.owner = cr.owner,
           UNCHANGED creates
    PROVE  CopyOK(p)' /\ FreshOK(p)' /\ LabelOK(p)'
  <1>1. CopyOK(p) /\ FreshOK(p) /\ LabelOK(p)
    BY DEF IInv, CopyInv, FreshInv, LabelInv
  <1>2. CopyOK(p)'
    BY <1>1 DEF CopyOK, Holding, InReconcile, Applying, Upgrading
  <1>3. FreshOK(p)' /\ LabelOK(p)'
    BY <1>1 DEF FreshOK, LabelOK, InReconcile
  <1> QED BY <1>2, <1>3

LEMMA ApplyUpgradeIInv ==
    ASSUME IInv, NEW p \in Pods, ApplyUpgrade(p)
    PROVE  IInv' /\ CRKept
  <1> USE DEF IInv
  <1> DEFINE up == ApplyUpgrades(loc[p].inst.ver, loc[p].inst.mig, bin[p])
  <1>1. /\ loc[p] \in Locals /\ loc[p].inst \in CRs /\ bin[p] \in Versions
        /\ pc[p] = "upgrade"
    BY ReconcileAssumption DEF ApplyUpgrade, TypeOK, Locals
  <1>2. up.ver \in 0..MaxVersion /\ up.mig \in Migrations
    BY <1>1, ApplyUpgradesType DEF CRs
  <1>3. Len(Stages) \in Nat /\ 1 \in 1..Len(Stages)
    BY ReconcileAssumption
  <1>4. CRKept /\ Framed(p)
    BY DEF ApplyUpgrade, Goto, CRKept, Framed, TypeOK
  <1>5. CASE /\ NoFault
             /\ loc' = [loc EXCEPT ![p].inst.ver = up.ver,
                                   ![p].inst.mig = up.mig,
                                   ![p].stage = 1]
             /\ Goto(p, IF NeedsCerts THEN "certs" ELSE "stage")
    <2> HIDE DEF up
    <2>1. loc'[p] = [loc[p] EXCEPT !.inst = [loc[p].inst EXCEPT !.ver = up.ver,
                                                               !.mig = up.mig],
                                   !.stage = 1]
      BY <1>5, <1>1 DEF TypeOK, Locals, CRs
    <2> DEFINE j == [loc[p].inst EXCEPT !.ver = up.ver, !.mig = up.mig]
    <2>2. /\ j \in CRs
          /\ j.uid = loc[p].inst.uid
          /\ j.owner = loc[p].inst.owner
          /\ j.edit = loc[p].inst.edit
      BY <1>1, <1>2 DEF CRs
    <2> HIDE DEF j
    <2>3. /\ loc'[p].orig = loc[p].orig
          /\ loc'[p].inst = j
          /\ loc'[p].stage = 1
      BY <2>1, <1>1 DEF Locals, j
    <2>4. loc'[p] \in Locals
      <3>1. loc'[p] = [loc[p] EXCEPT !.inst = j, !.stage = 1]
        BY <2>1 DEF j
      <3>2. 1 \in 0..(Len(Stages) + 1)
        BY <1>3
      <3>3. [loc[p] EXCEPT !.inst = j, !.stage = 1] \in Locals
        BY <3>2, <2>2, <1>1, LocalsExcept
      <3> QED BY <3>1, <3>3, Zenon
    <2>5. loc' \in [Pods -> Locals]
      BY <1>5, <2>4 DEF TypeOK
    <2>6. pc' \in [Pods -> PCs] /\ pc'[p] \in {"certs", "stage"}
      BY <1>5, GotoType DEF PCs, Applying
    <2>7. TypeOK'
      BY <1>5, <2>5, <2>6, FaultType DEF ApplyUpgrade, TypeOK
    <2>8. CopyOK(p)' /\ FreshOK(p)' /\ LabelOK(p)'
      BY <1>1, <1>3, <2>2, <2>3, <2>6, Advanced DEF ApplyUpgrade, Applying
    <2> QED BY <1>4, <2>7, <2>8, PodStep
  <1>6. CASE Fault /\ Goto(p, "failed") /\ UNCHANGED loc
    <2>1. pc' \in [Pods -> PCs] /\ pc'[p] = "failed"
      BY <1>6, GotoType DEF PCs, Applying
    <2>2. TypeOK'
      BY <1>6, <2>1, FaultType DEF ApplyUpgrade, TypeOK
    <2>3. CopyOK(p)' /\ FreshOK(p)' /\ LabelOK(p)'
      BY <1>1, <1>6, <2>1, Advanced DEF ApplyUpgrade, Applying
    <2> QED BY <1>4, <2>2, <2>3, PodStep
  <1> QED BY <1>5, <1>6 DEF ApplyUpgrade

LEMMA ApplyCertsIInv ==
    ASSUME IInv, NEW p \in Pods, ApplyCerts(p)
    PROVE  IInv' /\ CRKept
  <1> USE DEF IInv
  <1>1. CRKept /\ Framed(p)
    BY DEF ApplyCerts, Goto, CRKept, Framed, TypeOK
  <1>2. pc' \in [Pods -> PCs] /\ pc'[p] \in {"stage", "certsFailed", "failed"}
    BY GotoType DEF ApplyCerts, PCs, Applying
  <1>3. TypeOK'
    BY <1>2, FaultType DEF ApplyCerts, TypeOK
  <1>4. pc[p] = "certs" /\ loc[p].stage \in 1..Len(Stages)
    BY DEF ApplyCerts, CopyInv, CopyOK
  <1>5. CopyOK(p)' /\ FreshOK(p)' /\ LabelOK(p)'
    BY <1>2, <1>4, Advanced DEF ApplyCerts, Applying
  <1> QED BY <1>1, <1>3, <1>5, PodStep

LEMMA ApplyCertsFailedIInv ==
    ASSUME IInv, NEW p \in Pods, ApplyCertsFailed(p)
    PROVE  IInv' /\ CRKept
  <1> USE DEF IInv
  <1>1. /\ CRKept /\ Framed(p)
        /\ cr'.owner = cr.owner
        /\ fresh'[p] => fresh[p]
    BY DEF ApplyCertsFailed, Goto, Write, WithStatus, CRKept, Framed, TypeOK, CRs
  <1>2. WithStatus(loc[p].inst.ver, "Failed") \in CRs
    BY WithStatusType DEF TypeOK, Locals, CRs
  <1>3. pc' \in [Pods -> PCs] /\ pc'[p] = "failed"
    BY GotoType DEF ApplyCertsFailed, PCs, Applying
  <1>4. /\ cr' \in CRs
        /\ fresh' \in [Pods -> BOOLEAN]
        /\ pending' \in [Pods -> BOOLEAN]
    BY <1>2, WriteType DEF ApplyCertsFailed, TypeOK
  <1>5. TypeOK'
    BY <1>3, <1>4, FaultType DEF ApplyCertsFailed, TypeOK
  <1>6. CopyOK(p)' /\ FreshOK(p)' /\ LabelOK(p)'
    BY <1>1, <1>3, Advanced DEF ApplyCertsFailed, Applying, CRKept
  <1> QED BY <1>1, <1>5, <1>6, PodStep

(* The objects are rendered from a copy with a uid: NoCR is never rendered.*)
LEMMA ApplyStageIInv ==
    ASSUME IInv, NEW p \in Pods, ApplyStage(p)
    PROVE  IInv' /\ CRKept
  <1> USE DEF IInv
  <1> DEFINE i == loc[p].stage
             k == Stages[i]
             rendered == Render(loc[p].orig)
  <1>1. /\ pc[p] = "stage"
        /\ loc[p] \in Locals /\ loc[p].orig \in CRs
        /\ CopyOK(p)
    BY DEF ApplyStage, TypeOK, Locals, CopyInv
  <1>2. /\ loc[p].orig.uid # 0
        /\ i \in 1..Len(Stages)
    BY <1>1 DEF CopyOK, Holding, InReconcile, Applying
  <1>3. k \in Kinds /\ rendered \in Manifests
    <2>1. k \in Kinds
      BY <1>2, Zenon DEF Kinds
    <2>2. /\ loc[p].orig.uid \in 1..MaxCreates
          /\ loc[p].orig.edit \in 0..MaxEdits
          /\ loc[p].orig.mig \in Migrations
      <3>1. /\ loc[p].orig.uid \in 0..MaxCreates
            /\ loc[p].orig.edit \in 0..MaxEdits
            /\ loc[p].orig.mig \in Migrations
        BY <1>1 DEF CRs
      <3>2. MaxCreates \in Nat
        BY ReconcileAssumption
      <3> QED BY <3>1, <3>2, <1>2
    <2>3. rendered \in Manifests
      BY <2>2 DEF Render, Manifests
    <2> QED BY <2>1, <2>3
  <1>4. res' \in [Kinds -> Manifests \cup {Absent}]
    <2>1. CASE res' = [res EXCEPT ![k] = rendered]
      BY <2>1, <1>3 DEF TypeOK
    <2>2. CASE res' = [res EXCEPT ![k] = res[k]]
      BY <2>2, <1>3 DEF TypeOK
    <2> QED BY <2>1, <2>2 DEF ApplyStage
  <1>5. CRKept /\ Framed(p) /\ cr' = cr
    BY DEF ApplyStage, Goto, CRKept, Framed, TypeOK
  <1>6. /\ loc' = loc \/ loc' = [loc EXCEPT ![p].stage = i + 1]
        /\ pc' = pc \/ pc' = [pc EXCEPT ![p] = "store"]
                    \/ pc' = [pc EXCEPT ![p] = "failed"]
        /\ pc' = pc => loc' = [loc EXCEPT ![p].stage = i + 1] /\ i # Len(Stages)
    BY <1>1 DEF ApplyStage, Goto, TypeOK
  <1>7. Len(Stages) \in Nat
    BY ReconcileAssumption
  <1>8. /\ loc'[p].orig = loc[p].orig
        /\ loc'[p].inst = loc[p].inst
        /\ loc'[p].stage \in {i, i + 1}
        /\ loc' \in [Pods -> Locals]
    <2>1. CASE loc' = loc
      BY <2>1, <1>1 DEF TypeOK
    <2>2. CASE loc' = [loc EXCEPT ![p].stage = i + 1]
      <3>1. loc'[p] = [loc[p] EXCEPT !.stage = i + 1]
        BY <2>2 DEF TypeOK
      <3>2. i + 1 \in 0..(Len(Stages) + 1)
        BY <1>2, <1>7
      <3>3. /\ [loc[p] EXCEPT !.stage = i + 1] \in Locals
            /\ loc'[p].orig = loc[p].orig
            /\ loc'[p].inst = loc[p].inst
            /\ loc'[p].stage = i + 1
        BY <3>1, <3>2, <1>1 DEF Locals
      <3> QED BY <2>2, <3>1, <3>3 DEF TypeOK
    <2> QED BY <2>1, <2>2, <1>6
  <1>9. /\ pc' \in [Pods -> PCs]
        /\ pc'[p] \in {"stage", "store", "failed"}
        /\ pc'[p] = "stage" => loc'[p].stage \in 1..Len(Stages)
    <2>1. CASE pc' = pc
      <3>1. loc' = [loc EXCEPT ![p].stage = i + 1] /\ i # Len(Stages)
        BY <2>1, <1>6
      <3>2. loc'[p].stage = i + 1
        BY <3>1, <1>1 DEF TypeOK, Locals
      <3> QED BY <2>1, <3>1, <3>2, <1>1, <1>2, <1>7 DEF TypeOK
    <2>2. CASE pc' = [pc EXCEPT ![p] = "store"] \/ pc' = [pc EXCEPT ![p] = "failed"]
      BY <2>2 DEF TypeOK, PCs, Applying
    <2> QED BY <2>1, <2>2, <1>6
  <1>10. TypeOK'
    BY <1>4, <1>8, <1>9, FaultType DEF ApplyStage, TypeOK
  <1>11. CopyOK(p)' /\ FreshOK(p)' /\ LabelOK(p)'
    BY <1>1, <1>5, <1>8, <1>9, Advanced DEF ApplyStage, Applying
  <1> QED BY <1>5, <1>10, <1>11, PodStep

(* What is stored back has the uid, label and edit of the CR: the copy is  *)
(* fresh, or the server refuses it.                                        *)
LEMMA StoreInstanceIInv ==
    ASSUME IInv, NEW p \in Pods, StoreInstance(p)
    PROVE  IInv' /\ CRKept
  <1> USE DEF IInv
  <1> DEFINE j == loc[p].inst
             new == [j EXCEPT !.ver = cr.ver, !.phase = cr.phase]
  <1>1. /\ pc[p] = "store"
        /\ loc[p] \in Locals /\ j \in CRs
        /\ CopyOK(p) /\ FreshOK(p)
    BY DEF StoreInstance, TypeOK, Locals, CopyInv, FreshInv
  <1>2. CASE j = loc[p].orig /\ Goto(p, "status") /\ NoFault
             /\ UNCHANGED <<cr, fresh, pending, loc>>
    <2>1. pc' \in [Pods -> PCs] /\ pc'[p] = "status"
      BY <1>2, GotoType DEF PCs, Applying
    <2>2. TypeOK'
      BY <1>2, <2>1, FaultType DEF StoreInstance, TypeOK
    <2>3. CRKept /\ Framed(p)
      BY <1>2 DEF StoreInstance, Goto, CRKept, Framed, TypeOK
    <2>4. CopyOK(p)' /\ FreshOK(p)' /\ LabelOK(p)'
      BY <1>1, <1>2, <2>1, Advanced DEF StoreInstance, Applying
    <2> QED BY <2>2, <2>3, <2>4, PodStep
  <1>3. CASE /\ fresh[p] /\ NoFault
             /\ Write(new, {p}, {})
             /\ loc' = [loc EXCEPT ![p].inst.phase = cr.phase]
             /\ Goto(p, "status")
    <2>1. /\ new \in CRs
          /\ new.uid = j.uid /\ new.owner = j.owner /\ new.edit = j.edit
      BY <1>1 DEF TypeOK, CRs
    <2>2. new.uid = cr.uid /\ new.owner = cr.owner /\ new.edit = cr.edit
      BY <1>1, <1>3, <2>1 DEF CopyOK, FreshOK, InReconcile, Applying
    <2> HIDE DEF new
    <2>3. cr' = new
      BY <1>3 DEF Write
    <2>4. CRKept /\ Framed(p)
      BY <1>3, <2>2, <2>3 DEF StoreInstance, Goto, Write, CRKept, Framed, TypeOK
    <2>5. pc' \in [Pods -> PCs] /\ pc'[p] = "status"
      BY <1>3, GotoType DEF PCs, Applying
    <2>6. /\ loc'[p].orig = loc[p].orig
          /\ loc'[p].inst.uid = j.uid
          /\ loc'[p].inst.owner = j.owner
          /\ loc'[p].inst.edit = j.edit
          /\ loc' \in [Pods -> Locals]
      <3>1. loc'[p] = [loc[p] EXCEPT !.inst = [j EXCEPT !.phase = cr.phase]]
        BY <1>3, <1>1 DEF TypeOK, Locals, CRs
      <3> DEFINE j2 == [j EXCEPT !.phase = cr.phase]
      <3>2. /\ j2 \in CRs
            /\ j2.uid = j.uid /\ j2.owner = j.owner /\ j2.edit = j.edit
        BY <1>1 DEF TypeOK, CRs
      <3> HIDE DEF j2
      <3>3. loc'[p] = [loc[p] EXCEPT !.inst = j2]
        BY <3>1, Zenon DEF j2
      <3>4. [loc[p] EXCEPT !.inst = j2] \in Locals
        BY <3>2, <1>1 DEF Locals
      <3>5. loc'[p].orig = loc[p].orig /\ loc'[p].inst = j2
        BY <3>3, <1>1 DEF Locals
      <3>6. loc' \in [Pods -> Locals]
        BY <1>3, <3>3, <3>4 DEF TypeOK
      <3> QED BY <3>2, <3>5, <3>6
    <2>7. TypeOK'
      BY <1>3, <2>1, <2>5, <2>6, WriteType, FaultType DEF StoreInstance, TypeOK
    <2>8. CopyOK(p)' /\ FreshOK(p)' /\ LabelOK(p)'
      BY <1>1, <1>3, <2>2, <2>3, <2>5, <2>6, Advanced DEF StoreInstance, Applying
    <2> QED BY <2>4, <2>7, <2>8, PodStep
  <1>4. CASE /\ (~fresh[p] /\ NoFault) \/ Fault
             /\ Requeue(p)
             /\ UNCHANGED <<cr, fresh>>
    <2>1. CRKept /\ Framed(p)
      BY <1>4 DEF StoreInstance, Requeue, Return, Goto, CRKept, Framed, TypeOK
    <2>2. TypeOK'
      BY <1>4, ReturnType, FaultType DEF StoreInstance, Requeue, TypeOK
    <2> QED BY <1>4, <2>1, <2>2, Returned, PodStep DEF StoreInstance, Requeue
  <1> QED BY <1>2, <1>3, <1>4 DEF StoreInstance

LEMMA ReconcileGetIInv ==
    ASSUME IInv, NEW p \in Pods, ReconcileGet(p)
    PROVE  IInv' /\ CRKept
  <1> USE DEF IInv
  <1>1. CRKept /\ Framed(p)
    BY DEF ReconcileGet, Goto, CRKept, Framed, TypeOK
  <1>2. CASE /\ Exists /\ NoFault
             /\ loc' = [loc EXCEPT ![p].orig = cr, ![p].inst = cr]
             /\ fresh' = [fresh EXCEPT ![p] = TRUE]
             /\ pending' = [pending EXCEPT ![p] = FALSE]
             /\ Goto(p, "sync")
    <2>1. loc'[p] = [loc[p] EXCEPT !.orig = cr, !.inst = cr]
      BY <1>2 DEF TypeOK, Locals
    <2>2. /\ loc[p] \in Locals /\ cr \in CRs
          /\ cr.uid <= creates /\ cr.uid # 0
      BY <1>2 DEF TypeOK, NumbersInv, Exists
    <2>3. /\ [loc[p] EXCEPT !.orig = cr, !.inst = cr] \in Locals
          /\ loc'[p].orig = cr /\ loc'[p].inst = cr
      BY <2>1, <2>2 DEF Locals
    <2>4. loc' \in [Pods -> Locals]
      BY <1>2, <2>1, <2>3 DEF TypeOK
    <2>5. pc' \in [Pods -> PCs] /\ pc'[p] = "sync"
      BY <1>2, GotoType DEF PCs
    <2>6. TypeOK'
      BY <1>2, <2>4, <2>5, FaultType DEF ReconcileGet, TypeOK
    <2>7. CopyOK(p)' /\ FreshOK(p)' /\ LabelOK(p)'
      BY <2>2, <2>3, <2>5 DEF ReconcileGet, CopyOK, FreshOK, LabelOK,
         Holding, InReconcile, Applying, Upgrading
    <2> QED BY <1>1, <2>6, <2>7, PodStep
  <1>3. CASE UNCHANGED <<pc, loc, fresh>>
    <2>1. TypeOK'
      BY <1>3, FaultType DEF ReconcileGet, TypeOK
    <2>2. CopyOK(p) /\ FreshOK(p) /\ LabelOK(p)
      BY DEF CopyInv, FreshInv, LabelInv
    <2>3. CopyOK(p)' /\ FreshOK(p)' /\ LabelOK(p)'
      BY <1>3, <2>2 DEF ReconcileGet, CopyOK, FreshOK, LabelOK
    <2> QED BY <1>1, <2>1, <2>3, PodStep
  <1> QED BY <1>2, <1>3 DEF ReconcileGet

LEMMA ReconcileCheckIInv ==
    ASSUME IInv, NEW p \in Pods, ReconcileCheck(p)
    PROVE  IInv' /\ CRKept
  <1> USE DEF IInv
  <1>1. CRKept /\ Framed(p)
    BY DEF ReconcileCheck, Requeue, Done, Return, Goto, CRKept, Framed, TypeOK
  <1>2. /\ pc[p] = "sync" /\ loc[p] \in Locals /\ loc[p].inst \in CRs
        /\ CopyOK(p) /\ FreshOK(p) /\ LabelOK(p)
    BY DEF ReconcileCheck, CopyInv, FreshInv, LabelInv, TypeOK, Locals
  <1>3. CASE Requeue(p) \/ Done(p)
    <2>1. TypeOK'
      BY <1>3, ReturnType, FaultType DEF ReconcileCheck, Requeue, Done, TypeOK
    <2> QED BY <1>1, <1>3, <2>1, Returned, PodStep DEF ReconcileCheck, Requeue, Done
  <1>4. CASE /\ NoFault /\ loc[p].orig.owner = NoOwner
             /\ Goto(p, "adopt") /\ UNCHANGED <<loc, pending>>
    <2>1. pc' \in [Pods -> PCs] /\ pc'[p] = "adopt"
      BY <1>4, GotoType DEF PCs
    <2>2. TypeOK'
      BY <1>4, <2>1, FaultType DEF ReconcileCheck, TypeOK
    <2>3. CopyOK(p)' /\ FreshOK(p)' /\ LabelOK(p)'
      BY <1>2, <1>4, <2>1 DEF ReconcileCheck, CopyOK, FreshOK, LabelOK,
         Holding, InReconcile, Applying, Upgrading
    <2> QED BY <1>1, <2>2, <2>3, PodStep
  <1>5. CASE /\ NoFault /\ loc[p].orig.owner = Identity[p]
             /\ Goto(p, "upgrade")
             /\ loc' = [loc EXCEPT ![p].inst.norm = TRUE]
             /\ UNCHANGED pending
    <2> DEFINE j == [loc[p].inst EXCEPT !.norm = TRUE]
    <2>1. /\ j \in CRs
          /\ j.uid = loc[p].inst.uid
          /\ j.owner = loc[p].inst.owner
          /\ j.edit = loc[p].inst.edit
      BY <1>2 DEF CRs
    <2>2. loc'[p] = [loc[p] EXCEPT !.inst = j]
      BY <1>5, <1>2 DEF TypeOK, Locals, CRs
    <2> HIDE DEF j
    <2>3. /\ [loc[p] EXCEPT !.inst = j] \in Locals
          /\ loc'[p].orig = loc[p].orig
          /\ loc'[p].inst = j
      BY <2>1, <2>2, <1>2 DEF Locals
    <2>4. loc' \in [Pods -> Locals]
      BY <1>5, <2>2, <2>3 DEF TypeOK
    <2>5. pc' \in [Pods -> PCs] /\ pc'[p] = "upgrade"
      BY <1>5, GotoType DEF PCs, Applying
    <2>6. TypeOK'
      BY <1>5, <2>4, <2>5, FaultType DEF ReconcileCheck, TypeOK
    <2>7. CopyOK(p)' /\ FreshOK(p)' /\ LabelOK(p)'
      BY <1>2, <1>5, <2>1, <2>3, <2>5 DEF ReconcileCheck, CopyOK, FreshOK,
         LabelOK, Holding, InReconcile, Applying, Upgrading
    <2> QED BY <1>1, <2>6, <2>7, PodStep
  <1> QED BY <1>3, <1>4, <1>5 DEF ReconcileCheck

-----------------------------------------------------------------------------
(* The upgrade at start-up.                                                *)

LEMMA StartControllersType ==
    ASSUME TypeOK, NEW p \in Pods, StartControllers(p)
    PROVE  /\ Return(p)
           /\ pending' \in [Pods -> BOOLEAN]
  BY DEF StartControllers, Return, TypeOK, Exists

LEMMA StartupListIInv ==
    ASSUME IInv, NEW p \in Pods, StartupList(p)
    PROVE  IInv' /\ CRKept
  <1> USE DEF IInv
  <1> DEFINE up == ManagedInstance(cr.ver, cr.mig, bin[p])
             j == [cr EXCEPT !.ver = up.ver, !.mig = up.mig]
  <1>1. CRKept /\ Framed(p)
    BY DEF StartupList, StartControllers, Goto, CRKept, Framed, TypeOK
  <1>2. CASE /\ NoFault /\ Exists /\ cr.owner = Identity[p]
             /\ Goto(p, "patch")
             /\ loc' = [loc EXCEPT ![p].orig = cr, ![p].inst = j]
             /\ UNCHANGED pending
    <2>1. up.ver \in 0..MaxVersion /\ up.mig \in Migrations
      <3>1. cr.ver \in 0..MaxVersion /\ cr.mig \in Migrations
        BY DEF TypeOK, CRs
      <3>2. bin[p] \in Versions
        BY ReconcileAssumption DEF TypeOK
      <3> QED BY <3>1, <3>2, ManagedInstanceType
    <2> HIDE DEF up
    <2>2. /\ j \in CRs
          /\ j.uid = cr.uid /\ j.owner = cr.owner /\ j.edit = cr.edit
      BY <2>1 DEF TypeOK, CRs
    <2> HIDE DEF j
    <2>3. loc'[p] = [loc[p] EXCEPT !.orig = cr, !.inst = j]
      BY <1>2 DEF TypeOK, Locals
    <2>4. /\ loc[p] \in Locals /\ cr \in CRs
          /\ cr.uid <= creates /\ cr.uid # 0
      BY <1>2 DEF TypeOK, NumbersInv, Exists
    <2>5. /\ [loc[p] EXCEPT !.orig = cr, !.inst = j] \in Locals
          /\ loc'[p].orig = cr /\ loc'[p].inst = j
      BY <2>2, <2>3, <2>4 DEF Locals
    <2>6. loc' \in [Pods -> Locals]
      BY <1>2, <2>3, <2>5 DEF TypeOK
    <2>7. pc' \in [Pods -> PCs] /\ pc'[p] = "patch"
      BY <1>2, GotoType DEF PCs, Upgrading
    <2>8. TypeOK'
      BY <1>2, <2>6, <2>7, FaultType DEF StartupList, TypeOK
    <2>9. CopyOK(p)' /\ FreshOK(p)' /\ LabelOK(p)'
      BY <1>2, <2>2, <2>4, <2>5, <2>7 DEF StartupList, CopyOK, FreshOK, LabelOK,
         Holding, InReconcile, Applying, Upgrading
    <2> QED BY <1>1, <2>8, <2>9, PodStep
  <1>3. CASE (NoFault \/ Fault) /\ StartControllers(p)
    <2>1. TypeOK'
      BY <1>3, StartControllersType, ReturnType, FaultType DEF StartupList, TypeOK
    <2> QED BY <1>1, <1>3, <2>1, StartControllersType, Returned, PodStep
         DEF StartupList
  <1> QED BY <1>2, <1>3 DEF StartupList

LEMMA StartupPatchIInv ==
    ASSUME IInv, NEW p \in Pods, StartupPatch(p)
    PROVE  IInv' /\ CRKept
  <1> USE DEF IInv
  <1> DEFINE l == loc[p]
             patched == [s \in Steps |-> IF l.inst.mig[s] # l.orig.mig[s]
                                         THEN l.inst.mig[s] ELSE cr.mig[s]]
             new == [cr EXCEPT !.mig = patched]
  <1>1. l \in Locals /\ l.inst \in CRs /\ cr \in CRs
        /\ pc[p] = "patch" /\ CopyOK(p) /\ LabelOK(p)
    BY DEF TypeOK, Locals, StartupPatch, CopyInv, LabelInv
  <1>2. CASE /\ NoFault /\ Exists
             /\ Write(new, {}, {})
             /\ loc' = [loc EXCEPT ![p].rver = cr.ver]
             /\ Goto(p, "statusPatch")
    <2>1. patched \in Migrations
      BY <1>1 DEF CRs, Migrations
    <2> HIDE DEF patched
    <2>2. /\ new \in CRs
          /\ new.uid = cr.uid /\ new.owner = cr.owner /\ new.edit = cr.edit
      BY <2>1, <1>1 DEF CRs
    <2> HIDE DEF new
    <2>3. cr' = new
      BY <1>2 DEF Write
    <2>4. CRKept /\ Framed(p)
      BY <1>2, <2>2, <2>3 DEF StartupPatch, Goto, Write, CRKept, Framed, TypeOK
    <2>5. pc' \in [Pods -> PCs] /\ pc'[p] = "statusPatch"
      BY <1>2, GotoType DEF PCs, Upgrading
    <2>6. loc'[p] = [l EXCEPT !.rver = cr.ver] /\ cr.ver \in 0..MaxVersion
      BY <1>1, <1>2 DEF TypeOK, CRs
    <2>7. /\ [l EXCEPT !.rver = cr.ver] \in Locals
          /\ loc'[p].orig = l.orig /\ loc'[p].inst = l.inst
      BY <2>6, <1>1 DEF Locals
    <2>8. loc' \in [Pods -> Locals]
      BY <1>2, <2>6, <2>7 DEF TypeOK
    <2>9. TypeOK'
      BY <1>2, <2>2, <2>5, <2>8, WriteType, FaultType DEF StartupPatch, TypeOK
    <2>10. CopyOK(p)' /\ FreshOK(p)' /\ LabelOK(p)'
      BY <1>1, <2>2, <2>3, <2>5, <2>7 DEF StartupPatch, CopyOK, FreshOK, LabelOK,
         Holding, InReconcile, Applying, Upgrading
    <2> QED BY <2>4, <2>9, <2>10, PodStep
  <1>3. CASE (NoFault \/ Fault) /\ StartControllers(p) /\ UNCHANGED <<cr, fresh>>
    <2>1. TypeOK'
      BY <1>3, StartControllersType, ReturnType, FaultType DEF StartupPatch, TypeOK
    <2>2. CRKept /\ Framed(p)
      BY <1>3 DEF StartupPatch, StartControllers, Goto, CRKept, Framed, TypeOK
    <2> QED BY <1>3, <2>1, <2>2, StartControllersType, Returned, PodStep
         DEF StartupPatch
  <1> QED BY <1>2, <1>3 DEF StartupPatch

LEMMA StartupStatusPatchIInv ==
    ASSUME IInv, NEW p \in Pods, StartupStatusPatch(p)
    PROVE  IInv' /\ CRKept
  <1> USE DEF IInv
  <1> DEFINE new == IF loc[p].rver = loc[p].inst.ver THEN cr
                    ELSE [cr EXCEPT !.ver = loc[p].inst.ver]
  <1>1. /\ new \in CRs
        /\ new.uid = cr.uid /\ new.owner = cr.owner /\ new.edit = cr.edit
    <2>1. cr \in CRs /\ loc[p].inst.ver \in 0..MaxVersion
      BY DEF TypeOK, Locals, CRs
    <2> QED BY <2>1 DEF CRs
  <1> HIDE DEF new
  <1>2. \/ Write(new, {}, {p})
        \/ UNCHANGED <<cr, fresh>> /\ pending' = [pending EXCEPT ![p] = Exists]
    BY DEF StartupStatusPatch, new
  <1>3. Return(p) /\ UNCHANGED <<creates, edits, res, bin, restarts>>
        /\ (NoFault \/ Fault)
    BY DEF StartupStatusPatch, Return
  <1>4. CRKept /\ Framed(p)
    BY <1>1, <1>2, <1>3 DEF Return, Goto, Write, CRKept, Framed, TypeOK
  <1>5. TypeOK'
    BY <1>1, <1>2, <1>3, WriteType, ReturnType, FaultType DEF Exists, TypeOK
  <1> QED BY <1>3, <1>4, <1>5, Returned, PodStep

-----------------------------------------------------------------------------
(* The life of a pod, the garbage collector and the user.                  *)

LEMMA CrashIInv ==
    ASSUME IInv, NEW p \in Pods, Crash(p)
    PROVE  IInv' /\ CRKept
  <1> USE DEF IInv
  <1>1. CRKept /\ Framed(p)
    BY DEF Crash, Goto, CRKept, Framed, TypeOK
  <1>2. pc' \in [Pods -> PCs] /\ pc'[p] = "down"
    BY GotoType DEF Crash, PCs, Steady
  <1>3. loc' \in [Pods -> Locals] /\ loc'[p] = NoLocals
    BY NoLocalsType DEF Crash, TypeOK
  <1>4. TypeOK'
    BY <1>2, <1>3, ReconcileAssumption DEF Crash, TypeOK
  <1>5. creates' \in Nat
    BY ReconcileAssumption DEF Crash, TypeOK
  <1>6. CopyOK(p)' /\ FreshOK(p)' /\ LabelOK(p)'
    BY <1>2, <1>3, <1>5, NoFields DEF CopyOK, FreshOK, LabelOK, Holding,
       InReconcile, Applying, Upgrading
  <1> QED BY <1>1, <1>4, <1>6, PodStep

LEMMA RestartIInv ==
    ASSUME IInv, NEW p \in Pods, Restart(p)
    PROVE  IInv' /\ CRKept
  <1> USE DEF IInv
  <1>1. CRKept /\ Framed(p)
    BY DEF Restart, Goto, CRKept, Framed, TypeOK, bounds
  <1>2. pc' \in [Pods -> PCs] /\ pc'[p] = "startup" /\ pc[p] = "down"
    BY GotoType DEF Restart, PCs, Steady
  <1>3. bin' \in [Pods -> Binaries]
    BY DEF Restart, TypeOK
  <1>4. TypeOK'
    BY <1>2, <1>3 DEF Restart, TypeOK, bounds
  <1>5. CopyOK(p) /\ FreshOK(p) /\ LabelOK(p)
    BY DEF CopyInv, FreshInv, LabelInv
  <1>6. CopyOK(p)' /\ FreshOK(p)' /\ LabelOK(p)'
    BY <1>2, <1>5 DEF Restart, bounds, CopyOK, FreshOK, LabelOK, Holding,
       InReconcile, Applying, Upgrading
  <1> QED BY <1>1, <1>4, <1>6, PodStep

LEMMA GarbageCollectIInv ==
    ASSUME IInv, NEW k \in Kinds, GarbageCollect(k)
    PROVE  IInv'
  <1>1. TypeOK'
    BY DEF IInv, GarbageCollect, TypeOK, bounds
  <1>2. UNCHANGED <<cr, pc, fresh, loc, edits, creates>>
    BY DEF GarbageCollect, bounds
  <1> QED BY <1>1, <1>2 DEF IInv, NumbersInv, CopyInv, CopyOK, FreshInv, FreshOK,
          LabelInv, LabelOK

(* A write of the user makes every copy stale.                             *)
LEMMA UserStep ==
    ASSUME IInv, TypeOK', NumbersInv', cr' # cr, Write(cr', {}, {}),
           UNCHANGED <<pc, loc>>, creates <= creates',
           \/ cr'.uid = 0
           \/ cr'.uid > creates
           \/ cr'.uid = cr.uid /\ cr'.owner = cr.owner
    PROVE  IInv'
  <1> SUFFICES ASSUME NEW p \in Pods
               PROVE  CopyOK(p)' /\ FreshOK(p)' /\ LabelOK(p)'
    BY DEF IInv, CopyInv, FreshInv, LabelInv
  <1>1. CopyOK(p) /\ LabelOK(p)
    BY DEF IInv, CopyInv, LabelInv
  <1>2. creates \in Int /\ creates' \in Int /\ loc[p].orig.uid \in Int
    <2>1. creates \in Int /\ creates' \in Int /\ loc[p] \in Locals
      BY DEF IInv, TypeOK
    <2>2. loc[p].orig \in CRs
      BY <2>1 DEF Locals
    <2>3. loc[p].orig.uid \in 0..MaxCreates
      BY <2>2 DEF CRs
    <2> QED BY <2>1, <2>3
  <1>3. CopyOK(p)'
    BY <1>1, <1>2 DEF CopyOK
  <1>4. ~fresh'[p]
    BY DEF Write
  <1>5. FreshOK(p)'
    BY <1>4 DEF FreshOK
  <1>6. LabelOK(p)'
    BY <1>1, <1>2 DEF LabelOK, CopyOK
  <1> QED BY <1>3, <1>5, <1>6

LEMMA UserIInv ==
    ASSUME IInv, User
    PROVE  IInv'
  <1> USE DEF IInv
  <1>0. /\ MaxCreates \in Nat /\ MaxEdits \in Nat
        /\ cr \in CRs /\ cr.uid \in Nat /\ cr.edit \in Nat
        /\ creates \in 0..MaxCreates /\ edits \in 0..MaxEdits
        /\ cr.uid <= creates /\ cr.edit <= edits
    <2>1. MaxCreates \in Nat /\ MaxEdits \in Nat
      BY ReconcileAssumption
    <2>2. /\ cr \in CRs /\ creates \in 0..MaxCreates /\ edits \in 0..MaxEdits
          /\ cr.uid <= creates /\ cr.edit <= edits
      BY DEF TypeOK, NumbersInv
    <2>3. cr.uid \in 0..MaxCreates /\ cr.edit \in 0..MaxEdits
      BY <2>2 DEF CRs
    <2> QED BY <2>1, <2>2, <2>3
  <1>1. CASE UserCreate
    <2> DEFINE new == [NoCR EXCEPT !.uid = creates + 1, !.edit = edits + 1,
                                   !.mig = FormatOf(MaxVersion)]
    <2>1. creates + 1 \in 0..MaxCreates /\ edits + 1 \in 0..MaxEdits
      BY <1>0, <1>1 DEF UserCreate
    <2>2. FormatOf(MaxVersion) \in Migrations
      BY FormatType, UpgradeAssumption
    <2>3. new \in CRs /\ new.uid = creates + 1 /\ new.edit = edits + 1
      BY <2>1, <2>2, NoCRType DEF CRs
    <2> HIDE DEF new
    <2>4. cr' = new /\ Write(new, {}, {})
      BY <1>1 DEF UserCreate, Write, new
    <2>5. TypeOK'
      BY <1>1, <2>1, <2>3, <2>4, WriteType DEF UserCreate, TypeOK
    <2>6. NumbersInv' /\ cr' # cr /\ cr'.uid > creates /\ creates <= creates'
      BY <1>0, <1>1, <2>3, <2>4 DEF UserCreate, NumbersInv, Exists
    <2> QED BY <1>1, <2>4, <2>5, <2>6, UserStep DEF UserCreate
  <1>2. CASE UserEdit
    <2> DEFINE new == [cr EXCEPT !.edit = edits + 1, !.norm = FALSE]
    <2>1. edits + 1 \in 0..MaxEdits
      BY <1>0, <1>2 DEF UserEdit
    <2>2. /\ new \in CRs /\ new.uid = cr.uid /\ new.owner = cr.owner
          /\ new.edit = edits + 1
      BY <2>1, <1>0 DEF CRs
    <2> HIDE DEF new
    <2>3. cr' = new /\ Write(new, {}, {})
      BY <1>2 DEF UserEdit, Write, new
    <2>4. TypeOK'
      BY <1>2, <2>1, <2>2, <2>3, WriteType DEF UserEdit, TypeOK
    <2>5. NumbersInv' /\ cr' # cr /\ creates <= creates'
      BY <1>0, <1>2, <2>2, <2>3 DEF UserEdit, NumbersInv
    <2> QED BY <1>2, <2>2, <2>3, <2>4, <2>5, UserStep DEF UserEdit
  <1>3. CASE UserDelete
    <2>1. cr' = NoCR /\ Write(NoCR, {}, {})
      BY <1>3 DEF UserDelete, Write
    <2>2. TypeOK'
      BY <1>3, <2>1, NoCRType, WriteType DEF UserDelete, TypeOK, bounds
    <2>3. NumbersInv' /\ cr' # cr /\ cr'.uid = 0 /\ creates <= creates'
      BY <1>0, <1>3, <2>1, NoFields DEF UserDelete, NumbersInv, Exists, bounds
    <2> QED BY <1>3, <2>1, <2>2, <2>3, UserStep DEF UserDelete
  <1> QED BY <1>1, <1>2, <1>3 DEF User

-----------------------------------------------------------------------------
LEMMA NextIInv == IInv /\ [Next]_vars => IInv'
  <1> SUFFICES ASSUME IInv, [Next]_vars PROVE IInv'
    OBVIOUS
  <1>1. CASE User
    BY <1>1, UserIInv
  <1>2. ASSUME NEW k \in Kinds, GarbageCollect(k) PROVE IInv'
    BY <1>2, GarbageCollectIInv
  <1>3. ASSUME NEW p \in Pods, Crash(p) \/ Restart(p) PROVE IInv'
    BY <1>3, CrashIInv, RestartIInv
  <1>4. ASSUME NEW p \in Pods, ManagedInstances(p) PROVE IInv'
    BY <1>4, StartupListIInv, StartupPatchIInv, StartupStatusPatchIInv
    DEF ManagedInstances
  <1>5. ASSUME NEW p \in Pods, Reconcile(p) PROVE IInv'
    BY <1>5, ReconcileGetIInv, ReconcileCheckIInv, ReconcileAdoptIInv,
       ReconcileAdoptFailedIInv, ApplyUpgradeIInv, ApplyCertsIInv,
       ApplyCertsFailedIInv, ApplyStageIInv, StoreFailedIInv, StoreInstanceIInv,
       StoreStatusIInv
    DEF Reconcile
  <1>6. CASE UNCHANGED vars
    BY <1>6 DEF vars, IInv, TypeOK, NumbersInv, CopyInv, CopyOK, FreshInv,
       FreshOK, LabelInv, LabelOK
  <1> QED BY <1>1, <1>2, <1>3, <1>4, <1>5, <1>6 DEF Next

LEMMA Invariance == Spec => []IInv
  BY InitIInv, NextIInv, PTL DEF Spec

(* Type correctness of the reconciliation: in particular only a CR that    *)
(* exists is ever rendered (Manifests has no uid 0), so every object that  *)
(* apply creates has an owner reference.                                   *)
THEOREM TypeCorrect == Spec => []TypeOK
  <1>1. IInv => TypeOK
    BY DEF IInv
  <1> QED BY <1>1, Invariance, PTL

(* Two operators never work on the same CR, for any number of operators    *)
(* and pods: after Get and the owner check, the identity of a pod is the   *)
(* one in the stored label as long as the CR it read exists.               *)
THEOREM SingleManagerHolds == Spec => []SingleManager
  <1>1. IInv => SingleManager
    <2> SUFFICES ASSUME IInv, NEW p \in Pods,
                        pc[p] \in Applying \cup Upgrading,
                        loc[p].orig.uid = cr.uid
                 PROVE  cr.owner = Identity[p]
      BY DEF SingleManager
    <2>1. CopyOK(p) /\ LabelOK(p)
      BY DEF IInv, CopyInv, LabelInv
    <2>2. loc[p].orig.uid # 0 /\ loc[p].orig.owner = Identity[p]
      BY <2>1 DEF CopyOK, Holding, InReconcile
    <2>3. Identity[p] # NoOwner
      BY ReconcileAssumption DEF Identities
    <2> QED BY <2>1, <2>2, <2>3 DEF LabelOK
  <1> QED BY <1>1, Invariance, PTL

(* What any step may do to the label and the edit of a CR that stays.      *)
LEMMA NextKept ==
    ASSUME IInv, [Next]_vars, cr'.uid = cr.uid
    PROVE  /\ cr.owner # NoOwner => cr'.owner = cr.owner
           /\ Exists => cr'.edit >= cr.edit
  <1>1. cr \in CRs /\ cr.edit \in 0..MaxEdits
    BY DEF IInv, TypeOK, CRs
  <1>2. cr.edit \in Int
    BY <1>1
  <1>3. CASE CRKept
    BY <1>2, <1>3 DEF CRKept
  <1>4. CASE UserCreate
    <2>1. /\ cr.uid = 0 /\ cr'.uid = creates + 1
      BY <1>4 DEF UserCreate, Exists, Write, NoCR
    <2>2. creates \in Nat
      BY ReconcileAssumption DEF IInv, TypeOK
    <2> QED BY <2>1, <2>2
  <1>5. CASE UserEdit
    <2>1. /\ cr'.owner = cr.owner /\ cr'.edit = edits + 1
      BY <1>1, <1>5 DEF UserEdit, Write, CRs
    <2>2. edits \in Int /\ cr.edit <= edits
      BY DEF IInv, TypeOK, NumbersInv
    <2> QED BY <1>2, <2>1, <2>2
  <1>6. CASE UserDelete
    BY <1>6, NoFields DEF UserDelete, Write, Exists
  <1>7. CASE \E k \in Kinds : GarbageCollect(k)
    BY <1>3, <1>7 DEF GarbageCollect, CRKept
  <1>8. CASE UNCHANGED vars
    BY <1>3, <1>8 DEF vars, CRKept
  <1>9. CASE \E p \in Pods : \/ Crash(p) \/ Restart(p)
                             \/ ManagedInstances(p) \/ Reconcile(p)
    <2> PICK p \in Pods : \/ Crash(p) \/ Restart(p)
                          \/ ManagedInstances(p) \/ Reconcile(p)
      BY <1>9
    <2>1. CASE Crash(p) \/ Restart(p)
      BY <1>3, <2>1, CrashIInv, RestartIInv
    <2>2. CASE ManagedInstances(p)
      BY <1>3, <2>2, StartupListIInv, StartupPatchIInv, StartupStatusPatchIInv
      DEF ManagedInstances
    <2>3. CASE Reconcile(p)
      BY <1>3, <2>3, ReconcileGetIInv, ReconcileCheckIInv, ReconcileAdoptIInv,
         ReconcileAdoptFailedIInv, ApplyUpgradeIInv, ApplyCertsIInv,
         ApplyCertsFailedIInv, ApplyStageIInv, StoreFailedIInv,
         StoreInstanceIInv, StoreStatusIInv
      DEF Reconcile
    <2> QED BY <2>1, <2>2, <2>3
  <1> QED BY <1>4, <1>5, <1>6, <1>7, <1>8, <1>9 DEF Next, User

(* No operator ever takes a CR from another, for any number of operators   *)
(* that race to set the operated-by label.                                 *)
THEOREM OwnerNeverStolenHolds == Spec => OwnerNeverStolen
  <1>1. IInv /\ [Next]_vars =>
          [cr'.uid = cr.uid /\ cr.owner # NoOwner => cr'.owner = cr.owner]_vars
    BY NextKept
  <1> QED BY <1>1, Invariance, PTL DEF Spec, OwnerNeverStolen

(* No step of any pod, its copy as old as it may be, undoes an edit of the *)
(* user.                                                                   *)
THEOREM EditNeverLostHolds == Spec => EditNeverLost
  <1>1. IInv /\ [Next]_vars =>
          [cr'.uid = cr.uid /\ Exists => cr'.edit >= cr.edit]_vars
    BY NextKept
  <1> QED BY <1>1, Invariance, PTL DEF Spec, EditNeverLost

-----------------------------------------------------------------------------
(* The refinement of Management.                                           *)

(* Whoever works on the CR bears its label.                                *)
LEMMA WorkingOwner == IInv => Working \subseteq {cr.owner} \ {NoOwner}
  <1> SUFFICES ASSUME IInv, NEW p \in Pods,
                      pc[p] \in Applying \cup Upgrading,
                      loc[p].orig.uid = cr.uid
               PROVE  Identity[p] = cr.owner /\ Identity[p] # NoOwner
    BY DEF Working
  <1>1. CopyOK(p) /\ LabelOK(p)
    BY DEF IInv, CopyInv, LabelInv
  <1>2. loc[p].orig.uid # 0 /\ loc[p].orig.owner = Identity[p]
    BY <1>1 DEF CopyOK, Holding, InReconcile
  <1>3. Identity[p] # NoOwner
    BY ReconcileAssumption DEF Identities
  <1> QED BY <1>1, <1>2, <1>3 DEF LabelOK

(* A CR that is new, or none, has nobody at work.                          *)
LEMMA NobodyWorking ==
    ASSUME IInv, IInv', UNCHANGED <<pc, loc>>,
           cr'.uid = 0 \/ cr'.uid = creates + 1
    PROVE  Working' = {}
  <1> SUFFICES ASSUME NEW p \in Pods,
                      pc[p] \in Applying \cup Upgrading,
                      loc[p].orig.uid = cr'.uid
               PROVE  FALSE
    BY DEF Working
  <1>1. CopyOK(p)
    BY DEF IInv, CopyInv
  <1>2. loc[p].orig.uid # 0 /\ loc[p].orig.uid <= creates
    BY <1>1 DEF CopyOK, Holding, InReconcile
  <1>3. creates \in 0..MaxCreates /\ loc[p] \in Locals
    BY DEF IInv, TypeOK
  <1>4. loc[p].orig \in CRs
    BY <1>3 DEF Locals
  <1>5. loc[p].orig.uid \in 0..MaxCreates
    BY <1>4 DEF CRs
  <1> QED BY <1>2, <1>3, <1>5, ReconcileAssumption

(* Apart from the user nobody touches the numbers.                         *)
LEMMA PodNumbers ==
    ASSUME NEW p \in Pods,
           Crash(p) \/ Restart(p) \/ ManagedInstances(p) \/ Reconcile(p)
    PROVE  UNCHANGED <<creates, edits>>
  <1>1. CASE Crash(p) \/ Restart(p)
    BY <1>1 DEF Crash, Restart, bounds
  <1>2. CASE ManagedInstances(p)
    BY <1>2 DEF ManagedInstances, StartupList, StartupPatch, StartupStatusPatch
  <1>3. CASE Reconcile(p)
    BY <1>3 DEF Reconcile, ReconcileGet, ReconcileCheck, ReconcileAdopt,
       ReconcileAdoptFailed, ApplyUpgrade, ApplyCerts, ApplyCertsFailed,
       ApplyStage, StoreFailed, StoreInstance, StoreStatus
  <1> QED BY <1>1, <1>2, <1>3

LEMMA NextSplit ==
    ASSUME IInv, [Next]_vars
    PROVE  User \/ (CRKept /\ UNCHANGED <<creates, edits>>)
  <1>1. CASE \E k \in Kinds : GarbageCollect(k)
    BY <1>1 DEF GarbageCollect, CRKept, bounds
  <1>2. CASE UNCHANGED vars
    BY <1>2 DEF vars, CRKept
  <1>3. CASE \E p \in Pods : \/ Crash(p) \/ Restart(p)
                             \/ ManagedInstances(p) \/ Reconcile(p)
    <2> PICK p \in Pods : \/ Crash(p) \/ Restart(p)
                          \/ ManagedInstances(p) \/ Reconcile(p)
      BY <1>3
    <2>1. CRKept
      BY CrashIInv, RestartIInv, StartupListIInv, StartupPatchIInv,
         StartupStatusPatchIInv, ReconcileGetIInv, ReconcileCheckIInv,
         ReconcileAdoptIInv, ReconcileAdoptFailedIInv, ApplyUpgradeIInv,
         ApplyCertsIInv, ApplyCertsFailedIInv, ApplyStageIInv,
         StoreFailedIInv, StoreInstanceIInv, StoreStatusIInv
      DEF ManagedInstances, Reconcile
    <2> QED BY <2>1, PodNumbers
  <1> QED BY <1>1, <1>2, <1>3 DEF Next

LEMMA RefinesInit == Init => M!Init
  <1> SUFFICES ASSUME Init PROVE M!Init
    OBVIOUS
  <1>1. Working = {}
    BY DEF Init, Working, Applying, Upgrading
  <1>2. edits = 0
    BY DEF Init
  <1>3. CASE cr = NoCR /\ creates = 0
    BY <1>1, <1>2, <1>3, NoFields DEF M!Init
  <1>4. CASE creates = 1 /\ \E o \in Identities, v \in Binaries :
             cr = [uid |-> 1, owner |-> o, edit |-> 0, norm |-> TRUE,
                   mig |-> FormatOf(v), ver |-> v, phase |-> "Running"]
    BY <1>1, <1>2, <1>4 DEF M!Init
  <1> QED BY <1>3, <1>4 DEF Init

LEMMA RefinesNext ==
    ASSUME IInv, IInv', [Next]_vars, Working' \subseteq {cr'.owner} \ {NoOwner}
    PROVE  [M!Next]_(M!state)
  <1>1. cr \in CRs /\ cr' \in CRs
    BY DEF IInv, TypeOK
  <1>2. CASE UserCreate
    <2>1. /\ cr.uid = 0
          /\ cr'.uid = creates + 1 /\ creates' = creates + 1
          /\ cr'.edit = edits + 1 /\ edits' = edits + 1
          /\ cr'.owner = NoOwner
          /\ UNCHANGED <<pc, loc>>
      BY <1>2 DEF UserCreate, Exists, Write, NoCR
    <2>2. Working' = {}
      BY <2>1, NobodyWorking
    <2> QED BY <2>1, <2>2 DEF M!Next, M!Create
  <1>3. CASE UserEdit
    <2>1. /\ cr.uid # 0
          /\ cr'.uid = cr.uid /\ cr'.owner = cr.owner
          /\ cr'.edit = edits + 1 /\ edits' = edits + 1
          /\ UNCHANGED <<pc, loc, creates>>
      BY <1>1, <1>3 DEF UserEdit, Exists, Write, CRs
    <2>2. Working' = Working
      BY <2>1 DEF Working
    <2> QED BY <2>1, <2>2 DEF M!Next, M!Edit
  <1>4. CASE UserDelete
    <2>1. /\ cr.uid # 0 /\ cr' = NoCR
          /\ UNCHANGED <<pc, loc, creates, edits>>
      BY <1>4 DEF UserDelete, Exists, Write, bounds
    <2>2. Working' = {}
      BY <2>1, NoFields, NobodyWorking
    <2> QED BY <2>1, <2>2, NoFields DEF M!Next, M!Delete
  <1>5. CASE CRKept /\ UNCHANGED <<creates, edits>>
    <2>1. cr'.owner \in Identities \cup {NoOwner}
      BY <1>1 DEF CRs
    <2>2. \/ cr'.owner = cr.owner
          \/ cr.uid # 0 /\ cr.owner = NoOwner /\ cr'.owner \in Identities
      BY <1>5, <2>1 DEF CRKept
    <2> QED BY <1>5, <2>2 DEF CRKept, M!Next, M!Operate
  <1> QED BY <1>2, <1>3, <1>4, <1>5, NextSplit DEF User

(* The reconciliation implements Management, for any number of operators,  *)
(* pods and crashes: no race of Get and Update, no stale copy, no start-up *)
(* patch that lands on another CR of the same name changes what the user   *)
(* asked for, gives the CR a second manager, or lets anybody else work.    *)
THEOREM ManagementImplemented == Spec => ImplementsManagement
  <1>1. IInv => Working \subseteq {cr.owner} \ {NoOwner}
    BY WorkingOwner
  <1>2. IInv /\ IInv' /\ [Next]_vars /\ (Working \subseteq {cr.owner} \ {NoOwner})'
        => [M!Next]_(M!state)
    BY RefinesNext
  <1> QED BY <1>1, <1>2, RefinesInit, Invariance, PTL
          DEF Spec, ImplementsManagement, M!Spec
=============================================================================
