------------------------ MODULE JaegerVersionProofs ------------------------
(***************************************************************************)
(* Status.Version and the format of the stored spec never part, for any    *)
(* number of pods, operators and binaries: the proof of                    *)
(* VersionImpliesMigrated.  It begins with what a step of each action does *)
(* to its own pod, field by field, which JaegerConvergenceProofs uses too. *)
(***************************************************************************)
EXTENDS JaegerReconcileProofs

(* Every routine up to ver has run on mig; a version of 0 is that of a new *)
(* CR, written in the newest format.                                       *)
Covers(ver, mig) ==
    /\ ver \in Binaries \cup {0}
    /\ \A s \in Steps : ver = 0 \/ s <= ver => mig[s] >= 1

(* What VersionImpliesMigrated says of a copy of the CR.                   *)
Promise(j) == j.uid # 0 => Covers(j.ver, j.mig)

(* A flag that has the new format in old has it in new.                    *)
Keeps(old, new) == \A s \in Steps : old[s] >= 1 => new[s] >= 1

(* The copies keep the promise.  Until the copy is stored a fresh pod sees *)
(* the stored format in the copy it read, afterwards in the one it wrote;  *)
(* the merge patches of start-up, which carry no resource version, rest on *)
(* the format of the stored CR never going back.                           *)
VersionOK(p) ==
    /\ pc[p] \notin {"certs", "certsFailed"}
    /\ Promise(loc[p].orig) /\ Promise(loc[p].inst)
    /\ Keeps(loc[p].orig.mig, loc[p].inst.mig)
    /\ pc[p] \in {"sync", "adopt", "adoptFailed", "upgrade"} =>
          /\ loc[p].inst.ver = loc[p].orig.ver
          /\ loc[p].inst.mig = loc[p].orig.mig
    /\ fresh[p] /\ pc[p] \in InReconcile =>
          /\ cr.ver = loc[p].orig.ver
          /\ cr.mig = IF pc[p] = "status" THEN loc[p].inst.mig
                                          ELSE loc[p].orig.mig
    /\ pc[p] = "patch" /\ Exists => Keeps(loc[p].orig.mig, cr.mig)
    /\ pc[p] = "statusPatch" /\ Exists => Covers(loc[p].inst.ver, cr.mig)
VersionInv == Promise(cr) /\ \A p \in Pods : VersionOK(p)

(* The format of the stored CR never goes back, and a new CR has the       *)
(* newest one.                                                             *)
MigKept ==
    cr'.uid # 0 => \A s \in Steps :
                      cr.uid = 0 \/ cr.mig[s] >= 1 => cr'.mig[s] >= 1

(* The operators of today: certificates are managed elsewhere or not       *)
(* needed, and no binary is older than the first version an upgrade starts *)
(* from (1.11.0).                                                          *)
Supported == ~NeedsCerts /\ \A b \in Binaries : b >= StartUpdates

-----------------------------------------------------------------------------
(* What the actions do to the pod that takes them.                         *)

LEMMA CopyTypes ==
    ASSUME IInv, NEW p \in Pods
    PROVE  /\ loc[p] \in Locals /\ loc[p].orig \in CRs /\ loc[p].inst \in CRs
           /\ loc[p].orig.mig \in Migrations /\ loc[p].inst.mig \in Migrations
           /\ loc[p].orig.ver \in 0..MaxVersion
           /\ loc[p].inst.ver \in 0..MaxVersion
           /\ cr \in CRs /\ cr.mig \in Migrations /\ cr.ver \in 0..MaxVersion
           /\ bin[p] \in Binaries /\ bin[p] \in 1..MaxVersion
  <1>1. loc[p] \in Locals /\ cr \in CRs /\ bin[p] \in Binaries
    BY DEF IInv, TypeOK
  <1>2. loc[p].orig \in CRs /\ loc[p].inst \in CRs
    BY <1>1 DEF Locals
  <1> QED BY <1>1, <1>2, ReconcileAssumption DEF CRs, Versions

(* Reconcile or an upgrade ends.                                           *)
LEMMA ReturnStep ==
    ASSUME IInv, NEW p \in Pods, Return(p)
    PROVE  /\ pc'[p] = "idle" /\ loc'[p] = NoLocals
           /\ \A q \in Pods \ {p} : pc'[q] = pc[q] /\ loc'[q] = loc[q]
  BY DEF Return, Goto, IInv, TypeOK

(* The CR is written: copies of other pods are stale unless the write      *)
(* changed nothing.                                                        *)
LEMMA WriteStep ==
    ASSUME IInv, NEW p \in Pods, NEW new, NEW A, Write(new, {p}, A)
    PROVE  /\ cr' = new /\ fresh'[p]
           /\ \A q \in Pods \ {p} : fresh'[q] => fresh[q] /\ cr' = cr
           /\ ~pending'[p] => ~pending[p] /\ (new = cr \/ ~Watching(p))
           /\ p \in A => pending'[p]
  BY DEF Write, IInv, TypeOK

LEMMA StoreStatusStep ==
    ASSUME IInv, NEW p \in Pods, StoreStatus(p)
    PROVE  LET recorded == /\ loc[p].inst.ver = loc[p].orig.ver
                           /\ loc[p].inst.phase = "Running"
           IN  /\ Framed(p) /\ pc[p] = "status" /\ pc'[p] = "idle"
               /\ loc'[p] = NoLocals /\ res' = res
               /\ \/ recorded /\ cr' = cr /\ pending' = pending
                  \/ /\ ~recorded /\ fresh[p]
                     /\ cr' = WithStatus(loc[p].inst.ver, "Running")
                     /\ ~pending'[p] => ~pending[p] /\ cr' = cr
                  \/ cr' = cr /\ pending'[p]
  <1>1. /\ pc[p] = "status" /\ Watching(p) /\ res' = res
        /\ pending \in [Pods -> BOOLEAN]
    BY DEF StoreStatus, Watching, Upgrading, IInv, TypeOK
  <1>2. CASE /\ Done(p) /\ UNCHANGED <<cr, fresh>>
             /\ loc[p].inst.ver = loc[p].orig.ver
             /\ loc[p].inst.phase = "Running"
    BY <1>1, <1>2, ReturnStep DEF StoreStatus, Done, Framed
  <1>3. CASE Requeue(p) /\ UNCHANGED <<cr, fresh>>
    BY <1>1, <1>3, ReturnStep DEF StoreStatus, Requeue, Framed
  <1>4. CASE /\ fresh[p] /\ Return(p)
             /\ Write(WithStatus(loc[p].inst.ver, "Running"), {p}, {})
             /\ ~(/\ loc[p].inst.ver = loc[p].orig.ver
                  /\ loc[p].inst.phase = "Running")
    <2>1. /\ cr' = WithStatus(loc[p].inst.ver, "Running")
          /\ ~pending'[p] => ~pending[p] /\ cr' = cr
          /\ \A q \in Pods \ {p} : fresh'[q] => fresh[q] /\ cr' = cr
      BY <1>1, <1>4, WriteStep
    <2>2. Framed(p)
      BY <1>4, <2>1, ReturnStep DEF StoreStatus, Framed
    <2> QED BY <1>1, <1>4, <2>1, <2>2, ReturnStep
  <1> QED BY <1>2, <1>3, <1>4 DEF StoreStatus

LEMMA StoreFailedStep ==
    ASSUME IInv, NEW p \in Pods, StoreFailed(p)
    PROVE  /\ Framed(p) /\ pc[p] = "failed" /\ pc'[p] = "idle"
           /\ loc'[p] = NoLocals /\ res' = res /\ pending'[p]
           /\ \/ cr' = cr
              \/ fresh[p] /\ cr' = WithStatus(loc[p].orig.ver, "Failed")
  <1>1. Framed(p)
    BY ReturnStep, WriteStep DEF StoreFailed, Framed
  <1>2. pending'[p]
    BY WriteStep DEF StoreFailed, IInv, TypeOK
  <1> QED BY <1>1, <1>2, ReturnStep, WriteStep DEF StoreFailed

LEMMA AdoptFailedStep ==
    ASSUME IInv, NEW p \in Pods, ReconcileAdoptFailed(p)
    PROVE  /\ Framed(p) /\ pc[p] = "adoptFailed" /\ pc'[p] = "idle"
           /\ loc'[p] = NoLocals /\ res' = res /\ pending'[p]
           /\ \/ cr' = cr
              \/ fresh[p] /\ cr' = WithStatus(loc[p].inst.ver, "Failed")
  <1>1. Framed(p)
    BY ReturnStep, WriteStep DEF ReconcileAdoptFailed, Framed
  <1>2. pending'[p]
    BY WriteStep DEF ReconcileAdoptFailed, IInv, TypeOK
  <1> QED BY <1>1, <1>2, ReturnStep, WriteStep DEF ReconcileAdoptFailed

LEMMA AdoptStep ==
    ASSUME IInv, NEW p \in Pods, ReconcileAdopt(p)
    PROVE  /\ Framed(p) /\ pc[p] = "adopt" /\ res' = res
           /\ \/ /\ fresh[p] /\ pc'[p] = "idle" /\ loc'[p] = NoLocals
                 /\ cr' = [loc[p].inst EXCEPT !.owner = Identity[p]]
                 /\ pending'[p] \/ cr' = cr
              \/ /\ pc'[p] = "adoptFailed"
                 /\ UNCHANGED <<cr, fresh, pending, loc>>
  <1>1. pc[p] = "adopt" /\ res' = res /\ Watching(p)
    BY DEF ReconcileAdopt, Watching, Upgrading
  <1>2. CASE /\ fresh[p] /\ NoFault
             /\ Write([loc[p].inst EXCEPT !.owner = Identity[p]], {p}, {})
             /\ Return(p)
    BY <1>1, <1>2, ReturnStep, WriteStep DEF ReconcileAdopt, Framed
  <1>3. CASE /\ Goto(p, "adoptFailed")
             /\ UNCHANGED <<cr, fresh, pending, loc>>
    BY <1>1, <1>3 DEF ReconcileAdopt, Framed, Goto, IInv, TypeOK
  <1> QED BY <1>2, <1>3 DEF ReconcileAdopt

LEMMA ApplyUpgradeStep ==
    ASSUME IInv, NEW p \in Pods, ApplyUpgrade(p)
    PROVE  /\ Framed(p) /\ pc[p] = "upgrade"
           /\ UNCHANGED <<cr, res, fresh, pending>>
           /\ \/ /\ pc'[p] = IF NeedsCerts THEN "certs" ELSE "stage"
                 /\ loc'[p].orig = loc[p].orig /\ loc'[p].stage = 1
                 /\ loc'[p].inst = [loc[p].inst EXCEPT
                        !.ver = ApplyUpgrades(loc[p].inst.ver, loc[p].inst.mig,
                                              bin[p]).ver,
                        !.mig = ApplyUpgrades(loc[p].inst.ver, loc[p].inst.mig,
                                              bin[p]).mig]
              \/ pc'[p] = "failed" /\ loc' = loc
  <1> DEFINE up == ApplyUpgrades(loc[p].inst.ver, loc[p].inst.mig, bin[p])
  <1>1. loc[p] \in Locals
    BY CopyTypes
  <1> HIDE DEF up
  <1>2. CASE /\ loc' = [loc EXCEPT ![p].inst.ver = up.ver,
                                   ![p].inst.mig = up.mig,
                                   ![p].stage = 1]
             /\ Goto(p, IF NeedsCerts THEN "certs" ELSE "stage")
    <2>1. /\ loc'[p].orig = loc[p].orig /\ loc'[p].stage = 1
          /\ loc'[p].inst = [loc[p].inst EXCEPT !.ver = up.ver, !.mig = up.mig]
      BY <1>1, <1>2 DEF IInv, TypeOK, Locals
    <2>2. pc'[p] = IF NeedsCerts THEN "certs" ELSE "stage"
      BY <1>2 DEF Goto, IInv, TypeOK
    <2>3. Framed(p)
      BY <1>2 DEF ApplyUpgrade, Framed, Goto, IInv, TypeOK
    <2> QED BY <2>1, <2>2, <2>3 DEF ApplyUpgrade, up
  <1>3. CASE Goto(p, "failed") /\ loc' = loc
    BY <1>3 DEF ApplyUpgrade, Framed, Goto, IInv, TypeOK
  <1> QED BY <1>2, <1>3 DEF ApplyUpgrade, up

LEMMA ApplyCertsStep ==
    ASSUME IInv, NEW p \in Pods, ApplyCerts(p)
    PROVE  /\ Framed(p) /\ pc[p] = "certs"
           /\ UNCHANGED <<cr, res, fresh, pending, loc>>
           /\ pc'[p] \in {"stage", "certsFailed", "failed"}
  BY DEF ApplyCerts, Framed, Goto, IInv, TypeOK

LEMMA ApplyCertsFailedStep ==
    ASSUME IInv, NEW p \in Pods, ApplyCertsFailed(p)
    PROVE  /\ Framed(p) /\ pc[p] = "certsFailed" /\ pc'[p] = "failed"
           /\ UNCHANGED <<res, loc>>
           /\ \/ UNCHANGED <<cr, fresh, pending>>
              \/ /\ fresh[p] /\ cr' = WithStatus(loc[p].inst.ver, "Failed")
                 /\ ~pending'[p] => ~pending[p] /\ cr' = cr
                 /\ cr' = cr => fresh'[p]
  <1>1. pc[p] = "certsFailed" /\ Watching(p)
    BY DEF ApplyCertsFailed, Watching, Upgrading
  <1>2. pc'[p] = "failed" /\ \A q \in Pods \ {p} : pc'[q] = pc[q]
    BY DEF ApplyCertsFailed, Goto, IInv, TypeOK
  <1>3. CASE UNCHANGED <<cr, fresh, pending>>
    BY <1>1, <1>2, <1>3 DEF ApplyCertsFailed, Framed
  <1>4. CASE /\ fresh[p]
             /\ Write(WithStatus(loc[p].inst.ver, "Failed"), {}, {})
    <2>1. /\ cr' = WithStatus(loc[p].inst.ver, "Failed")
          /\ ~pending'[p] => ~pending[p] /\ cr' = cr
          /\ cr' = cr => fresh'[p]
          /\ \A q \in Pods : fresh'[q] => fresh[q] /\ cr' = cr
      BY <1>1, <1>4 DEF Write, IInv, TypeOK
    <2> QED BY <1>1, <1>2, <1>4, <2>1 DEF ApplyCertsFailed, Framed
  <1> QED BY <1>3, <1>4 DEF ApplyCertsFailed

LEMMA ApplyStageStep ==
    ASSUME IInv, NEW p \in Pods, ApplyStage(p)
    PROVE  LET i == loc[p].stage
               k == Stages[i]
               rendered == Render(loc[p].orig)
           IN  /\ Framed(p) /\ pc[p] = "stage"
               /\ UNCHANGED <<cr, fresh, pending>>
               /\ loc'[p].orig = loc[p].orig /\ loc'[p].inst = loc[p].inst
               /\ i \in 1..Len(Stages)
               /\ \/ res' = [res EXCEPT ![k] = rendered]
                  \/ res' = res
               /\ \/ /\ loc'[p].stage = i + 1
                     /\ pc'[p] = IF i = Len(Stages) THEN "store" ELSE "stage"
                     /\ \/ res' = [res EXCEPT ![k] = rendered]
                        \/ OnError[k] = "log"
                  \/ pc'[p] = "failed"
                  \/ pc'[p] = "store" /\ OnError[k] = "finish"
  <1> DEFINE i == loc[p].stage
             k == Stages[i]
             rendered == Render(loc[p].orig)
  <1>1. /\ pc[p] = "stage" /\ i \in 1..Len(Stages) /\ loc[p] \in Locals
        /\ UNCHANGED <<cr, fresh, pending>>
    BY CopyTypes DEF ApplyStage, IInv, CopyInv, CopyOK
  <1>2. /\ pc \in [Pods -> PCs] /\ loc \in [Pods -> Locals]
        /\ UNCHANGED <<creates, edits>>
        /\ res \in [Kinds -> Manifests \cup {Absent}]
    BY DEF IInv, TypeOK, ApplyStage
  <1>3. [res EXCEPT ![k] = res[k]] = res
    BY <1>2
  <1>4. \/ res' = [res EXCEPT ![k] = rendered]
        \/ res' = res
    BY <1>3 DEF ApplyStage
  <1> HIDE DEF k, rendered
  <1>5. CASE /\ loc' = [loc EXCEPT ![p].stage = i + 1]
             /\ IF i = Len(Stages) THEN Goto(p, "store") ELSE UNCHANGED pc
             /\ \/ res' = [res EXCEPT ![k] = rendered]
                \/ OnError[k] = "log"
    <2>1. loc'[p].orig = loc[p].orig /\ loc'[p].inst = loc[p].inst
          /\ loc'[p].stage = i + 1
      BY <1>1, <1>2, <1>5 DEF Locals
    <2>2. pc'[p] = IF i = Len(Stages) THEN "store" ELSE "stage"
      BY <1>1, <1>2, <1>5 DEF Goto
    <2>3. Framed(p)
      BY <1>1, <1>2, <1>5 DEF Framed, Goto
    <2> QED BY <1>1, <1>4, <1>5, <2>1, <2>2, <2>3 DEF k, rendered
  <1>6. CASE Goto(p, "failed") /\ UNCHANGED loc
    BY <1>1, <1>2, <1>4, <1>6 DEF Framed, Goto, k, rendered
  <1>7. CASE OnError[k] = "finish" /\ Goto(p, "store") /\ UNCHANGED loc
    BY <1>1, <1>2, <1>4, <1>7 DEF Framed, Goto, k, rendered
  <1> QED BY <1>5, <1>6, <1>7 DEF ApplyStage, k, rendered

LEMMA StoreInstanceStep ==
    ASSUME IInv, NEW p \in Pods, StoreInstance(p)
    PROVE  /\ Framed(p) /\ pc[p] = "store" /\ res' = res
           /\ \/ /\ loc[p].inst = loc[p].orig /\ pc'[p] = "status"
                 /\ UNCHANGED <<cr, fresh, pending, loc>>
              \/ /\ loc[p].inst # loc[p].orig /\ pc'[p] = "status"
                 /\ fresh[p] /\ fresh'[p]
                 /\ cr' = [loc[p].inst EXCEPT !.ver = cr.ver, !.phase = cr.phase]
                 /\ loc'[p].orig = loc[p].orig
                 /\ loc'[p].inst = [loc[p].inst EXCEPT !.phase = cr.phase]
                 /\ ~pending'[p] => ~pending[p] /\ cr' = cr
              \/ /\ pc'[p] = "idle" /\ loc'[p] = NoLocals /\ cr' = cr
                 /\ pending'[p]
  <1> DEFINE new == [loc[p].inst EXCEPT !.ver = cr.ver, !.phase = cr.phase]
  <1>1. /\ pc[p] = "store" /\ Watching(p) /\ loc[p] \in Locals
        /\ res' = res /\ UNCHANGED <<creates, edits>>
    BY CopyTypes DEF StoreInstance, Watching, Upgrading
  <1>2. /\ pc \in [Pods -> PCs] /\ loc \in [Pods -> Locals]
        /\ pending \in [Pods -> BOOLEAN]
    BY DEF IInv, TypeOK
  <1> HIDE DEF new
  <1>3. CASE /\ loc[p].inst = loc[p].orig /\ Goto(p, "status")
             /\ UNCHANGED <<cr, fresh, pending, loc>>
    BY <1>1, <1>2, <1>3 DEF Framed, Goto
  <1>4. CASE /\ loc[p].inst # loc[p].orig /\ fresh[p]
             /\ Write(new, {p}, {})
             /\ loc' = [loc EXCEPT ![p].inst.phase = cr.phase]
             /\ Goto(p, "status")
    <2>1. /\ loc'[p].orig = loc[p].orig
          /\ loc'[p].inst = [loc[p].inst EXCEPT !.phase = cr.phase]
      BY <1>1, <1>2, <1>4 DEF Locals
    <2>2. /\ cr' = new /\ fresh'[p]
          /\ ~pending'[p] => ~pending[p] /\ cr' = cr
          /\ \A q \in Pods \ {p} : fresh'[q] => fresh[q] /\ cr' = cr
      BY <1>1, <1>4, WriteStep
    <2>3. pc'[p] = "status"
      BY <1>2, <1>4 DEF Goto
    <2>4. Framed(p)
      BY <1>1, <1>2, <1>4, <2>2 DEF Framed, Goto
    <2> QED BY <1>1, <1>4, <2>1, <2>2, <2>3, <2>4 DEF new
  <1>5. CASE Requeue(p) /\ UNCHANGED <<cr, fresh>>
    BY <1>1, <1>2, <1>5, ReturnStep DEF Requeue, Framed
  <1> QED BY <1>3, <1>4, <1>5 DEF StoreInstance, new

LEMMA ReconcileGetStep ==
    ASSUME IInv, NEW p \in Pods, ReconcileGet(p)
    PROVE  /\ Framed(p) /\ pc[p] = "idle"
           /\ UNCHANGED <<cr, res>>
           /\ \/ /\ Exists /\ pc'[p] = "sync"
                 /\ loc'[p].orig = cr /\ loc'[p].inst = cr
                 /\ fresh'[p] /\ ~pending'[p]
              \/ /\ UNCHANGED <<pc, loc, fresh>>
                 /\ pending'[p] \/ ~Exists
  <1>1. /\ pc \in [Pods -> PCs] /\ loc \in [Pods -> Locals]
        /\ pending \in [Pods -> BOOLEAN] /\ fresh \in [Pods -> BOOLEAN]
        /\ pc[p] = "idle" /\ UNCHANGED <<cr, res, creates, edits>>
    BY DEF IInv, TypeOK, ReconcileGet
  <1>2. CASE /\ Exists
             /\ loc' = [loc EXCEPT ![p].orig = cr, ![p].inst = cr]
             /\ fresh' = [fresh EXCEPT ![p] = TRUE]
             /\ pending' = [pending EXCEPT ![p] = FALSE]
             /\ Goto(p, "sync")
    <2>1. loc'[p].orig = cr /\ loc'[p].inst = cr
      BY <1>1, <1>2 DEF Locals
    <2> QED BY <1>1, <1>2, <2>1 DEF Framed, Goto
  <1>3. CASE UNCHANGED <<pc, loc, fresh>>
    BY <1>1, <1>3 DEF ReconcileGet, Framed, Goto
  <1> QED BY <1>2, <1>3 DEF ReconcileGet

LEMMA ReconcileCheckStep ==
    ASSUME IInv, NEW p \in Pods, ReconcileCheck(p)
    PROVE  /\ Framed(p) /\ pc[p] = "sync"
           /\ UNCHANGED <<cr, res, fresh>>
           /\ \/ /\ pc'[p] = "idle" /\ loc'[p] = NoLocals
                 /\ \/ pending'[p]
                    \/ loc[p].orig.owner \notin {NoOwner, Identity[p]}
              \/ pc'[p] = "adopt" /\ UNCHANGED <<loc, pending>>
              \/ /\ pc'[p] = "upgrade" /\ pending' = pending
                 /\ loc'[p].orig = loc[p].orig
                 /\ loc'[p].inst = [loc[p].inst EXCEPT !.norm = TRUE]
  <1>1. /\ pc \in [Pods -> PCs] /\ loc \in [Pods -> Locals]
        /\ pending \in [Pods -> BOOLEAN]
        /\ pc[p] = "sync" /\ UNCHANGED <<cr, res, fresh, creates, edits>>
    BY DEF IInv, TypeOK, ReconcileCheck
  <1>2. CASE Requeue(p)
    BY <1>1, <1>2, ReturnStep DEF Requeue, Framed
  <1>3. CASE loc[p].orig.owner \notin {NoOwner, Identity[p]} /\ Done(p)
    BY <1>1, <1>3, ReturnStep DEF Done, Framed
  <1>4. CASE Goto(p, "adopt") /\ UNCHANGED <<loc, pending>>
    BY <1>1, <1>4 DEF Goto, Framed
  <1>5. CASE /\ Goto(p, "upgrade") /\ pending' = pending
             /\ loc' = [loc EXCEPT ![p].inst.norm = TRUE]
    <2>1. /\ loc'[p].orig = loc[p].orig
          /\ loc'[p].inst = [loc[p].inst EXCEPT !.norm = TRUE]
      BY <1>1, <1>5 DEF Locals
    <2> QED BY <1>1, <1>5, <2>1 DEF Goto, Framed
  <1> QED BY <1>2, <1>3, <1>4, <1>5 DEF ReconcileCheck

LEMMA StartupListStep ==
    ASSUME IInv, NEW p \in Pods, StartupList(p)
    PROVE  /\ Framed(p) /\ pc[p] = "startup"
           /\ UNCHANGED <<cr, res, fresh>>
           /\ \/ /\ Exists /\ pc'[p] = "patch"
                 /\ loc'[p].orig = cr
                 /\ loc'[p].inst = [cr EXCEPT
                        !.ver = ManagedInstance(cr.ver, cr.mig, bin[p]).ver,
                        !.mig = ManagedInstance(cr.ver, cr.mig, bin[p]).mig]
              \/ /\ pc'[p] = "idle" /\ loc'[p] = NoLocals
                 /\ pending'[p] \/ ~Exists
  <1> DEFINE up == ManagedInstance(cr.ver, cr.mig, bin[p])
             inst == [cr EXCEPT !.ver = up.ver, !.mig = up.mig]
  <1>1. /\ pc \in [Pods -> PCs] /\ loc \in [Pods -> Locals]
        /\ pending \in [Pods -> BOOLEAN]
        /\ pc[p] = "startup" /\ UNCHANGED <<cr, res, fresh, creates, edits>>
    BY DEF IInv, TypeOK, StartupList
  <1> HIDE DEF up, inst
  <1>2. CASE /\ Exists /\ Goto(p, "patch")
             /\ loc' = [loc EXCEPT ![p].orig = cr, ![p].inst = inst]
    <2>1. loc'[p].orig = cr /\ loc'[p].inst = inst
      BY <1>1, <1>2 DEF Locals
    <2> QED BY <1>1, <1>2, <2>1 DEF Goto, Framed, up, inst
  <1>3. CASE StartControllers(p)
    BY <1>1, <1>3 DEF StartControllers, Goto, Framed
  <1> QED BY <1>2, <1>3 DEF StartupList, up, inst

LEMMA StartupPatchStep ==
    ASSUME IInv, NEW p \in Pods, StartupPatch(p)
    PROVE  /\ Framed(p) /\ pc[p] = "patch" /\ res' = res
           /\ \/ /\ Exists /\ pc'[p] = "statusPatch"
                 /\ cr' = [cr EXCEPT !.mig = [s \in Steps |->
                             IF loc[p].inst.mig[s] # loc[p].orig.mig[s]
                             THEN loc[p].inst.mig[s] ELSE cr.mig[s]]]
                 /\ loc'[p].orig = loc[p].orig /\ loc'[p].inst = loc[p].inst
              \/ /\ pc'[p] = "idle" /\ loc'[p] = NoLocals /\ cr' = cr
                 /\ pending'[p] \/ ~Exists
  <1> DEFINE new == [cr EXCEPT !.mig = [s \in Steps |->
                             IF loc[p].inst.mig[s] # loc[p].orig.mig[s]
                             THEN loc[p].inst.mig[s] ELSE cr.mig[s]]]
  <1>1. /\ pc \in [Pods -> PCs] /\ loc \in [Pods -> Locals]
        /\ pending \in [Pods -> BOOLEAN]
        /\ pc[p] = "patch" /\ UNCHANGED <<res, creates, edits>>
    BY DEF IInv, TypeOK, StartupPatch
  <1> HIDE DEF new
  <1>2. CASE /\ Exists /\ Write(new, {}, {}) /\ Goto(p, "statusPatch")
             /\ loc' = [loc EXCEPT ![p].rver = cr.ver]
    <2>1. loc'[p].orig = loc[p].orig /\ loc'[p].inst = loc[p].inst
      BY <1>1, <1>2 DEF Locals
    <2>2. cr' = new /\ \A q \in Pods : fresh'[q] => fresh[q] /\ cr' = cr
      BY <1>2 DEF Write, IInv, TypeOK
    <2> QED BY <1>1, <1>2, <2>1, <2>2 DEF Goto, Framed, new
  <1>3. CASE StartControllers(p) /\ UNCHANGED <<cr, fresh>>
    BY <1>1, <1>3 DEF StartControllers, Goto, Framed
  <1> QED BY <1>2, <1>3 DEF StartupPatch, new

LEMMA StartupStatusPatchStep ==
    ASSUME IInv, NEW p \in Pods, StartupStatusPatch(p)
    PROVE  /\ Framed(p) /\ pc[p] = "statusPatch" /\ res' = res
           /\ pc'[p] = "idle" /\ loc'[p] = NoLocals
           /\ pending'[p] \/ (~Exists /\ cr' = cr)
           /\ \/ cr' = cr
              \/ Exists /\ cr' = [cr EXCEPT !.ver = loc[p].inst.ver]
  <1>1. /\ pc \in [Pods -> PCs] /\ loc \in [Pods -> Locals]
        /\ pending \in [Pods -> BOOLEAN]
        /\ pc[p] = "statusPatch" /\ UNCHANGED <<res, creates, edits>>
        /\ Return(p)
    BY DEF IInv, TypeOK, StartupStatusPatch, Return
  <1>2. CASE /\ Exists
             /\ Write(IF loc[p].rver = loc[p].inst.ver THEN cr
                      ELSE [cr EXCEPT !.ver = loc[p].inst.ver], {}, {p})
    <2>1. /\ \/ cr' = cr
             \/ cr' = [cr EXCEPT !.ver = loc[p].inst.ver]
          /\ \A q \in Pods : fresh'[q] => fresh[q] /\ cr' = cr
          /\ pending'[p]
      BY <1>2 DEF Write, IInv, TypeOK
    <2> QED BY <1>1, <1>2, <2>1, ReturnStep DEF Framed
  <1>3. CASE /\ pending' = [pending EXCEPT ![p] = Exists]
             /\ UNCHANGED <<cr, fresh>>
    BY <1>1, <1>3, ReturnStep DEF Framed
  <1> QED BY <1>2, <1>3 DEF StartupStatusPatch

LEMMA CrashStep ==
    ASSUME IInv, NEW p \in Pods, Crash(p)
    PROVE  /\ Framed(p) /\ UNCHANGED <<cr, res, fresh>>
           /\ pc'[p] = "down" /\ loc'[p] = NoLocals
  BY DEF Crash, Framed, Goto, IInv, TypeOK

LEMMA RestartStep ==
    ASSUME IInv, NEW p \in Pods, Restart(p)
    PROVE  /\ Framed(p) /\ UNCHANGED <<cr, res, fresh, loc>>
           /\ pc[p] = "down" /\ pc'[p] = "startup"
  BY DEF Restart, Framed, Goto, IInv, TypeOK, bounds

-----------------------------------------------------------------------------
(* The upgrade operators keep the promise.                                 *)
LEMMA RunUpgradesKeeps ==
    ASSUME NEW mig \in Migrations, NEW todo
    PROVE  /\ Keeps(mig, RunUpgrades(mig, todo))
           /\ \A s \in Steps : s \in todo => RunUpgrades(mig, todo)[s] >= 1
  BY DEF RunUpgrades, Keeps, Migrations

LEMMA ManagedInstanceCovers ==
    ASSUME NEW ver \in 0..MaxVersion, NEW mig \in Migrations,
           NEW b \in Binaries, Covers(ver, mig)
    PROVE  /\ Keeps(mig, ManagedInstance(ver, mig, b).mig)
           /\ Covers(ManagedInstance(ver, mig, b).ver,
                     ManagedInstance(ver, mig, b).mig)
  <1>1. /\ MaxVersion \in Nat /\ StartUpdates \in 1..MaxVersion
        /\ Steps \subseteq 1..MaxVersion /\ b \in 1..MaxVersion
    BY UpgradeAssumption, ReconcileAssumption DEF Versions
  <1>2. CASE ver < StartUpdates \/ ver > b
    <2>1. /\ ManagedInstance(ver, mig, b).ver = ver
          /\ ManagedInstance(ver, mig, b).mig = mig
      BY <1>2 DEF ManagedInstance
    <2> QED BY <2>1 DEF Keeps
  <1>3. CASE ~(ver < StartUpdates \/ ver > b)
    <2> DEFINE new == RunUpgrades(mig, StepsBetween(ver, b))
    <2>1. /\ ManagedInstance(ver, mig, b).ver = b
          /\ ManagedInstance(ver, mig, b).mig = new
      BY <1>3 DEF ManagedInstance
    <2>2. /\ Keeps(mig, new)
          /\ \A s \in Steps : s \in StepsBetween(ver, b) => new[s] >= 1
      BY RunUpgradesKeeps
    <2> HIDE DEF new
    <2>3. \A s \in Steps : s <= b => new[s] >= 1
      BY <1>1, <1>3, <2>2 DEF StepsBetween, Covers, Keeps
    <2>4. Covers(b, new)
      BY <1>1, <2>3 DEF Covers
    <2> QED BY <2>1, <2>2, <2>4
  <1> QED BY <1>2, <1>3

LEMMA ApplyUpgradesCovers ==
    ASSUME Supported, NEW ver \in 0..MaxVersion, NEW mig \in Migrations,
           NEW b \in Binaries, Covers(ver, mig)
    PROVE  /\ Keeps(mig, ApplyUpgrades(ver, mig, b).mig)
           /\ Covers(ApplyUpgrades(ver, mig, b).ver,
                     ApplyUpgrades(ver, mig, b).mig)
  <1> DEFINE up == ManagedInstance(ver, mig, b)
  <1>1. /\ MaxVersion \in Nat /\ StartUpdates \in 1..MaxVersion
        /\ Steps \subseteq 1..MaxVersion /\ b \in 1..MaxVersion
    BY UpgradeAssumption, ReconcileAssumption DEF Versions
  <1>2. CASE ver = 0 \/ ver = b
    <2>1. /\ ApplyUpgrades(ver, mig, b).ver = b
          /\ ApplyUpgrades(ver, mig, b).mig = mig
      BY <1>2 DEF ApplyUpgrades
    <2> QED BY <1>1, <1>2, <2>1 DEF Keeps, Covers
  <1>3. CASE ver # 0 /\ ver # b
    <2>1. /\ ApplyUpgrades(ver, mig, b).ver = b
          /\ ApplyUpgrades(ver, mig, b).mig = up.mig
      BY <1>3 DEF ApplyUpgrades
    <2>2. ver >= StartUpdates
      BY <1>3 DEF Covers, Supported
    <2>3. Keeps(mig, up.mig) /\ Covers(up.ver, up.mig)
      BY ManagedInstanceCovers
    <2>4. up.ver = b \/ (ver > b /\ up.mig = mig)
      BY <1>1, <2>2 DEF ManagedInstance
    <2> HIDE DEF up
    <2>5. Covers(b, up.mig)
      BY <1>1, <1>3, <2>3, <2>4 DEF Covers
    <2> QED BY <2>1, <2>3, <2>5
  <1> QED BY <1>2, <1>3

LEMMA FormatCovers ==
    /\ \A v \in Binaries : Covers(v, FormatOf(v))
    /\ \A s \in Steps : FormatOf(MaxVersion)[s] = 1
  BY UpgradeAssumption, ReconcileAssumption DEF Covers, FormatOf, Versions

(* A pod that does not move and is not made fresh keeps its part, as the   *)
(* stored format never goes back.                                          *)
LEMMA VersionKept ==
    ASSUME IInv, NEW q \in Pods, VersionOK(q), MigKept,
           loc'[q] = loc[q], pc'[q] = pc[q], fresh'[q] => fresh[q] /\ cr' = cr
    PROVE  VersionOK(q)'
  <1>1. loc[q].orig.mig \in Migrations /\ cr.mig \in Migrations
    BY CopyTypes
  <1>2. pc[q] = "patch" /\ Exists' => Keeps(loc[q].orig.mig, cr'.mig)
    BY DEF VersionOK, Keeps, MigKept, Exists
  <1>3. pc[q] = "statusPatch" /\ Exists' => Covers(loc[q].inst.ver, cr'.mig)
    <2> SUFFICES ASSUME pc[q] = "statusPatch", cr'.uid # 0
                 PROVE  Covers(loc[q].inst.ver, cr'.mig)
      BY DEF Exists
    <2>1. loc[q].inst.ver \in Binaries \cup {0}
      BY DEF IInv, CopyInv, CopyOK, VersionOK, Promise, Covers, Holding, Upgrading
    <2>2. CASE cr.uid = 0
      BY <2>1, <2>2 DEF MigKept, Covers
    <2>3. CASE cr.uid # 0
      BY <2>1, <2>3 DEF MigKept, Covers, VersionOK, Exists
    <2> QED BY <2>2, <2>3
  <1> QED BY <1>2, <1>3 DEF VersionOK

LEMMA PodVersion ==
    ASSUME IInv, VersionInv, NEW p \in Pods, Framed(p), MigKept,
           Promise(cr)', VersionOK(p)'
    PROVE  VersionInv'
  <1>1. ASSUME NEW q \in Pods, q # p
        PROVE  VersionOK(q)'
    BY <1>1, VersionKept DEF Framed, VersionInv
  <1> QED BY <1>1 DEF VersionInv

(* A pod without a copy has nothing to keep.                               *)
LEMMA IdleVersion ==
    ASSUME NEW p \in Pods, loc'[p] = NoLocals,
           pc'[p] \in {"idle", "down", "startup"}
    PROVE  VersionOK(p)'
  BY NoFields DEF VersionOK, Promise, Keeps, InReconcile, Applying

-----------------------------------------------------------------------------
(* One lemma per action.                                                   *)

(* A step that leaves the CR alone and ends with a pod without a copy.     *)
LEMMA QuietVersion ==
    ASSUME IInv, VersionInv, NEW p \in Pods, Framed(p), cr' = cr,
           loc'[p] = NoLocals, pc'[p] \in {"idle", "down", "startup"}
    PROVE  VersionInv'
  <1>1. MigKept /\ Promise(cr)'
    BY DEF MigKept, VersionInv, Promise
  <1> QED BY <1>1, IdleVersion, PodVersion

(* A write of the status under the resource version of the copy keeps the  *)
(* format; the version it records must be covered by the stored format.    *)
LEMMA StatusVersion ==
    ASSUME IInv, VersionInv, NEW p \in Pods, Framed(p),
           NEW ver, NEW phase, cr' = WithStatus(ver, phase),
           cr.uid # 0 => Covers(ver, cr.mig),
           loc'[p] = NoLocals, pc'[p] = "idle"
    PROVE  VersionInv'
  <1>1. cr'.uid = cr.uid /\ cr'.mig = cr.mig /\ cr'.ver = ver
    BY DEF WithStatus, IInv, TypeOK, CRs
  <1>2. MigKept /\ Promise(cr)'
    BY <1>1 DEF MigKept, Promise
  <1> QED BY <1>2, IdleVersion, PodVersion

LEMMA StoreStatusVersion ==
    ASSUME IInv, VersionInv, NEW p \in Pods, StoreStatus(p)
    PROVE  VersionInv'
  <1>1. CASE cr' = cr
    BY <1>1, StoreStatusStep, QuietVersion
  <1>2. CASE fresh[p] /\ cr' = WithStatus(loc[p].inst.ver, "Running")
    <2>1. pc[p] = "status" /\ VersionOK(p)
      BY StoreStatusStep DEF VersionInv
    <2>2. Covers(loc[p].inst.ver, loc[p].inst.mig)
      BY <2>1 DEF VersionOK, Promise, IInv, CopyInv, CopyOK, Holding,
         InReconcile, Applying
    <2>3. Covers(loc[p].inst.ver, cr.mig)
      BY <1>2, <2>1, <2>2 DEF VersionOK, InReconcile, Applying
    <2> QED BY <1>2, <2>3, StoreStatusStep, StatusVersion
  <1> QED BY <1>1, <1>2, StoreStatusStep

LEMMA StoreFailedVersion ==
    ASSUME IInv, VersionInv, NEW p \in Pods, StoreFailed(p)
    PROVE  VersionInv'
  <1>1. CASE cr' = cr
    BY <1>1, StoreFailedStep, QuietVersion
  <1>2. CASE fresh[p] /\ cr' = WithStatus(loc[p].orig.ver, "Failed")
    <2>1. pc[p] = "failed" /\ VersionOK(p)
      BY StoreFailedStep DEF VersionInv
    <2>2. cr.uid # 0 => Covers(loc[p].orig.ver, cr.mig)
      BY <1>2, <2>1 DEF VersionOK, VersionInv, Promise, InReconcile, Applying
    <2> QED BY <1>2, <2>2, StoreFailedStep, StatusVersion
  <1> QED BY <1>1, <1>2, StoreFailedStep

LEMMA AdoptFailedVersion ==
    ASSUME IInv, VersionInv, NEW p \in Pods, ReconcileAdoptFailed(p)
    PROVE  VersionInv'
  <1>1. CASE cr' = cr
    BY <1>1, AdoptFailedStep, QuietVersion
  <1>2. CASE fresh[p] /\ cr' = WithStatus(loc[p].inst.ver, "Failed")
    <2>1. pc[p] = "adoptFailed" /\ VersionOK(p)
      BY AdoptFailedStep DEF VersionInv
    <2>2. cr.uid # 0 => Covers(loc[p].inst.ver, cr.mig)
      BY <1>2, <2>1 DEF VersionOK, VersionInv, Promise, InReconcile
    <2> QED BY <1>2, <2>2, AdoptFailedStep, StatusVersion
  <1> QED BY <1>1, <1>2, AdoptFailedStep

LEMMA AdoptVersion ==
    ASSUME IInv, VersionInv, NEW p \in Pods, ReconcileAdopt(p)
    PROVE  VersionInv'
  <1>1. pc[p] = "adopt" /\ VersionOK(p) /\ loc[p].inst \in CRs
    BY AdoptStep, CopyTypes DEF VersionInv
  <1>2. CASE /\ fresh[p] /\ pc'[p] = "idle" /\ loc'[p] = NoLocals
             /\ cr' = [loc[p].inst EXCEPT !.owner = Identity[p]]
    <2>1. /\ cr'.mig = loc[p].inst.mig /\ cr'.ver = loc[p].inst.ver
          /\ cr'.uid = loc[p].inst.uid
      BY <1>1, <1>2 DEF CRs
    <2>2. cr'.mig = cr.mig /\ Promise(cr') /\ cr.uid # 0
      BY <1>1, <1>2, <2>1 DEF VersionOK, Promise, IInv, FreshInv, FreshOK,
         CopyInv, CopyOK, InReconcile, Holding
    <2>3. MigKept /\ Promise(cr)'
      BY <2>2 DEF MigKept, Promise
    <2> QED BY <1>2, <2>3, AdoptStep, IdleVersion, PodVersion
  <1>3. CASE /\ pc'[p] = "adoptFailed"
             /\ UNCHANGED <<cr, fresh, pending, loc>>
    <2>1. MigKept /\ Promise(cr)'
      BY <1>3 DEF MigKept, VersionInv, Promise
    <2>2. VersionOK(p)'
      BY <1>1, <1>3 DEF VersionOK, InReconcile, Applying, Exists
    <2> QED BY <2>1, <2>2, AdoptStep, PodVersion
  <1> QED BY <1>2, <1>3, AdoptStep

LEMMA ApplyUpgradeVersion ==
    ASSUME Supported, IInv, VersionInv, NEW p \in Pods, ApplyUpgrade(p)
    PROVE  VersionInv'
  <1>1. pc[p] = "upgrade" /\ VersionOK(p) /\ loc[p].inst \in CRs
        /\ loc[p].orig.uid # 0 /\ loc[p].inst.uid = loc[p].orig.uid
    BY ApplyUpgradeStep, CopyTypes DEF VersionInv, IInv, CopyInv, CopyOK,
       Holding, InReconcile, Applying
  <1>2. MigKept /\ Promise(cr)' /\ UNCHANGED <<cr, fresh>>
    BY ApplyUpgradeStep DEF MigKept, VersionInv, Promise
  <1> DEFINE up == ApplyUpgrades(loc[p].inst.ver, loc[p].inst.mig, bin[p])
  <1>3. Keeps(loc[p].inst.mig, up.mig) /\ Covers(up.ver, up.mig)
    BY <1>1, CopyTypes, ApplyUpgradesCovers DEF VersionOK, Promise
  <1> HIDE DEF up
  <1>4. CASE /\ pc'[p] = IF NeedsCerts THEN "certs" ELSE "stage"
             /\ loc'[p].orig = loc[p].orig
             /\ loc'[p].inst = [loc[p].inst EXCEPT !.ver = up.ver, !.mig = up.mig]
    <2>1. /\ loc'[p].inst.ver = up.ver /\ loc'[p].inst.mig = up.mig
          /\ pc'[p] = "stage"
      BY <1>1, <1>4 DEF CRs, Supported
    <2>2. VersionOK(p)'
      BY <1>1, <1>2, <1>3, <1>4, <2>1 DEF VersionOK, Promise, Exists,
         InReconcile, Applying
    <2> QED BY <1>2, <2>2, ApplyUpgradeStep, PodVersion
  <1>5. CASE pc'[p] = "failed" /\ loc' = loc
    <2>1. VersionOK(p)'
      BY <1>1, <1>2, <1>5 DEF VersionOK, Exists, InReconcile, Applying
    <2> QED BY <1>2, <2>1, ApplyUpgradeStep, PodVersion
  <1> QED BY <1>4, <1>5, ApplyUpgradeStep DEF up

(* Without certificates to create these two steps are never reached.       *)
LEMMA CertsVersion ==
    ASSUME VersionInv, NEW p \in Pods, ApplyCerts(p) \/ ApplyCertsFailed(p)
    PROVE  VersionInv'
  BY DEF VersionInv, VersionOK, ApplyCerts, ApplyCertsFailed

LEMMA ApplyStageVersion ==
    ASSUME IInv, VersionInv, NEW p \in Pods, ApplyStage(p)
    PROVE  VersionInv'
  <1>1. /\ Framed(p) /\ pc[p] = "stage" /\ VersionOK(p)
        /\ UNCHANGED <<cr, fresh>>
        /\ loc'[p].orig = loc[p].orig /\ loc'[p].inst = loc[p].inst
        /\ pc'[p] \in {"stage", "store", "failed"}
    BY ApplyStageStep DEF VersionInv
  <1>2. MigKept /\ Promise(cr)'
    BY <1>1 DEF MigKept, VersionInv, Promise
  <1>3. VersionOK(p)'
    BY <1>1 DEF VersionOK, Exists, InReconcile, Applying
  <1> QED BY <1>1, <1>2, <1>3, PodVersion

(* The stored copy has at least the format it was read with, and the       *)
(* version is still the old one: the new one follows with the status.      *)
LEMMA StoreInstanceVersion ==
    ASSUME IInv, VersionInv, NEW p \in Pods, StoreInstance(p)
    PROVE  VersionInv'
  <1>1. pc[p] = "store" /\ VersionOK(p) /\ loc[p].inst \in CRs /\ Framed(p)
    BY StoreInstanceStep, CopyTypes DEF VersionInv
  <1>2. CASE /\ loc[p].inst = loc[p].orig /\ pc'[p] = "status"
             /\ UNCHANGED <<cr, fresh, pending, loc>>
    <2>1. MigKept /\ Promise(cr)'
      BY <1>2 DEF MigKept, VersionInv, Promise
    <2>2. VersionOK(p)'
      BY <1>1, <1>2 DEF VersionOK, Exists, InReconcile, Applying
    <2> QED BY <1>1, <2>1, <2>2, PodVersion
  <1>3. CASE /\ pc'[p] = "status" /\ fresh[p] /\ fresh'[p]
             /\ cr' = [loc[p].inst EXCEPT !.ver = cr.ver, !.phase = cr.phase]
             /\ loc'[p].orig = loc[p].orig
             /\ loc'[p].inst = [loc[p].inst EXCEPT !.phase = cr.phase]
    <2>1. /\ cr'.mig = loc[p].inst.mig /\ cr'.ver = cr.ver
          /\ cr'.uid = loc[p].inst.uid
          /\ loc'[p].inst.mig = loc[p].inst.mig
          /\ loc'[p].inst.ver = loc[p].inst.ver
          /\ loc'[p].inst.uid = loc[p].inst.uid
      BY <1>1, <1>3 DEF CRs
    <2>2. /\ cr.uid = cr'.uid /\ cr.uid # 0
          /\ cr.mig = loc[p].orig.mig /\ cr.ver = loc[p].orig.ver
      BY <1>1, <1>3, <2>1 DEF VersionOK, IInv, FreshInv, FreshOK, CopyInv,
         CopyOK, InReconcile, Holding, Applying
    <2>3. Keeps(cr.mig, cr'.mig)
      BY <1>1, <2>1, <2>2 DEF VersionOK
    <2>4. MigKept /\ Promise(cr)'
      BY <2>1, <2>2, <2>3 DEF MigKept, VersionInv, Promise, Covers, Keeps
    <2>5. VersionOK(p)'
      BY <1>1, <1>3, <2>1, <2>2 DEF VersionOK, Promise, InReconcile, Applying
    <2> QED BY <1>1, <2>4, <2>5, PodVersion
  <1>4. CASE pc'[p] = "idle" /\ loc'[p] = NoLocals /\ cr' = cr
    BY <1>1, <1>4, QuietVersion
  <1> QED BY <1>2, <1>3, <1>4, StoreInstanceStep

LEMMA ReconcileGetVersion ==
    ASSUME IInv, VersionInv, NEW p \in Pods, ReconcileGet(p)
    PROVE  VersionInv'
  <1>1. Framed(p) /\ cr' = cr /\ VersionOK(p) /\ pc[p] = "idle"
    BY ReconcileGetStep DEF VersionInv
  <1>2. MigKept /\ Promise(cr)'
    BY <1>1 DEF MigKept, VersionInv, Promise
  <1>3. CASE /\ pc'[p] = "sync" /\ loc'[p].orig = cr /\ loc'[p].inst = cr
    <2>1. VersionOK(p)'
      BY <1>1, <1>3 DEF VersionOK, VersionInv, Promise, Keeps, InReconcile
    <2> QED BY <1>1, <1>2, <2>1, PodVersion
  <1>4. CASE UNCHANGED <<pc, loc, fresh>>
    <2>1. VersionOK(p)'
      BY <1>1, <1>4 DEF VersionOK, Exists
    <2> QED BY <1>1, <1>2, <2>1, PodVersion
  <1> QED BY <1>3, <1>4, ReconcileGetStep

LEMMA ReconcileCheckVersion ==
    ASSUME IInv, VersionInv, NEW p \in Pods, ReconcileCheck(p)
    PROVE  VersionInv'
  <1>1. /\ Framed(p) /\ VersionOK(p) /\ pc[p] = "sync" /\ loc[p].inst \in CRs
        /\ UNCHANGED <<cr, fresh>>
    BY ReconcileCheckStep, CopyTypes DEF VersionInv
  <1>2. MigKept /\ Promise(cr)'
    BY <1>1 DEF MigKept, VersionInv, Promise
  <1>3. CASE pc'[p] = "idle" /\ loc'[p] = NoLocals
    BY <1>1, <1>3, QuietVersion
  <1>4. CASE pc'[p] = "adopt" /\ loc' = loc
    <2>1. VersionOK(p)'
      BY <1>1, <1>4 DEF VersionOK, Exists, InReconcile
    <2> QED BY <1>1, <1>2, <2>1, PodVersion
  <1>5. CASE /\ pc'[p] = "upgrade" /\ loc'[p].orig = loc[p].orig
             /\ loc'[p].inst = [loc[p].inst EXCEPT !.norm = TRUE]
    <2>1. /\ loc'[p].inst.uid = loc[p].inst.uid
          /\ loc'[p].inst.ver = loc[p].inst.ver
          /\ loc'[p].inst.mig = loc[p].inst.mig
      BY <1>1, <1>5 DEF CRs
    <2>2. VersionOK(p)'
      BY <1>1, <1>5, <2>1 DEF VersionOK, Promise, InReconcile
    <2> QED BY <1>1, <1>2, <2>2, PodVersion
  <1> QED BY <1>3, <1>4, <1>5, ReconcileCheckStep

LEMMA StartupListVersion ==
    ASSUME IInv, VersionInv, NEW p \in Pods, StartupList(p)
    PROVE  VersionInv'
  <1>1. Framed(p) /\ cr' = cr /\ cr \in CRs /\ bin[p] \in Binaries
    BY StartupListStep, CopyTypes
  <1>2. MigKept /\ Promise(cr)'
    BY <1>1 DEF MigKept, VersionInv, Promise
  <1> DEFINE up == ManagedInstance(cr.ver, cr.mig, bin[p])
  <1>3. ASSUME Exists
        PROVE  Keeps(cr.mig, up.mig) /\ Covers(up.ver, up.mig)
    BY <1>1, <1>3, CopyTypes, ManagedInstanceCovers
    DEF VersionInv, Promise, Exists
  <1> HIDE DEF up
  <1>4. CASE /\ Exists /\ pc'[p] = "patch" /\ loc'[p].orig = cr
             /\ loc'[p].inst = [cr EXCEPT !.ver = up.ver, !.mig = up.mig]
    <2>1. loc'[p].inst.ver = up.ver /\ loc'[p].inst.mig = up.mig
      BY <1>1, <1>4 DEF CRs
    <2>2. VersionOK(p)'
      BY <1>1, <1>2, <1>3, <1>4, <2>1 DEF VersionOK, Promise, Keeps,
         InReconcile, Applying
    <2> QED BY <1>1, <1>2, <2>2, PodVersion
  <1>5. CASE pc'[p] = "idle" /\ loc'[p] = NoLocals
    BY <1>1, <1>5, QuietVersion
  <1> QED BY <1>4, <1>5, StartupListStep DEF up

(* The merge patch raises the flags it carries and leaves the others: the  *)
(* CR it lands on, whatever happened to it since the list, has afterwards  *)
(* the format of the version that the status patch will record.            *)
LEMMA StartupPatchVersion ==
    ASSUME IInv, VersionInv, NEW p \in Pods, StartupPatch(p)
    PROVE  VersionInv'
  <1> DEFINE patched == [s \in Steps |->
                 IF loc[p].inst.mig[s] # loc[p].orig.mig[s]
                 THEN loc[p].inst.mig[s] ELSE cr.mig[s]]
  <1>1. /\ Framed(p) /\ pc[p] = "patch" /\ VersionOK(p) /\ cr \in CRs
        /\ loc[p].orig.mig \in Migrations /\ loc[p].inst.mig \in Migrations
        /\ cr.mig \in Migrations
        /\ loc[p].orig.uid # 0 /\ loc[p].inst.uid # 0
    BY StartupPatchStep, CopyTypes DEF VersionInv, IInv, CopyInv, CopyOK,
       Holding, Upgrading
  <1>2. CASE /\ Exists /\ pc'[p] = "statusPatch"
             /\ cr' = [cr EXCEPT !.mig = patched]
             /\ loc'[p].orig = loc[p].orig /\ loc'[p].inst = loc[p].inst
    <2>1. \A s \in Steps : /\ loc[p].inst.mig[s] \in 0..2
                           /\ loc[p].orig.mig[s] \in 0..2
                           /\ cr.mig[s] \in 0..2
      BY <1>1 DEF Migrations
    <2>2. \A s \in Steps : patched[s] = IF loc[p].inst.mig[s] # loc[p].orig.mig[s]
                                        THEN loc[p].inst.mig[s] ELSE cr.mig[s]
      OBVIOUS
    <2> HIDE DEF patched
    <2>3. Keeps(loc[p].orig.mig, loc[p].inst.mig) /\ Keeps(loc[p].orig.mig, cr.mig)
      BY <1>1, <1>2 DEF VersionOK
    <2>4. cr'.mig = patched /\ cr'.uid = cr.uid /\ cr'.ver = cr.ver
      BY <1>1, <1>2 DEF CRs
    <2>5. Keeps(cr.mig, patched)
      <3> SUFFICES ASSUME NEW s \in Steps, cr.mig[s] >= 1
                   PROVE  patched[s] >= 1
        BY DEF Keeps
      <3>1. CASE loc[p].inst.mig[s] # loc[p].orig.mig[s]
        <4>1. loc[p].inst.mig[s] >= 1
          BY <2>1, <2>3, <3>1 DEF Keeps
        <4> QED BY <2>2, <3>1, <4>1
      <3>2. CASE loc[p].inst.mig[s] = loc[p].orig.mig[s]
        BY <2>2, <3>2
      <3> QED BY <3>1, <3>2
    <2>6. Covers(loc[p].inst.ver, patched)
      <3>1. Covers(loc[p].inst.ver, loc[p].inst.mig)
        BY <1>1 DEF VersionOK, Promise
      <3>2. \A s \in Steps : loc[p].inst.mig[s] >= 1 => patched[s] >= 1
        BY <2>2, <2>3 DEF Keeps
      <3> QED BY <3>1, <3>2 DEF Covers
    <2>7. MigKept /\ Promise(cr)'
      BY <1>2, <2>4, <2>5 DEF MigKept, Promise, Keeps, VersionInv, Covers, Exists
    <2>8. VersionOK(p)'
      BY <1>1, <1>2, <2>4, <2>6 DEF VersionOK, InReconcile, Applying
    <2> QED BY <1>1, <2>7, <2>8, PodVersion
  <1>3. CASE pc'[p] = "idle" /\ loc'[p] = NoLocals /\ cr' = cr
    BY <1>1, <1>3, QuietVersion
  <1> QED BY <1>2, <1>3, StartupPatchStep

LEMMA StartupStatusPatchVersion ==
    ASSUME IInv, VersionInv, NEW p \in Pods, StartupStatusPatch(p)
    PROVE  VersionInv'
  <1>1. /\ Framed(p) /\ pc[p] = "statusPatch" /\ VersionOK(p) /\ cr \in CRs
        /\ pc'[p] = "idle" /\ loc'[p] = NoLocals
    BY StartupStatusPatchStep, CopyTypes DEF VersionInv
  <1>2. CASE cr' = cr
    BY <1>1, <1>2, QuietVersion
  <1>3. CASE Exists /\ cr' = [cr EXCEPT !.ver = loc[p].inst.ver]
    <2>1. /\ cr'.mig = cr.mig /\ cr'.uid = cr.uid
          /\ cr'.ver = loc[p].inst.ver
      BY <1>1, <1>3 DEF CRs
    <2>2. Covers(loc[p].inst.ver, cr.mig)
      BY <1>1, <1>3 DEF VersionOK
    <2>3. MigKept /\ Promise(cr)'
      BY <2>1, <2>2 DEF MigKept, Promise
    <2> QED BY <1>1, <2>3, IdleVersion, PodVersion
  <1> QED BY <1>2, <1>3, StartupStatusPatchStep

LEMMA LifeVersion ==
    ASSUME IInv, VersionInv, NEW p \in Pods, Crash(p) \/ Restart(p)
    PROVE  VersionInv'
  <1>1. CASE Crash(p)
    BY <1>1, CrashStep, QuietVersion
  <1>2. CASE Restart(p)
    <2>1. /\ Framed(p) /\ UNCHANGED <<cr, loc, fresh>> /\ pc'[p] = "startup"
          /\ VersionOK(p)
      BY <1>2, RestartStep DEF VersionInv
    <2>2. MigKept /\ Promise(cr)'
      BY <2>1 DEF MigKept, VersionInv, Promise
    <2>3. VersionOK(p)'
      BY <2>1 DEF VersionOK, InReconcile, Applying
    <2> QED BY <2>1, <2>2, <2>3, PodVersion
  <1> QED BY <1>1, <1>2

LEMMA UserVersion ==
    ASSUME IInv, VersionInv, User
    PROVE  VersionInv'
  <1>1. cr \in CRs
    BY DEF IInv, TypeOK
  <1>2. MigKept /\ Promise(cr)'
    <2>1. CASE UserCreate
      <3>1. /\ cr'.mig = FormatOf(MaxVersion) /\ cr'.ver = 0
        BY <2>1 DEF UserCreate, Write, NoCR
      <3> QED BY <3>1, FormatCovers DEF MigKept, Promise, Covers
    <2>2. CASE UserEdit
      <3>1. cr'.uid = cr.uid /\ cr'.mig = cr.mig /\ cr'.ver = cr.ver
        BY <1>1, <2>2 DEF UserEdit, Write, CRs
      <3> QED BY <2>2, <3>1 DEF MigKept, Promise, VersionInv, UserEdit, Exists
    <2>3. CASE UserDelete
      <3>1. cr'.uid = 0
        BY <2>3, NoFields DEF UserDelete, Write
      <3> QED BY <3>1 DEF MigKept, Promise
    <2> QED BY <2>1, <2>2, <2>3 DEF User
  <1>3. ASSUME NEW q \in Pods
        PROVE  /\ loc'[q] = loc[q] /\ pc'[q] = pc[q]
               /\ fresh'[q] => fresh[q] /\ cr' = cr
    BY DEF User, UserCreate, UserEdit, UserDelete, Write, IInv, TypeOK
  <1> QED BY <1>2, <1>3, VersionKept DEF VersionInv

LEMMA InitVersion ==
    ASSUME Init
    PROVE  VersionInv
  <1>1. Promise(cr)
    <2>1. CASE cr = NoCR
      BY <2>1, NoFields DEF Promise
    <2>2. CASE \E o \in Identities, v \in Binaries :
                 cr = [uid |-> 1, owner |-> o, edit |-> 0, norm |-> TRUE,
                       mig |-> FormatOf(v), ver |-> v, phase |-> "Running"]
      <3> PICK o \in Identities, v \in Binaries :
                 cr = [uid |-> 1, owner |-> o, edit |-> 0, norm |-> TRUE,
                       mig |-> FormatOf(v), ver |-> v, phase |-> "Running"]
        BY <2>2
      <3>1. cr.ver = v /\ cr.mig = FormatOf(v)
        OBVIOUS
      <3> QED BY <3>1, FormatCovers DEF Promise
    <2> QED BY <2>1, <2>2 DEF Init
  <1>2. ASSUME NEW p \in Pods
        PROVE  VersionOK(p)
    <2>1. loc[p] = NoLocals /\ pc[p] = "startup"
      BY DEF Init
    <2> QED BY <2>1, NoFields DEF VersionOK, Promise, Keeps, InReconcile,
            Applying
  <1> QED BY <1>1, <1>2 DEF VersionInv

-----------------------------------------------------------------------------
LEMMA NextVersion ==
    ASSUME Supported, IInv, VersionInv, [Next]_vars
    PROVE  VersionInv'
  <1>1. CASE User
    BY <1>1, UserVersion
  <1>2. ASSUME NEW k \in Kinds, GarbageCollect(k) PROVE VersionInv'
    BY <1>2 DEF GarbageCollect, VersionInv, VersionOK, Promise, Exists
  <1>3. ASSUME NEW p \in Pods, Crash(p) \/ Restart(p) PROVE VersionInv'
    BY <1>3, LifeVersion
  <1>4. ASSUME NEW p \in Pods, ManagedInstances(p) PROVE VersionInv'
    BY <1>4, StartupListVersion, StartupPatchVersion,
       StartupStatusPatchVersion
    DEF ManagedInstances
  <1>5. ASSUME NEW p \in Pods, Reconcile(p) PROVE VersionInv'
    BY <1>5, ReconcileGetVersion, ReconcileCheckVersion, AdoptVersion,
       AdoptFailedVersion, ApplyUpgradeVersion, CertsVersion,
       ApplyStageVersion, StoreFailedVersion, StoreInstanceVersion,
       StoreStatusVersion
    DEF Reconcile
  <1>6. CASE UNCHANGED vars
    BY <1>6 DEF vars, VersionInv, VersionOK, Promise, Exists
  <1> QED BY <1>1, <1>2, <1>3, <1>4, <1>5, <1>6 DEF Next

(* The version in the status of the stored CR never runs ahead of the      *)
(* upgrade routines that were applied to its spec, with any number of pods *)
(* of any binaries that reconcile, patch at start-up, crash and lose their *)
(* writes to each other.  The hypotheses are needed: the failed list of    *)
(* secrets stores the version alone (the run reconcile_lost_upgrade), and  *)
(* an instance older than the first upgrade is stamped with the new        *)
(* version as it is.                                                       *)
THEOREM VersionImpliesMigratedHolds ==
    ASSUME Supported
    PROVE  Spec => []VersionImpliesMigrated
  <1>1. Init => VersionInv
    BY InitVersion
  <1>2. IInv /\ VersionInv /\ [Next]_vars => VersionInv'
    BY NextVersion
  <1>3. VersionInv => VersionImpliesMigrated
    BY DEF VersionInv, Promise, Covers, VersionImpliesMigrated, Exists
  <1> QED BY <1>1, <1>2, <1>3, Invariance, PTL DEF Spec
=============================================================================
