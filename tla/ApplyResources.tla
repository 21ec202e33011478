--------------------------- MODULE ApplyResources ---------------------------
(***************************************************************************)
(* What a stage of apply does to the objects of its kind: list those that  *)
(* carry the labels of the instance, build the inventory, create, update,  *)
(* delete, one API call after the other (the apply... functions of         *)
(* pkg/controller/jaeger).  Several instances are applied concurrently (by *)
(* different operators), autoscalers and other controllers write to the    *)
(* objects in between, and calls fail.  A behaviour is about one kind.     *)
(* Waiting for the objects to become ready is in Rollout.                  *)
(***************************************************************************)
EXTENDS Inventory

CONSTANTS
    Instances,                \* the Jaeger CRs
    NamespaceOf, NameOf,      \* instance -> its namespace, its name
    Components,               \* the objects an instance may have of the kind
    Cases,                    \* what a behaviour may be about: the kind, the
                              \* instances there are, the number of edits
    Values,                   \* what the cluster may assign
    Labels,                   \* the labels a user may give the pods
    Absent,
    MaxEdits, MaxMeddles, MaxFaults   \* bounds of the model

ASSUME ResourcesAssumption ==
    /\ \A i, j \in Instances : NamespaceOf[i] = NamespaceOf[j]
                                 /\ NameOf[i] = NameOf[j] => i = j
    /\ None \notin Values /\ Values # {}
    /\ MaxEdits \in Nat /\ MaxMeddles \in Nat /\ MaxFaults \in Nat
    /\ \A c \in Cases : c.edits \in 0..MaxEdits

VARIABLES
    kind,      \* the kind of this behaviour
    live,      \* the instances there are
    wide,      \* the operator has cluster scope
    objs,      \* <<instance, component>> -> the stored object
    want,      \* instance -> what its CR asks for
    step,      \* instance -> "idle" | "apply"
    inv,       \* instance -> what its inventory has left to do
    current,   \* instance -> the listed objects nobody wrote since
    target,    \* instance -> the content of the CR being applied
    queued,    \* instance -> a request for it is in the queue
    applied,   \* instance -> the generation last applied without an error
    edits, meddles, faults

vars == <<kind, live, wide, objs, want, step, inv, current, target, queued,
          applied, edits, meddles, faults>>

Keys == Instances \X Components
ClusterKinds == {"ConsoleLinks", "ClusterRoleBindings"}
WorkloadKinds == {"Deployments", "DaemonSets"}

(* apply logs an error of these stages and goes on, or ends without one.   *)
Logged == {"ConsoleLinks", "HorizontalPodAutoscalers"}

(* An object is named after its instance; the generation of the CR stands  *)
(* for everything rendered from it.                                        *)
Objects == [spec : 0..MaxEdits, assigned : Values \cup {None},
            labels : SUBSET Labels, selector : SUBSET Labels,
            notes : 0..MaxMeddles]
Wants == [gen : 0..MaxEdits, comps : SUBSET Components,
          assigned : Values \cup {None}, labels : SUBSET Labels]

ASSUME ObjectsAssumption == Absent \notin Objects

NoInventory == [Create |-> <<>>, Update |-> <<>>, Delete |-> {}]

(* What the strategy renders; of a service account it owns no spec.  The   *)
(* labels of the CR are in the pod template of a workload and, with those  *)
(* of the operator, its selector.                                          *)
Desired(i) ==
    [k \in {i} \X want[i].comps |->
        [spec |-> IF kind = "Accounts" THEN 0 ELSE want[i].gen,
         assigned |-> want[i].assigned,
         labels |-> want[i].labels, selector |-> want[i].labels, notes |-> 0]]

(* The label app.kubernetes.io/instance is the name of the instance.       *)
Matches(i, k) == objs[k] # Absent /\ NameOf[k[1]] = NameOf[i]

(* List is not restricted to the namespace of the instance, or it is.      *)
ExistingAnywhere(i) == [k \in {k \in Keys : Matches(i, k)} |-> objs[k]]
ExistingIn(i) ==
    [k \in {k \in Keys : Matches(i, k) /\ NamespaceOf[k[1]] = NamespaceOf[i]}
        |-> objs[k]]

Init ==
    /\ \E c \in Cases : /\ kind = c.kind
                       /\ live = c.instances
                       /\ edits = MaxEdits - c.edits
    /\ wide \in IF kind \in ClusterKinds THEN BOOLEAN ELSE {TRUE}
    /\ objs = [k \in Keys |-> Absent]
    /\ want = [i \in Instances |->
                 [gen |-> 0, comps |-> IF i \in live THEN Components ELSE {},
                  assigned |-> None, labels |-> {}]]
    /\ step = [i \in Instances |-> "idle"]
    /\ inv = [i \in Instances |-> NoInventory]
    /\ current = [i \in Instances |-> {}]
    /\ target = want
    /\ queued = [i \in Instances |-> i \in live]
    /\ applied = [i \in Instances |-> IF i \in live THEN -1 ELSE 0]
    /\ meddles = 0
    /\ faults = 0

-----------------------------------------------------------------------------
(* The cluster.                                                            *)

(* The user edits the CR, which queues a request; only a deployment can be *)
(* given a number, only workloads have labels that matter.                 *)
UserEdit(i) ==
    /\ i \in live
    /\ edits < MaxEdits
    /\ edits' = edits + 1
    /\ \E cs \in SUBSET Components,
          a \in {None} \cup (IF kind = "Deployments" THEN Values ELSE {}),
          ls \in SUBSET (IF kind \in WorkloadKinds THEN Labels ELSE {}) :
            want' = [want EXCEPT ![i] = [gen |-> edits + 1, comps |-> cs,
                                         assigned |-> a, labels |-> ls]]
    /\ queued' = [queued EXCEPT ![i] = TRUE]
    /\ UNCHANGED <<kind, live, wide, objs, step, inv, current, target, applied,
                   meddles, faults>>

(* Every write of an object makes the listed copies of the others stale.   *)
Store(k, o) ==
    /\ objs' = [objs EXCEPT ![k] = o]
    /\ current' = [i \in Instances |-> current[i] \ {k}]

(* Another controller writes to an object: an autoscaler sets the replicas *)
(* of a deployment, anybody an annotation.                                 *)
Meddle(k) ==
    /\ objs[k] # Absent
    /\ meddles < MaxMeddles
    /\ meddles' = meddles + 1
    /\ \/ /\ kind = "Deployments"
          /\ \E v \in Values : Store(k, [objs[k] EXCEPT !.assigned = v])
       \/ Store(k, [objs[k] EXCEPT !.notes = meddles + 1])
    /\ UNCHANGED <<kind, live, wide, want, step, inv, target, queued, applied,
                   edits, faults>>

(* A value left empty is filled in by the server when an object is stored. *)
Fillable(o) == {v \in Values : o.assigned \in {v, None}}

(* The selector of a workload cannot be changed, and has to match the      *)
(* labels of its pod template.                                             *)
Accepts(k, o) ==
    kind \in WorkloadKinds =>
        o.selector = objs[k].selector /\ o.selector \subseteq o.labels

Fault == faults < MaxFaults /\ faults' = faults + 1
NoFault == UNCHANGED faults

-----------------------------------------------------------------------------
(* The calls of a stage.                                                   *)

(* An error that apply returns puts the request back into the queue, one   *)
(* that it only logs does not.                                             *)
Requeue(i) == queued' = [queued EXCEPT ![i] = @ \/ kind \notin Logged]

(* The stage ends with an error.                                           *)
Fail(i) ==
    /\ step' = [step EXCEPT ![i] = "idle"]
    /\ inv' = [inv EXCEPT ![i] = NoInventory]
    /\ Requeue(i)
    /\ UNCHANGED applied

(* A request is taken from the queue; list and inventory.                  *)
List(i, inventory) ==
    /\ step[i] = "idle"
    /\ queued[i]
    /\ \/ /\ NoFault
          /\ queued' = [queued EXCEPT ![i] = FALSE]
          /\ step' = [step EXCEPT ![i] = "apply"]
          /\ inv' = [inv EXCEPT ![i] = inventory]
          /\ current' = [current EXCEPT
                           ![i] = DOMAIN inventory.Update \cup inventory.Delete]
          /\ target' = [target EXCEPT ![i] = want[i]]
       \/ /\ Fault
          /\ queued' = [queued EXCEPT ![i] = kind \notin Logged]
          /\ UNCHANGED <<step, inv, current, target>>
    /\ UNCHANGED <<objs, applied>>

Drop(f, k) == [n \in DOMAIN f \ {k} |-> f[n]]

Create(i) ==
    /\ step[i] = "apply"
    /\ \E k \in DOMAIN inv[i].Create :
        \/ /\ NoFault
           /\ objs[k] = Absent
           /\ \E v \in Fillable(inv[i].Create[k]) :
                Store(k, [inv[i].Create[k] EXCEPT !.assigned = v])
           /\ inv' = [inv EXCEPT ![i].Create = Drop(@, k)]
           /\ UNCHANGED <<step, queued, applied>>
        \/ /\ Fault \/ (NoFault /\ objs[k] # Absent)
           /\ Fail(i)
           /\ UNCHANGED <<objs, current>>

(* Mutant: the update ignores the resource version of the listed object.   *)
UpdateUnconditional(i) ==
    /\ step[i] = "apply" /\ DOMAIN inv[i].Create = {} /\ NoFault
    /\ \E k \in DOMAIN inv[i].Update :
        /\ objs[k] # Absent
        /\ \E v \in Fillable(inv[i].Update[k]) :
             Store(k, [inv[i].Update[k] EXCEPT !.assigned = v])
        /\ inv' = [inv EXCEPT ![i].Update = Drop(@, k)]
        /\ UNCHANGED <<step, queued, applied>>

Update(i) ==
    /\ step[i] = "apply"
    /\ DOMAIN inv[i].Create = {}
    /\ \E k \in DOMAIN inv[i].Update :
        LET o == inv[i].Update[k]
        IN  \/ /\ NoFault
               /\ k \in current[i]
               /\ Accepts(k, o)
               /\ \E v \in Fillable(o) : Store(k, [o EXCEPT !.assigned = v])
               /\ inv' = [inv EXCEPT ![i].Update = Drop(@, k)]
               /\ UNCHANGED <<step, queued, applied>>
            \/ /\ Fault \/ (NoFault /\ ~(k \in current[i] /\ Accepts(k, o)))
               /\ Fail(i)
               /\ UNCHANGED <<objs, current>>

(* Delete is by name, whatever the resource version.                       *)
Delete(i) ==
    /\ step[i] = "apply"
    /\ DOMAIN inv[i].Create = {}
    /\ DOMAIN inv[i].Update = {}
    /\ \E k \in inv[i].Delete :
        \/ /\ NoFault
           /\ objs[k] # Absent
           /\ Store(k, Absent)
           /\ inv' = [inv EXCEPT ![i].Delete = @ \ {k}]
           /\ UNCHANGED <<step, queued, applied>>
        \/ /\ Fault \/ (NoFault /\ objs[k] = Absent)
           /\ Fail(i)
           /\ UNCHANGED <<objs, current>>

(* Mutant: the stage ends before the objects nobody wants are deleted.     *)
FinishEarly(i) ==
    /\ step[i] = "apply"
    /\ DOMAIN inv[i].Create = {} /\ DOMAIN inv[i].Update = {}
    /\ step' = [step EXCEPT ![i] = "idle"]
    /\ inv' = [inv EXCEPT ![i] = NoInventory]
    /\ applied' = [applied EXCEPT ![i] = target[i].gen]
    /\ UNCHANGED <<objs, current, queued, faults>>

Finish(i) ==
    /\ step[i] = "apply"
    /\ inv[i] = NoInventory
    /\ step' = [step EXCEPT ![i] = "idle"]
    /\ applied' = [applied EXCEPT ![i] = target[i].gen]
    /\ UNCHANGED <<objs, inv, current, queued, faults>>

-----------------------------------------------------------------------------
(* The stages: each lists its kind and goes through its inventory.         *)
Stage(i, k, inventory) ==
    /\ kind = k
    /\ \/ List(i, inventory)
       \/ (Create(i) \/ Update(i) \/ Delete(i) \/ Finish(i)) /\ UNCHANGED target
    /\ UNCHANGED <<kind, live, wide, want, edits, meddles>>

(* A stage for an operator with cluster scope; without it nothing is done. *)
ClusterStage(i, k, inventory) ==
    \/ wide /\ Stage(i, k, inventory)
    \/ /\ ~wide
       /\ kind = k
       /\ queued[i]
       /\ queued' = [queued EXCEPT ![i] = FALSE]
       /\ applied' = [applied EXCEPT ![i] = want[i].gen]
       /\ UNCHANGED <<kind, live, wide, objs, want, step, inv, current, target, edits,
                      meddles, faults>>

ApplySecrets(i) ==
    Stage(i, "Secrets", ForSecrets(ExistingIn(i), Desired(i)))
ApplyElasticsearches(i) ==
    Stage(i, "Elasticsearches", ForElasticsearches(ExistingIn(i), Desired(i)))
ApplyKafkas(i) ==
    Stage(i, "Kafkas", ForKafkas(ExistingIn(i), Desired(i)))
ApplyKafkaUsers(i) ==
    Stage(i, "KafkaUsers", ForKafkaUsers(ExistingIn(i), Desired(i)))
ApplyAccounts(i) ==
    Stage(i, "Accounts", ForAccounts(ExistingIn(i), Desired(i)))
ApplyConfigMaps(i) ==
    Stage(i, "ConfigMaps", ForConfigMaps(ExistingIn(i), Desired(i)))
ApplyCronJobs(i) ==
    Stage(i, "CronJobs", ForCronJobs(ExistingIn(i), Desired(i)))
ApplyServices(i) ==
    Stage(i, "Services", ForServices(ExistingIn(i), Desired(i)))
ApplyDeployments(i) ==
    Stage(i, "Deployments", ForDeployments(ExistingIn(i), Desired(i)))
ApplyRoutes(i) ==
    Stage(i, "Routes", ForRoutes(ExistingIn(i), Desired(i)))
ApplyIngresses(i) ==
    Stage(i, "Ingresses", ForIngresses(ExistingIn(i), Desired(i)))
ApplyHorizontalPodAutoscalers(i) ==
    Stage(i, "HorizontalPodAutoscalers",
          ForHorizontalPodAutoscalers(ExistingIn(i), Desired(i)))
ApplyDaemonSets(i) ==
    Stage(i, "DaemonSets", ForDaemonSets(ExistingIn(i), Desired(i)))

(* Cluster-scoped kinds: console links carry the namespace as a label and  *)
(* are selected by it, cluster role bindings are not.                      *)
ApplyConsoleLinks(i) ==
    ClusterStage(i, "ConsoleLinks",
                 ForConsoleLinks(ExistingIn(i), Desired(i)))
ApplyClusterRoleBindingBindings(i) ==
    ClusterStage(i, "ClusterRoleBindings",
                 ForClusterRoleBindings(ExistingAnywhere(i), Desired(i)))

Apply(i) ==
    \/ ApplySecrets(i) \/ ApplyElasticsearches(i) \/ ApplyKafkas(i)
    \/ ApplyKafkaUsers(i) \/ ApplyAccounts(i) \/ ApplyConfigMaps(i)
    \/ ApplyCronJobs(i) \/ ApplyServices(i) \/ ApplyDeployments(i)
    \/ ApplyRoutes(i) \/ ApplyConsoleLinks(i) \/ ApplyIngresses(i)
    \/ ApplyHorizontalPodAutoscalers(i) \/ ApplyDaemonSets(i)
    \/ ApplyClusterRoleBindingBindings(i)

Next ==
    \/ \E i \in Instances : UserEdit(i) \/ Apply(i)
    \/ \E k \in Keys : Meddle(k)

Spec == Init /\ [][Next]_vars

(* The operator goes on; the cluster and the user owe nothing.             *)
FairSpec == Spec /\ \A i \in Instances : WF_vars(Apply(i))

-----------------------------------------------------------------------------
(* No object is in two parts of an inventory, or created under another     *)
(* name.                                                                   *)
InventoryOK(v) ==
    LET c == DOMAIN v.Create
        u == DOMAIN v.Update
    IN  /\ c \cup u \cup v.Delete \subseteq Keys
        /\ c \cap u = {} /\ c \cap v.Delete = {} /\ u \cap v.Delete = {}

TypeOK ==
    /\ \E c \in Cases : kind = c.kind /\ live = c.instances
    /\ wide \in BOOLEAN
    /\ objs \in [Keys -> Objects \cup {Absent}]
    /\ want \in [Instances -> Wants]
    /\ step \in [Instances -> {"idle", "apply"}]
    /\ target \in [Instances -> Wants]
    /\ queued \in [Instances -> BOOLEAN]
    /\ applied \in [Instances -> -1..MaxEdits]
    /\ current \in [Instances -> SUBSET Keys]
    /\ \A i \in Instances : InventoryOK(inv[i])
    /\ edits \in 0..MaxEdits
    /\ meddles \in 0..MaxMeddles
    /\ faults \in 0..MaxFaults

(* Applying one instance never creates, changes or removes an object of    *)
(* another one, not even of one with the same name in another namespace.   *)
ForeignUntouched ==
    [][\A i \in Instances, k \in Keys :
          Apply(i) /\ k[1] # i => objs'[k] = objs[k]]_vars

(* What others wrote into an object survives an update of the operator:    *)
(* annotations always, replicas unless the CR asks for a number.  The copy *)
(* that is merged was listed several calls ago.                            *)
AssignedKept ==
    [][\A k \in Keys :
          objs[k] # Absent /\ objs'[k] # Absent /\ meddles' = meddles =>
              /\ objs'[k].notes = objs[k].notes
              /\ \/ objs'[k].assigned = objs[k].assigned
                 \/ kind # "Deployments" /\ kind # "Services"
                 \/ objs'[k].assigned = target[k[1]].assigned]_vars

(* When the generation the CR has now is the one last applied, exactly the *)
(* objects it asks for exist, rendered from it.                            *)
AppliedMeansDesired ==
    \A i \in Instances : applied[i] = want[i].gen /\ wide =>
        \A c \in Components :
            IF c \in want[i].comps
            THEN /\ objs[<<i, c>>] # Absent
                 /\ kind # "Accounts" => objs[<<i, c>>].spec = want[i].gen
            ELSE objs[<<i, c>>] = Absent

(* The selector a workload was created with stands against the labels the  *)
(* CR asks for now: a deployment keeps it, so they may only be more; a     *)
(* daemon set is rendered with a new one.                                  *)
Refused(i) ==
    \E c \in want[i].comps :
        /\ objs[<<i, c>>] # Absent
        /\ \/ kind = "DaemonSets" /\ objs[<<i, c>>].selector # want[i].labels
           \/ /\ kind = "Deployments"
              /\ ~(objs[<<i, c>>].selector \subseteq want[i].labels)

(* Once the user stops, every instance is applied, whatever conflicts and  *)
(* failures there were on the way, and the queue stays empty.  Not where   *)
(* the API server refuses every update of a workload, and not for the      *)
(* kinds whose errors are only logged: those stages end, applied or not.   *)
EventuallyApplied ==
    <>[](\A i \in Instances :
           \/ Refused(i)
           \/ /\ step[i] = "idle" /\ ~queued[i]
              /\ kind \in Logged \/ applied[i] = want[i].gen)
=============================================================================
