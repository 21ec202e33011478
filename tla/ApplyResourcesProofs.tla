------------------------ MODULE ApplyResourcesProofs ------------------------
(***************************************************************************)
(* Proofs about ApplyResources, for any instances, components, kinds and   *)
(* bounds: a stage keeps its hands off the objects of other instances and  *)
(* off what others wrote into its own, and a stage that ended without an   *)
(* error left exactly the objects that its CR asks for.                    *)
(***************************************************************************)
EXTENDS ApplyResources, TLAPS

Renderings == UNION {[S -> Objects] : S \in SUBSET Keys}
Inventories == [Create : Renderings, Update : Renderings, Delete : SUBSET Keys]

(* The fifteen stages are one: List, then the inventory of the kind.       *)
Existing(i) ==
    IF kind = "ClusterRoleBindings" THEN ExistingAnywhere(i) ELSE ExistingIn(i)
Merge(t, v) ==
    CASE kind = "Deployments" -> MergeDeployment(t, v)
      [] kind = "Services" -> MergeService(t, v)
      [] kind = "Accounts" -> MergeAccount(t, v)
      [] OTHER -> MergeSpec(t, v)
ForKind(i) ==
    Inventory(Existing(i), Desired(i),
              [n \in Both(Existing(i), Desired(i)) |->
                 Merge(Existing(i)[n], Desired(i)[n])])
Skip(i) ==
    /\ ~wide /\ kind \in ClusterKinds
    /\ queued[i]
    /\ queued' = [queued EXCEPT ![i] = FALSE]
    /\ applied' = [applied EXCEPT ![i] = want[i].gen]
    /\ UNCHANGED <<kind, live, wide, objs, want, step, inv, current, target,
                   edits, meddles, faults>>

(* What is stored has been given its values by the cluster.                *)
StoredInv ==
    /\ wide \/ kind \in ClusterKinds
    /\ inv \in [Instances -> Inventories]
    /\ \A k \in Keys : objs[k] # Absent => objs[k].assigned \in Values

(* A generation stands for one content of the CR, and an instance at work  *)
(* or in the queue has not applied the one it has; one that is both was    *)
(* edited since its request was taken.                                     *)
GenOK(i) ==
    /\ want[i].gen <= edits
    /\ target[i].gen <= want[i].gen
    /\ target[i].gen = want[i].gen => target[i] = want[i]
    /\ applied[i] <= want[i].gen
    /\ step[i] = "apply" => wide /\ applied[i] # want[i].gen
    /\ queued[i] => applied[i] # want[i].gen
    /\ step[i] = "apply" /\ queued[i] => target[i].gen # want[i].gen

(* The copies to be written are rendered from the target; one that is      *)
(* still current differs from what is stored in nothing the operator does  *)
(* not own.                                                                *)
PlanOK(i) ==
    LET c == inv[i].Create
        u == inv[i].Update
    IN  step[i] = "apply" =>
          /\ DOMAIN c \subseteq {i} \X target[i].comps
          /\ DOMAIN u \subseteq {i} \X target[i].comps
          /\ kind # "Accounts" =>
                /\ \A k \in DOMAIN c : c[k].spec = target[i].gen
                /\ \A k \in DOMAIN u : u[k].spec = target[i].gen
          /\ \A k \in DOMAIN u : k \in current[i] =>
                /\ objs[k] # Absent
                /\ u[k].notes = objs[k].notes
                /\ kind \in {"Deployments", "Services"} =>
                      /\ u[k].assigned # None
                      /\ u[k].assigned \in {objs[k].assigned, target[i].assigned}

ResourceInv ==
    /\ TypeOK
    /\ StoredInv
    /\ \A i \in Instances : GenOK(i) /\ PlanOK(i)

(* The object of a component is as t asks for.                             *)
Good(i, c, t) ==
    IF c \in t.comps
    THEN /\ objs[<<i, c>>] # Absent
         /\ kind # "Accounts" => objs[<<i, c>>].spec = t.gen
    ELSE objs[<<i, c>>] = Absent

(* An inventory is complete: what it does not mention is as the target     *)
(* asks for, and what it deletes is the instance's own and not asked for.  *)
CompleteOK(i) ==
    LET v == inv[i]
    IN  /\ step[i] = "apply" =>
             /\ v.Delete \subseteq {i} \X (Components \ target[i].comps)
             /\ \A c \in Components :
                   <<i, c>> \notin DOMAIN v.Create \cup DOMAIN v.Update \cup v.Delete
                      => Good(i, c, target[i])
        /\ i \notin live => step[i] = "idle" /\ applied[i] = want[i].gen
        /\ \A c \in Components : objs[<<i, c>>] # Absent => i \in live
AppliedOK(i) ==
    applied[i] = want[i].gen /\ wide => \A c \in Components : Good(i, c, want[i])
CompleteInv == \A i \in Instances : CompleteOK(i) /\ AppliedOK(i)

(* Cluster role bindings are listed by the name of the instance alone: two *)
(* instances of one name take each other's (the run resources_same_name).  *)
Separate ==
    \A c \in Cases : c.kind = "ClusterRoleBindings" =>
        \A i, j \in c.instances : NameOf[i] = NameOf[j] => i = j

-----------------------------------------------------------------------------
LEMMA OneStage ==
    ASSUME NEW i, Apply(i)
    PROVE  \/ (wide \/ kind \notin ClusterKinds) /\ Stage(i, kind, ForKind(i))
           \/ Skip(i)
  <1> USE DEF ForKind, Existing, Merge, ForSpecs, ClusterKinds
  <1>1. CASE ApplySecrets(i)
    BY <1>1 DEF ApplySecrets, ForSecrets, Stage
  <1>2. CASE ApplyElasticsearches(i)
    BY <1>2 DEF ApplyElasticsearches, ForElasticsearches, Stage
  <1>3. CASE ApplyKafkas(i)
    BY <1>3 DEF ApplyKafkas, ForKafkas, Stage
  <1>4. CASE ApplyKafkaUsers(i)
    BY <1>4 DEF ApplyKafkaUsers, ForKafkaUsers, Stage
  <1>5. CASE ApplyAccounts(i)
    BY <1>5 DEF ApplyAccounts, ForAccounts, Stage
  <1>6. CASE ApplyConfigMaps(i)
    BY <1>6 DEF ApplyConfigMaps, ForConfigMaps, Stage
  <1>7. CASE ApplyCronJobs(i)
    BY <1>7 DEF ApplyCronJobs, ForCronJobs, Stage
  <1>8. CASE ApplyServices(i)
    BY <1>8 DEF ApplyServices, ForServices, Stage
  <1>9. CASE ApplyDeployments(i)
    BY <1>9 DEF ApplyDeployments, ForDeployments, Stage
  <1>10. CASE ApplyRoutes(i)
    BY <1>10 DEF ApplyRoutes, ForRoutes, Stage
  <1>11. CASE ApplyIngresses(i)
    BY <1>11 DEF ApplyIngresses, ForIngresses, Stage
  <1>12. CASE ApplyHorizontalPodAutoscalers(i)
    BY <1>12 DEF ApplyHorizontalPodAutoscalers, ForHorizontalPodAutoscalers,
       Stage
  <1>13. CASE ApplyDaemonSets(i)
    BY <1>13 DEF ApplyDaemonSets, ForDaemonSets, Stage
  <1>14. CASE ApplyConsoleLinks(i)
    BY <1>14 DEF ApplyConsoleLinks, ForConsoleLinks, ClusterStage, Stage, Skip
  <1>15. CASE ApplyClusterRoleBindingBindings(i)
    BY <1>15 DEF ApplyClusterRoleBindingBindings, ForClusterRoleBindings,
       ClusterStage, Stage, Skip
  <1> QED BY <1>1, <1>2, <1>3, <1>4, <1>5, <1>6, <1>7, <1>8, <1>9, <1>10, <1>11,
          <1>12, <1>13, <1>14, <1>15 DEF Apply

-----------------------------------------------------------------------------
(* The operators that inventories are made of.                             *)
LEMMA RenderingType ==
    ASSUME NEW f \in Renderings
    PROVE  /\ DOMAIN f \subseteq Keys
           /\ \A n \in DOMAIN f : f[n] \in Objects
  BY DEF Renderings

LEMMA RenderingMade ==
    ASSUME NEW S \in SUBSET Keys, NEW f \in [S -> Objects]
    PROVE  f \in Renderings
  BY DEF Renderings

LEMMA Dropped ==
    ASSUME NEW f \in Renderings, NEW k
    PROVE  /\ Drop(f, k) \in Renderings
           /\ DOMAIN Drop(f, k) = DOMAIN f \ {k}
           /\ \A n \in DOMAIN f \ {k} : Drop(f, k)[n] = f[n]
  <1>1. DOMAIN f \ {k} \in SUBSET Keys
    BY RenderingType
  <1>2. Drop(f, k) \in [DOMAIN f \ {k} -> Objects]
    BY RenderingType DEF Drop
  <1> QED BY <1>1, <1>2, RenderingMade DEF Drop

LEMMA EmptyInventory ==
    /\ NoInventory \in Inventories
    /\ DOMAIN NoInventory.Create = {} /\ DOMAIN NoInventory.Update = {}
    /\ NoInventory.Delete = {}
  <1>1. <<>> \in [{} -> Objects] /\ DOMAIN <<>> = {}
    OBVIOUS
  <1>2. {} \in SUBSET Keys
    OBVIOUS
  <1>3. <<>> \in Renderings
    BY <1>1, <1>2, RenderingMade
  <1> QED BY <1>1, <1>2, <1>3 DEF NoInventory, Inventories

LEMMA DesiredFacts ==
    ASSUME TypeOK, NEW i \in Instances
    PROVE  /\ DOMAIN Desired(i) = {i} \X want[i].comps
           /\ DOMAIN Desired(i) \subseteq Keys
           /\ \A k \in DOMAIN Desired(i) :
                /\ Desired(i)[k] \in Objects
                /\ kind # "Accounts" => Desired(i)[k].spec = want[i].gen
                /\ Desired(i)[k].assigned = want[i].assigned
  <1>1. /\ want[i].gen \in 0..MaxEdits /\ want[i].comps \subseteq Components
        /\ want[i].assigned \in Values \cup {None}
        /\ want[i].labels \subseteq Labels
    BY DEF TypeOK, Wants
  <1>2. 0 \in 0..MaxMeddles /\ 0 \in 0..MaxEdits
    BY ResourcesAssumption
  <1> QED BY <1>1, <1>2 DEF Desired, Objects, Keys

LEMMA ExistingFacts ==
    ASSUME TypeOK, NEW i \in Instances
    PROVE  /\ DOMAIN Existing(i) \subseteq Keys
           /\ \A k \in DOMAIN Existing(i) :
                /\ objs[k] # Absent
                /\ Existing(i)[k] = objs[k]
                /\ Existing(i)[k] \in Objects
                /\ NameOf[k[1]] = NameOf[i]
                /\ kind # "ClusterRoleBindings" => k[1] = i
           /\ \A c \in Components :
                objs[<<i, c>>] # Absent => <<i, c>> \in DOMAIN Existing(i)
  <1>1. \A k \in Keys : k[1] \in Instances /\ objs[k] \in Objects \cup {Absent}
    BY DEF TypeOK, Keys
  <1>2. \A c \in Components : <<i, c>> \in Keys /\ <<i, c>>[1] = i
    BY DEF Keys
  <1>3. CASE kind = "ClusterRoleBindings"
    BY <1>1, <1>2, <1>3 DEF Existing, ExistingAnywhere, Matches
  <1>4. CASE kind # "ClusterRoleBindings"
    BY <1>1, <1>2, <1>4, ResourcesAssumption DEF Existing, ExistingIn, Matches
  <1> QED BY <1>3, <1>4

(* What a merge leaves to the cluster and to others.                       *)
LEMMA MergeFacts ==
    ASSUME NEW t \in Objects, NEW v \in Objects, t.assigned \in Values
    PROVE  /\ Merge(t, v) \in Objects
           /\ kind # "Accounts" => Merge(t, v).spec = v.spec
           /\ Merge(t, v).notes = t.notes
           /\ kind \in {"Deployments", "Services"} =>
                /\ Merge(t, v).assigned # None
                /\ Merge(t, v).assigned \in {t.assigned, v.assigned}
  <1>1. None \notin Values
    BY ResourcesAssumption
  <1>2. CASE kind = "Deployments"
    BY <1>1, <1>2 DEF Merge, MergeDeployment, Objects
  <1>3. CASE kind = "Services"
    BY <1>1, <1>3 DEF Merge, MergeService, Objects
  <1>4. CASE kind = "Accounts"
    BY <1>4 DEF Merge, MergeAccount
  <1>5. CASE kind \notin {"Deployments", "Services", "Accounts"}
    BY <1>5 DEF Merge, MergeSpec, Objects
  <1> QED BY <1>2, <1>3, <1>4, <1>5

(* The three parts of an inventory: disjoint, and between them everything  *)
(* that exists or is desired.                                              *)
LEMMA ForKindFacts ==
    ASSUME TypeOK, StoredInv, NEW i \in Instances
    PROVE  LET v == ForKind(i)
           IN  /\ v \in Inventories /\ InventoryOK(v)
               /\ DOMAIN v.Create = DOMAIN Desired(i) \ DOMAIN Existing(i)
               /\ DOMAIN v.Update = DOMAIN Desired(i) \cap DOMAIN Existing(i)
               /\ v.Delete = DOMAIN Existing(i) \ DOMAIN Desired(i)
               /\ \A k \in DOMAIN v.Create : v.Create[k] = Desired(i)[k]
               /\ \A k \in DOMAIN v.Update :
                    v.Update[k] = Merge(Existing(i)[k], Desired(i)[k])
  <1> DEFINE d == Desired(i)
             e == Existing(i)
             c == [n \in DOMAIN d \ DOMAIN e |-> d[n]]
             u == [n \in Both(e, d) |-> Merge(e[n], d[n])]
  <1>1. /\ ForKind(i).Create = c /\ ForKind(i).Update = u
        /\ ForKind(i).Delete = DOMAIN e \ DOMAIN d
        /\ ForKind(i) = [Create |-> c, Update |-> u, Delete |-> DOMAIN e \ DOMAIN d]
    BY DEF ForKind, Inventory
  <1>2. /\ DOMAIN d \subseteq Keys /\ DOMAIN e \subseteq Keys
        /\ \A n \in DOMAIN d : d[n] \in Objects
        /\ \A n \in DOMAIN e : e[n] \in Objects /\ e[n].assigned \in Values
    BY DesiredFacts, ExistingFacts DEF StoredInv
  <1> HIDE DEF d, e
  <1>3. c \in Renderings
    <2>1. c \in [DOMAIN d \ DOMAIN e -> Objects]
      BY <1>2
    <2>2. DOMAIN d \ DOMAIN e \in SUBSET Keys
      BY <1>2
    <2> QED BY <2>1, <2>2, RenderingMade
  <1>4. u \in Renderings
    <2>1. u \in [Both(e, d) -> Objects]
      BY <1>2, MergeFacts DEF Both
    <2>2. Both(e, d) \in SUBSET Keys
      BY <1>2 DEF Both
    <2> QED BY <2>1, <2>2, RenderingMade
  <1>5. ForKind(i) \in Inventories
    <2>1. DOMAIN e \ DOMAIN d \in SUBSET Keys
      BY <1>2
    <2> HIDE DEF c, u
    <2> QED BY <1>1, <1>3, <1>4, <2>1 DEF Inventories
  <1>6. DOMAIN c = DOMAIN d \ DOMAIN e /\ DOMAIN u = DOMAIN d \cap DOMAIN e
    BY DEF Both
  <1>7. InventoryOK(ForKind(i))
    <2> HIDE DEF c, u
    <2> QED BY <1>1, <1>2, <1>6 DEF InventoryOK
  <1>8. /\ \A k \in DOMAIN c : c[k] = d[k]
        /\ \A k \in DOMAIN u : u[k] = Merge(e[k], d[k])
    OBVIOUS
  <1> HIDE DEF c, u
  <1> QED BY <1>1, <1>5, <1>6, <1>7, <1>8 DEF d, e

-----------------------------------------------------------------------------
(* What the calls of a stage do, field by field.                           *)

(* The call is over and the other instances are where they were; what they *)
(* listed is current only if nobody wrote it.                              *)
Others(i) ==
    /\ UNCHANGED <<kind, live, wide, want, edits, meddles>>
    /\ faults' \in 0..MaxFaults
    /\ \A j \in Instances \ {i} :
          /\ step'[j] = step[j] /\ inv'[j] = inv[j]
          /\ target'[j] = target[j] /\ applied'[j] = applied[j]
          /\ queued'[j] = queued[j]
          /\ current'[j] \subseteq current[j]
          /\ \A k \in current'[j] : objs'[k] = objs[k]

Shapes ==
    /\ objs \in [Keys -> Objects \cup {Absent}]
    /\ step \in [Instances -> {"idle", "apply"}]
    /\ target \in [Instances -> Wants]
    /\ queued \in [Instances -> BOOLEAN]
    /\ applied \in [Instances -> -1..MaxEdits]
    /\ current \in [Instances -> SUBSET Keys]
    /\ inv \in [Instances -> Inventories]

Rest(i) ==
    /\ UNCHANGED target
    /\ UNCHANGED <<kind, live, wide, want, edits, meddles>>

(* An instance is back where it can list again.                            *)
Ended(i) ==
    /\ UNCHANGED <<objs, current, target>>
    /\ step[i] = "apply" /\ step'[i] = "idle" /\ inv'[i] = NoInventory

(* One object is written, or removed.                                      *)
Wrote(i, k, o) ==
    /\ objs' = [objs EXCEPT ![k] = o]
    /\ current'[i] = current[i] \ {k}
    /\ target'[i] = target[i] /\ applied'[i] = applied[i]
    /\ queued'[i] = queued[i]
    /\ step[i] = "apply" /\ step'[i] = "apply"

LEMMA ShapesHold ==
    ASSUME ResourceInv
    PROVE  Shapes
  BY DEF ResourceInv, TypeOK, StoredInv, Shapes

LEMMA FaultCount ==
    ASSUME ResourceInv, Fault \/ NoFault
    PROVE  faults' \in 0..MaxFaults
  BY ResourcesAssumption DEF Fault, NoFault, ResourceInv, TypeOK

LEMMA FailStep ==
    ASSUME ResourceInv, NEW i \in Instances, step[i] = "apply", Fail(i), Rest(i),
           UNCHANGED <<objs, current>>, Fault \/ NoFault
    PROVE  Others(i) /\ Ended(i) /\ applied' = applied /\ Shapes'
  <1>1. Shapes
    BY ShapesHold
  <1>2. /\ step'[i] = "idle" /\ inv'[i] = NoInventory
        /\ \A j \in Instances \ {i} : step'[j] = step[j] /\ inv'[j] = inv[j]
        /\ step' \in [Instances -> {"idle", "apply"}]
        /\ inv' \in [Instances -> Inventories]
    BY <1>1, EmptyInventory DEF Fail, Shapes
  <1>3. faults' \in 0..MaxFaults
    BY FaultCount
  <1>4. /\ queued' \in [Instances -> BOOLEAN]
        /\ \A j \in Instances \ {i} : queued'[j] = queued[j]
    BY <1>1 DEF Fail, Requeue, Shapes
  <1> QED BY <1>1, <1>2, <1>3, <1>4 DEF Others, Ended, Fail, Rest, Shapes

LEMMA StoreStep ==
    ASSUME ResourceInv, NEW i \in Instances, NEW k \in Keys,
           NEW o \in Objects \cup {Absent}, step[i] = "apply", Store(k, o), Rest(i),
           UNCHANGED <<step, queued, applied>>, NoFault,
           NEW v \in Inventories, inv' = [inv EXCEPT ![i] = v]
    PROVE  Others(i) /\ Wrote(i, k, o) /\ inv'[i] = v /\ Shapes'
  <1>1. Shapes
    BY ShapesHold
  <1>2. /\ inv'[i] = v /\ inv' \in [Instances -> Inventories]
        /\ \A j \in Instances \ {i} : inv'[j] = inv[j]
    BY <1>1 DEF Shapes
  <1>3. /\ objs' = [objs EXCEPT ![k] = o]
        /\ objs' \in [Keys -> Objects \cup {Absent}]
        /\ \A n \in Keys \ {k} : objs'[n] = objs[n]
    BY <1>1 DEF Shapes, Store
  <1>4. /\ current' \in [Instances -> SUBSET Keys]
        /\ \A j \in Instances : current'[j] = current[j] \ {k}
    BY <1>1 DEF Shapes, Store
  <1>5. \A j \in Instances : \A n \in current'[j] : objs'[n] = objs[n]
    <2> TAKE j \in Instances
    <2>1. \A n \in current'[j] : n \in Keys \ {k}
      BY <1>1, <1>4 DEF Shapes
    <2> QED BY <2>1, <1>3
  <1>6. faults' \in 0..MaxFaults
    BY FaultCount
  <1>7. Others(i)
    BY <1>2, <1>4, <1>5, <1>6 DEF Others, Rest
  <1>8. Wrote(i, k, o)
    BY <1>3, <1>4 DEF Wrote, Rest
  <1> QED BY <1>1, <1>2, <1>3, <1>4, <1>7, <1>8 DEF Shapes, Rest

(* The calls that succeed.                                                 *)
Listed(i) ==
    /\ UNCHANGED <<objs, applied>>
    /\ wide /\ applied[i] # want[i].gen /\ queued'[i] = FALSE
    /\ step'[i] = "apply" /\ inv'[i] = ForKind(i) /\ target'[i] = want[i]
    /\ current'[i] = DOMAIN inv'[i].Update \cup inv'[i].Delete

Created(i) ==
    \E k \in DOMAIN inv[i].Create, o \in Objects :
        /\ Wrote(i, k, o)
        /\ objs[k] = Absent
        /\ o.assigned \in Values /\ o.spec = inv[i].Create[k].spec
        /\ inv'[i] = [inv[i] EXCEPT !.Create = Drop(inv[i].Create, k)]

Updated(i) ==
    \E k \in DOMAIN inv[i].Update, o \in Objects :
        /\ Wrote(i, k, o)
        /\ k \in current[i]
        /\ o.assigned \in Values /\ inv[i].Update[k].assigned \in {o.assigned, None}
        /\ o.spec = inv[i].Update[k].spec /\ o.notes = inv[i].Update[k].notes
        /\ inv'[i] = [inv[i] EXCEPT !.Update = Drop(inv[i].Update, k)]

Deleted(i) ==
    \E k \in inv[i].Delete :
        /\ Wrote(i, k, Absent)
        /\ inv'[i] = [inv[i] EXCEPT !.Delete = inv[i].Delete \ {k}]

Finished(i) ==
    /\ step[i] = "apply" /\ inv[i] = NoInventory
    /\ applied'[i] = target[i].gen /\ queued' = queued

LEMMA FilledIn ==
    ASSUME NEW o \in Objects, NEW v \in Fillable(o)
    PROVE  /\ v \in Values
           /\ [o EXCEPT !.assigned = v] \in Objects
           /\ [o EXCEPT !.assigned = v].assigned = v
           /\ [o EXCEPT !.assigned = v].spec = o.spec
           /\ [o EXCEPT !.assigned = v].notes = o.notes
           /\ o.assigned \in {v, None}
  BY DEF Fillable, Objects

LEMMA Parts ==
    ASSUME ResourceInv, NEW i \in Instances
    PROVE  /\ inv[i] \in Inventories
           /\ inv[i].Create \in Renderings /\ inv[i].Update \in Renderings
           /\ inv[i].Delete \subseteq Keys
           /\ DOMAIN inv[i].Create \subseteq Keys /\ DOMAIN inv[i].Update \subseteq Keys
           /\ \A k \in DOMAIN inv[i].Create : inv[i].Create[k] \in Objects
           /\ \A k \in DOMAIN inv[i].Update : inv[i].Update[k] \in Objects
  <1>1. inv[i] \in Inventories
    BY DEF ResourceInv, StoredInv
  <1>2. inv[i].Create \in Renderings /\ inv[i].Update \in Renderings
        /\ inv[i].Delete \subseteq Keys
    BY <1>1 DEF Inventories
  <1> QED BY <1>1, <1>2, RenderingType

(* Taking one object out of a part of an inventory.                        *)
LEMMA PartsLeft ==
    ASSUME NEW v \in Inventories, NEW k
    PROVE  /\ [v EXCEPT !.Create = Drop(v.Create, k)] \in Inventories
           /\ [v EXCEPT !.Update = Drop(v.Update, k)] \in Inventories
           /\ [v EXCEPT !.Delete = v.Delete \ {k}] \in Inventories
  <1>1. v.Create \in Renderings /\ v.Update \in Renderings /\ v.Delete \in SUBSET Keys
    BY DEF Inventories
  <1>2. Drop(v.Create, k) \in Renderings /\ Drop(v.Update, k) \in Renderings
        /\ v.Delete \ {k} \in SUBSET Keys
    BY <1>1, Dropped
  <1> QED BY <1>2 DEF Inventories

LEMMA CreateStep ==
    ASSUME ResourceInv, NEW i \in Instances, Create(i), Rest(i)
    PROVE  /\ Others(i) /\ Shapes'
           /\ \/ Ended(i) /\ applied' = applied
              \/ Created(i)
  <1>1. PICK k \in DOMAIN inv[i].Create :
        \/ /\ NoFault /\ objs[k] = Absent
           /\ \E v \in Fillable(inv[i].Create[k]) :
                Store(k, [inv[i].Create[k] EXCEPT !.assigned = v])
           /\ inv' = [inv EXCEPT ![i].Create = Drop(@, k)]
           /\ UNCHANGED <<step, queued, applied>>
        \/ /\ Fault \/ NoFault
           /\ Fail(i)
           /\ UNCHANGED <<objs, current>>
    BY DEF Create
  <1>2. CASE Fail(i) /\ (Fault \/ NoFault) /\ UNCHANGED <<objs, current>>
    BY <1>2, FailStep DEF Create, Update, Delete
  <1>3. CASE /\ NoFault /\ objs[k] = Absent
             /\ \E v \in Fillable(inv[i].Create[k]) :
                  Store(k, [inv[i].Create[k] EXCEPT !.assigned = v])
             /\ inv' = [inv EXCEPT ![i].Create = Drop(@, k)]
             /\ UNCHANGED <<step, queued, applied>>
    <2>1. k \in Keys /\ inv[i].Create[k] \in Objects
      BY Parts
    <2>2. PICK v \in Fillable(inv[i].Create[k]) :
            Store(k, [inv[i].Create[k] EXCEPT !.assigned = v])
      BY <1>3
    <2> DEFINE o == [inv[i].Create[k] EXCEPT !.assigned = v]
               w == [inv[i] EXCEPT !.Create = Drop(inv[i].Create, k)]
    <2>3. o \in Objects /\ o.assigned \in Values /\ o.spec = inv[i].Create[k].spec
      BY <2>1, FilledIn
    <2>4. w \in Inventories
      BY Parts, PartsLeft
    <2>5. inv' = [inv EXCEPT ![i] = w]
      BY <1>3
    <2>6. step[i] = "apply" /\ Store(k, o)
      BY <2>2 DEF Create
    <2> HIDE DEF o, w
    <2>7. Others(i) /\ Wrote(i, k, o) /\ inv'[i] = w /\ Shapes'
      BY <1>3, <2>1, <2>3, <2>4, <2>5, <2>6, StoreStep
    <2> QED BY <1>3, <2>3, <2>7 DEF w, Created
  <1> QED BY <1>1, <1>2, <1>3

LEMMA UpdateStep ==
    ASSUME ResourceInv, NEW i \in Instances, Update(i), Rest(i)
    PROVE  /\ Others(i) /\ Shapes'
           /\ \/ Ended(i) /\ applied' = applied
              \/ Updated(i)
  <1>1. PICK k \in DOMAIN inv[i].Update :
        \/ /\ NoFault /\ k \in current[i]
           /\ \E v \in Fillable(inv[i].Update[k]) :
                Store(k, [inv[i].Update[k] EXCEPT !.assigned = v])
           /\ inv' = [inv EXCEPT ![i].Update = Drop(@, k)]
           /\ UNCHANGED <<step, queued, applied>>
        \/ /\ Fault \/ NoFault
           /\ Fail(i)
           /\ UNCHANGED <<objs, current>>
    BY DEF Update
  <1>2. CASE Fail(i) /\ (Fault \/ NoFault) /\ UNCHANGED <<objs, current>>
    BY <1>2, FailStep DEF Create, Update, Delete
  <1>3. CASE /\ NoFault /\ k \in current[i]
             /\ \E v \in Fillable(inv[i].Update[k]) :
                  Store(k, [inv[i].Update[k] EXCEPT !.assigned = v])
             /\ inv' = [inv EXCEPT ![i].Update = Drop(@, k)]
             /\ UNCHANGED <<step, queued, applied>>
    <2>1. k \in Keys /\ inv[i].Update[k] \in Objects
      BY Parts
    <2>2. PICK v \in Fillable(inv[i].Update[k]) :
            Store(k, [inv[i].Update[k] EXCEPT !.assigned = v])
      BY <1>3
    <2> DEFINE o == [inv[i].Update[k] EXCEPT !.assigned = v]
               w == [inv[i] EXCEPT !.Update = Drop(inv[i].Update, k)]
    <2>3. /\ o \in Objects /\ o.assigned \in Values
          /\ inv[i].Update[k].assigned \in {o.assigned, None}
          /\ o.spec = inv[i].Update[k].spec /\ o.notes = inv[i].Update[k].notes
      BY <2>1, FilledIn
    <2>4. w \in Inventories
      BY Parts, PartsLeft
    <2>5. inv' = [inv EXCEPT ![i] = w]
      BY <1>3
    <2>6. step[i] = "apply" /\ Store(k, o)
      BY <2>2 DEF Update
    <2> HIDE DEF o, w
    <2>7. Others(i) /\ Wrote(i, k, o) /\ inv'[i] = w /\ Shapes'
      BY <1>3, <2>1, <2>3, <2>4, <2>5, <2>6, StoreStep
    <2> QED BY <1>3, <2>3, <2>7 DEF w, Updated
  <1> QED BY <1>1, <1>2, <1>3

LEMMA DeleteStep ==
    ASSUME ResourceInv, NEW i \in Instances, Delete(i), Rest(i)
    PROVE  /\ Others(i) /\ Shapes'
           /\ \/ Ended(i) /\ applied' = applied
              \/ Deleted(i)
  <1>1. PICK k \in inv[i].Delete :
        \/ /\ NoFault
           /\ Store(k, Absent)
           /\ inv' = [inv EXCEPT ![i].Delete = @ \ {k}]
           /\ UNCHANGED <<step, queued, applied>>
        \/ /\ Fault \/ NoFault
           /\ Fail(i)
           /\ UNCHANGED <<objs, current>>
    BY DEF Delete
  <1>2. CASE Fail(i) /\ (Fault \/ NoFault) /\ UNCHANGED <<objs, current>>
    BY <1>2, FailStep DEF Create, Update, Delete
  <1>3. CASE /\ NoFault
             /\ Store(k, Absent)
             /\ inv' = [inv EXCEPT ![i].Delete = @ \ {k}]
             /\ UNCHANGED <<step, queued, applied>>
    <2>1. k \in Keys /\ step[i] = "apply"
      BY Parts DEF Delete
    <2> DEFINE w == [inv[i] EXCEPT !.Delete = inv[i].Delete \ {k}]
    <2>2. w \in Inventories
      BY Parts, PartsLeft
    <2>3. inv' = [inv EXCEPT ![i] = w]
      BY <1>3
    <2> HIDE DEF w
    <2>4. Others(i) /\ Wrote(i, k, Absent) /\ inv'[i] = w /\ Shapes'
      BY <1>3, <2>1, <2>2, <2>3, StoreStep
    <2> QED BY <2>4 DEF w, Deleted
  <1> QED BY <1>1, <1>2, <1>3

LEMMA FinishStep ==
    ASSUME ResourceInv, NEW i \in Instances, Finish(i), Rest(i)
    PROVE  Others(i) /\ Shapes' /\ Ended(i) /\ Finished(i)
  <1>1. Shapes /\ target[i].gen \in 0..MaxEdits
    BY ShapesHold DEF Shapes, Wants
  <1>2. target[i].gen \in -1..MaxEdits
    BY <1>1, ResourcesAssumption
  <1>3. faults' \in 0..MaxFaults
    BY DEF Finish, ResourceInv, TypeOK
  <1> QED BY <1>1, <1>2, <1>3 DEF Shapes, Others, Ended, Finished, Finish, Rest

(* The list failed: the request is back in the queue, or gone.             *)
Stayed(i) ==
    /\ UNCHANGED <<objs, step, inv, current, target, applied>>
    /\ queued[i] /\ step[i] = "idle"

LEMMA ListStep ==
    ASSUME ResourceInv, NEW i \in Instances, wide, List(i, ForKind(i)),
           UNCHANGED <<kind, live, wide, want, edits, meddles>>
    PROVE  /\ Others(i) /\ Shapes'
           /\ Stayed(i) \/ Listed(i)
  <1>1. Shapes /\ want \in [Instances -> Wants]
    BY ShapesHold DEF ResourceInv, TypeOK
  <1> DEFINE v == ForKind(i)
  <1>2. v \in Inventories /\ DOMAIN v.Update \cup v.Delete \subseteq Keys
    BY ForKindFacts DEF ResourceInv, InventoryOK
  <1>3. faults' \in 0..MaxFaults
    BY FaultCount DEF List
  <1>4. /\ List(i, v)
        /\ queued[i] /\ applied[i] # want[i].gen
    BY DEF List, ResourceInv, GenOK
  <1>5. /\ queued' \in [Instances -> BOOLEAN]
        /\ \A j \in Instances \ {i} : queued'[j] = queued[j]
    BY <1>1 DEF Shapes, List
  <1>6. CASE UNCHANGED <<objs, step, inv, current, target, applied>>
    BY <1>1, <1>3, <1>4, <1>5, <1>6 DEF Shapes, Others, Stayed, List
  <1>7. CASE /\ UNCHANGED <<objs, applied>>
             /\ queued' = [queued EXCEPT ![i] = FALSE]
             /\ step' = [step EXCEPT ![i] = "apply"]
             /\ inv' = [inv EXCEPT ![i] = v]
             /\ current' = [current EXCEPT ![i] = DOMAIN v.Update \cup v.Delete]
             /\ target' = [target EXCEPT ![i] = want[i]]
    <2> HIDE DEF v
    <2> QED BY <1>1, <1>2, <1>3, <1>4, <1>5, <1>7 DEF Shapes, Others, Listed, v
  <1> QED BY <1>4, <1>6, <1>7 DEF List

(* Every call of a stage is one of these.                                  *)
LEMMA ApplyStep ==
    ASSUME ResourceInv, NEW i \in Instances, Apply(i)
    PROVE  \/ Skip(i)
           \/ /\ Others(i) /\ Shapes'
              /\ \/ Stayed(i) \/ Listed(i) \/ Created(i) \/ Updated(i) \/ Deleted(i)
                 \/ Ended(i) /\ (applied' = applied \/ Finished(i))
  <1>1. CASE Skip(i)
    BY <1>1
  <1>2. CASE (wide \/ kind \notin ClusterKinds) /\ Stage(i, kind, ForKind(i))
    <2>1. wide
      BY <1>2 DEF ResourceInv, StoredInv
    <2>2. UNCHANGED <<kind, live, wide, want, edits, meddles>>
      BY <1>2 DEF Stage
    <2>3. CASE List(i, ForKind(i))
      BY <2>1, <2>2, <2>3, ListStep DEF Stayed
    <2>4. CASE Create(i) /\ UNCHANGED target
      BY <2>2, <2>4, CreateStep DEF Rest
    <2>5. CASE Update(i) /\ UNCHANGED target
      BY <2>2, <2>5, UpdateStep DEF Rest
    <2>6. CASE Delete(i) /\ UNCHANGED target
      BY <2>2, <2>6, DeleteStep DEF Rest
    <2>7. CASE Finish(i) /\ UNCHANGED target
      BY <2>2, <2>7, FinishStep DEF Rest
    <2> QED BY <1>2, <2>3, <2>4, <2>5, <2>6, <2>7 DEF Stage
  <1> QED BY <1>1, <1>2, OneStage

-----------------------------------------------------------------------------
(* The invariant of a stage holds whatever others do.                      *)
LEMMA OthersKept ==
    ASSUME ResourceInv, NEW i \in Instances, Others(i), NEW j \in Instances \ {i}
    PROVE  GenOK(j)' /\ PlanOK(j)' /\ InventoryOK(inv[j])'
  <1>1. /\ GenOK(j) /\ PlanOK(j) /\ InventoryOK(inv[j])
        /\ current[j] \subseteq Keys
    BY DEF ResourceInv, TypeOK
  <1>2. /\ kind' = kind /\ wide' = wide /\ want' = want /\ edits' = edits
        /\ step'[j] = step[j] /\ inv'[j] = inv[j] /\ target'[j] = target[j]
        /\ applied'[j] = applied[j] /\ current'[j] \subseteq current[j]
        /\ queued'[j] = queued[j]
        /\ \A k \in current'[j] : objs'[k] = objs[k]
    BY DEF Others
  <1>3. GenOK(j)'
    BY <1>1, <1>2 DEF GenOK
  <1>4. InventoryOK(inv[j])'
    BY <1>1, <1>2 DEF InventoryOK
  <1>5. PlanOK(j)'
    BY <1>1, <1>2 DEF PlanOK
  <1> QED BY <1>3, <1>4, <1>5

(* What has to be shown of a step of one instance.                         *)
LEMMA OneKept ==
    ASSUME ResourceInv, NEW i \in Instances, Others(i), Shapes',
           GenOK(i)', PlanOK(i)', InventoryOK(inv[i])',
           \A k \in Keys : objs'[k] # Absent => objs'[k].assigned \in Values
    PROVE  ResourceInv'
  <1>1. \A j \in Instances : GenOK(j)' /\ PlanOK(j)' /\ InventoryOK(inv[j])'
    BY OthersKept
  <1>2. TypeOK'
    BY <1>1 DEF TypeOK, ResourceInv, Shapes, Others
  <1>3. StoredInv'
    BY DEF StoredInv, ResourceInv, Shapes, Others
  <1> QED BY <1>1, <1>2, <1>3 DEF ResourceInv

(* An idle instance has no plan.                                           *)
LEMMA EndedKept ==
    ASSUME ResourceInv, NEW i \in Instances, Others(i), Shapes', Ended(i),
           applied' = applied \/ Finished(i)
    PROVE  ResourceInv'
  <1>1. InventoryOK(inv[i])'
    BY EmptyInventory DEF Ended, InventoryOK
  <1>2. PlanOK(i)'
    BY DEF Ended, PlanOK
  <1>3. GenOK(i)'
    BY DEF Ended, GenOK, Others, Finished, ResourceInv, Shapes
  <1>4. \A k \in Keys : objs'[k] # Absent => objs'[k].assigned \in Values
    BY DEF Ended, ResourceInv, StoredInv
  <1> QED BY <1>1, <1>2, <1>3, <1>4, OneKept

LEMMA StayedKept ==
    ASSUME ResourceInv, NEW i \in Instances, Others(i), Shapes', Stayed(i)
    PROVE  ResourceInv'
  <1>1. GenOK(i) /\ PlanOK(i) /\ InventoryOK(inv[i])
    BY DEF ResourceInv, TypeOK
  <1>2. InventoryOK(inv[i])'
    BY <1>1 DEF Stayed, InventoryOK
  <1>3. PlanOK(i)'
    BY <1>1 DEF Stayed, Others, PlanOK
  <1>4. GenOK(i)'
    BY <1>1 DEF Stayed, Others, GenOK
  <1>5. \A k \in Keys : objs'[k] # Absent => objs'[k].assigned \in Values
    BY DEF Stayed, ResourceInv, StoredInv
  <1> QED BY <1>2, <1>3, <1>4, <1>5, OneKept

LEMMA ListedKept ==
    ASSUME ResourceInv, NEW i \in Instances, Others(i), Shapes', Listed(i)
    PROVE  ResourceInv'
  <1> DEFINE d == Desired(i)
             e == Existing(i)
             v == ForKind(i)
  <1>1. /\ inv'[i] = v /\ target'[i] = want[i] /\ step'[i] = "apply"
        /\ objs' = objs /\ kind' = kind /\ wide' = wide /\ want' = want
        /\ edits' = edits /\ applied' = applied
        /\ wide /\ applied[i] # want[i].gen /\ queued'[i] = FALSE
    BY DEF Listed, Others
  <1>2. InventoryOK(inv[i])'
    BY <1>1, ForKindFacts DEF ResourceInv, InventoryOK
  <1>3. GenOK(i)'
    <2>1. GenOK(i) /\ want[i].gen \in 0..MaxEdits
      BY DEF ResourceInv, TypeOK, Wants
    <2> QED BY <1>1, <2>1 DEF GenOK
  <1>4. PlanOK(i)'
    <2>1. /\ DOMAIN v.Create = DOMAIN d \ DOMAIN e
          /\ DOMAIN v.Update = DOMAIN d \cap DOMAIN e
          /\ \A k \in DOMAIN v.Create : v.Create[k] = d[k]
          /\ \A k \in DOMAIN v.Update : v.Update[k] = Merge(e[k], d[k])
      BY ForKindFacts DEF ResourceInv
    <2>2. /\ DOMAIN d = {i} \X want[i].comps
          /\ DOMAIN d \subseteq Keys
          /\ \A k \in DOMAIN d :
                /\ d[k] \in Objects
                /\ kind # "Accounts" => d[k].spec = want[i].gen
                /\ d[k].assigned = want[i].assigned
      BY DesiredFacts DEF ResourceInv
    <2>3. \A k \in DOMAIN e : /\ objs[k] # Absent /\ e[k] = objs[k]
                              /\ e[k] \in Objects /\ e[k].assigned \in Values
      BY ExistingFacts DEF ResourceInv, StoredInv
    <2> HIDE DEF d, e, v
    <2>4. \A k \in DOMAIN v.Update :
            /\ objs[k] # Absent
            /\ kind # "Accounts" => v.Update[k].spec = want[i].gen
            /\ v.Update[k].notes = objs[k].notes
            /\ kind \in {"Deployments", "Services"} =>
                 /\ v.Update[k].assigned # None
                 /\ v.Update[k].assigned \in {objs[k].assigned, want[i].assigned}
      <3> TAKE k \in DOMAIN v.Update
      <3>1. /\ v.Update[k] = Merge(e[k], d[k]) /\ k \in DOMAIN d /\ k \in DOMAIN e
        BY <2>1
      <3>2. /\ e[k] \in Objects /\ d[k] \in Objects /\ e[k].assigned \in Values
            /\ e[k] = objs[k] /\ objs[k] # Absent
            /\ kind # "Accounts" => d[k].spec = want[i].gen
            /\ d[k].assigned = want[i].assigned
        BY <2>2, <2>3, <3>1
      <3>3. /\ kind # "Accounts" => Merge(e[k], d[k]).spec = d[k].spec
            /\ Merge(e[k], d[k]).notes = e[k].notes
            /\ kind \in {"Deployments", "Services"} =>
                 /\ Merge(e[k], d[k]).assigned # None
                 /\ Merge(e[k], d[k]).assigned \in {e[k].assigned, d[k].assigned}
        BY <3>2, MergeFacts
      <3> QED BY <3>1, <3>2, <3>3
    <2>5. \A k \in DOMAIN v.Create : kind # "Accounts" => v.Create[k].spec = want[i].gen
      BY <2>1, <2>2
    <2> QED BY <1>1, <2>1, <2>2, <2>4, <2>5 DEF PlanOK
  <1>5. \A k \in Keys : objs'[k] # Absent => objs'[k].assigned \in Values
    BY <1>1 DEF ResourceInv, StoredInv
  <1> QED BY <1>2, <1>3, <1>4, <1>5, OneKept

(* A written object leaves its part of the inventory, and what remains to  *)
(* be written is as current as it was.                                     *)
LEMMA WroteKept ==
    ASSUME ResourceInv, NEW i \in Instances, Others(i), Shapes',
           NEW k \in Keys, NEW o \in Objects \cup {Absent}, Wrote(i, k, o),
           o # Absent => o.assigned \in Values,
           DOMAIN inv'[i].Create \subseteq DOMAIN inv[i].Create,
           DOMAIN inv'[i].Update \subseteq DOMAIN inv[i].Update,
           inv'[i].Delete \subseteq inv[i].Delete,
           \A n \in DOMAIN inv'[i].Create : inv'[i].Create[n] = inv[i].Create[n],
           \A n \in DOMAIN inv'[i].Update : inv'[i].Update[n] = inv[i].Update[n]
    PROVE  ResourceInv'
  <1>1. GenOK(i) /\ PlanOK(i) /\ InventoryOK(inv[i]) /\ Shapes
    BY ShapesHold DEF ResourceInv, TypeOK
  <1>2. /\ kind' = kind /\ wide' = wide /\ want' = want /\ edits' = edits
        /\ target'[i] = target[i] /\ applied'[i] = applied[i]
        /\ queued'[i] = queued[i]
        /\ step[i] = "apply" /\ step'[i] = "apply"
        /\ current'[i] = current[i] \ {k}
    BY DEF Others, Wrote
  <1>3. objs'[k] = o /\ \A n \in Keys \ {k} : objs'[n] = objs[n]
    BY <1>1 DEF Wrote, Shapes
  <1>4. InventoryOK(inv[i])'
    BY <1>1 DEF InventoryOK
  <1>5. GenOK(i)'
    BY <1>1, <1>2 DEF GenOK
  <1>6. \A n \in current'[i] : n \in current[i] /\ objs'[n] = objs[n]
    <2>1. current[i] \subseteq Keys
      BY <1>1 DEF Shapes
    <2> QED BY <1>2, <1>3, <2>1
  <1>7. PlanOK(i)'
    BY <1>1, <1>2, <1>6 DEF PlanOK
  <1>8. \A n \in Keys : objs'[n] # Absent => objs'[n].assigned \in Values
    BY <1>3 DEF ResourceInv, StoredInv
  <1> QED BY <1>4, <1>5, <1>7, <1>8, OneKept

(* The parts of an inventory that one object was taken out of.             *)
LEMMA TakenOut ==
    ASSUME NEW v \in Inventories, NEW k
    PROVE  LET c == [v EXCEPT !.Create = Drop(v.Create, k)]
               u == [v EXCEPT !.Update = Drop(v.Update, k)]
               d == [v EXCEPT !.Delete = v.Delete \ {k}]
           IN  /\ DOMAIN c.Create = DOMAIN v.Create \ {k}
               /\ \A n \in DOMAIN c.Create : c.Create[n] = v.Create[n]
               /\ c.Update = v.Update /\ c.Delete = v.Delete
               /\ DOMAIN u.Update = DOMAIN v.Update \ {k}
               /\ \A n \in DOMAIN u.Update : u.Update[n] = v.Update[n]
               /\ u.Create = v.Create /\ u.Delete = v.Delete
               /\ d.Create = v.Create /\ d.Update = v.Update
               /\ d.Delete = v.Delete \ {k}
  <1>1. v.Create \in Renderings /\ v.Update \in Renderings
    BY DEF Inventories
  <1>2. /\ DOMAIN Drop(v.Create, k) = DOMAIN v.Create \ {k}
        /\ \A n \in DOMAIN v.Create \ {k} : Drop(v.Create, k)[n] = v.Create[n]
        /\ DOMAIN Drop(v.Update, k) = DOMAIN v.Update \ {k}
        /\ \A n \in DOMAIN v.Update \ {k} : Drop(v.Update, k)[n] = v.Update[n]
    BY <1>1, Dropped
  <1>3. /\ [v EXCEPT !.Create = Drop(v.Create, k)].Create = Drop(v.Create, k)
        /\ [v EXCEPT !.Create = Drop(v.Create, k)].Update = v.Update
        /\ [v EXCEPT !.Create = Drop(v.Create, k)].Delete = v.Delete
        /\ [v EXCEPT !.Update = Drop(v.Update, k)].Update = Drop(v.Update, k)
        /\ [v EXCEPT !.Update = Drop(v.Update, k)].Create = v.Create
        /\ [v EXCEPT !.Update = Drop(v.Update, k)].Delete = v.Delete
        /\ [v EXCEPT !.Delete = v.Delete \ {k}].Create = v.Create
        /\ [v EXCEPT !.Delete = v.Delete \ {k}].Update = v.Update
        /\ [v EXCEPT !.Delete = v.Delete \ {k}].Delete = v.Delete \ {k}
    BY DEF Inventories
  <1> QED BY <1>2, <1>3

LEMMA CreatedKept ==
    ASSUME ResourceInv, NEW i \in Instances, Others(i), Shapes', Created(i)
    PROVE  ResourceInv'
  <1>1. PICK k \in DOMAIN inv[i].Create, o \in Objects :
          /\ Wrote(i, k, o) /\ o.assigned \in Values
          /\ inv'[i] = [inv[i] EXCEPT !.Create = Drop(inv[i].Create, k)]
    BY DEF Created
  <1>2. k \in Keys /\ inv[i] \in Inventories
    BY Parts
  <1> DEFINE w == [inv[i] EXCEPT !.Create = Drop(inv[i].Create, k)]
  <1>3. /\ DOMAIN w.Create = DOMAIN inv[i].Create \ {k}
        /\ \A n \in DOMAIN w.Create : w.Create[n] = inv[i].Create[n]
        /\ w.Update = inv[i].Update /\ w.Delete = inv[i].Delete
    BY <1>2, TakenOut
  <1>4. inv'[i] = w
    BY <1>1
  <1> HIDE DEF w
  <1> QED BY <1>1, <1>2, <1>3, <1>4, WroteKept

LEMMA UpdatedKept ==
    ASSUME ResourceInv, NEW i \in Instances, Others(i), Shapes', Updated(i)
    PROVE  ResourceInv'
  <1>1. PICK k \in DOMAIN inv[i].Update, o \in Objects :
          /\ Wrote(i, k, o) /\ o.assigned \in Values
          /\ inv'[i] = [inv[i] EXCEPT !.Update = Drop(inv[i].Update, k)]
    BY DEF Updated
  <1>2. k \in Keys /\ inv[i] \in Inventories
    BY Parts
  <1> DEFINE w == [inv[i] EXCEPT !.Update = Drop(inv[i].Update, k)]
  <1>3. /\ DOMAIN w.Update = DOMAIN inv[i].Update \ {k}
        /\ \A n \in DOMAIN w.Update : w.Update[n] = inv[i].Update[n]
        /\ w.Create = inv[i].Create /\ w.Delete = inv[i].Delete
    BY <1>2, TakenOut
  <1>4. inv'[i] = w
    BY <1>1
  <1> HIDE DEF w
  <1> QED BY <1>1, <1>2, <1>3, <1>4, WroteKept

LEMMA DeletedKept ==
    ASSUME ResourceInv, NEW i \in Instances, Others(i), Shapes', Deleted(i)
    PROVE  ResourceInv'
  <1>1. PICK k \in inv[i].Delete :
          /\ Wrote(i, k, Absent)
          /\ inv'[i] = [inv[i] EXCEPT !.Delete = inv[i].Delete \ {k}]
    BY DEF Deleted
  <1>2. k \in Keys /\ inv[i] \in Inventories
    BY Parts
  <1>3. /\ inv'[i].Delete = inv[i].Delete \ {k}
        /\ inv'[i].Create = inv[i].Create /\ inv'[i].Update = inv[i].Update
    BY <1>1, <1>2, TakenOut
  <1> QED BY <1>1, <1>2, <1>3, WroteKept

LEMMA SkipKept ==
    ASSUME ResourceInv, NEW i \in Instances, Skip(i)
    PROVE  ResourceInv'
  <1>1. want[i].gen \in -1..MaxEdits /\ want[i].gen \in 0..MaxEdits
    <2>1. want[i].gen \in 0..MaxEdits
      BY DEF ResourceInv, TypeOK, Wants
    <2> QED BY <2>1, ResourcesAssumption
  <1>2. /\ applied' \in [Instances -> -1..MaxEdits]
        /\ applied'[i] = want[i].gen
        /\ \A j \in Instances \ {i} : applied'[j] = applied[j]
        /\ queued' \in [Instances -> BOOLEAN] /\ ~queued'[i]
        /\ \A j \in Instances \ {i} : queued'[j] = queued[j]
    BY <1>1 DEF Skip, ResourceInv, TypeOK
  <1>3. TypeOK'
    BY <1>2 DEF Skip, ResourceInv, TypeOK, InventoryOK
  <1>4. StoredInv'
    BY DEF Skip, ResourceInv, StoredInv
  <1>5. ASSUME NEW j \in Instances
        PROVE  GenOK(j)' /\ PlanOK(j)'
    <2>1. GenOK(j) /\ PlanOK(j) /\ step[j] # "apply"
      BY DEF ResourceInv, GenOK, Skip
    <2>2. GenOK(j)'
      BY <1>1, <1>2, <2>1 DEF GenOK, Skip
    <2>3. PlanOK(j)'
      BY <2>1 DEF PlanOK, Skip
    <2> QED BY <2>2, <2>3
  <1> QED BY <1>3, <1>4, <1>5 DEF ResourceInv

LEMMA ApplyKept ==
    ASSUME ResourceInv, NEW i \in Instances, Apply(i)
    PROVE  ResourceInv'
  BY ApplyStep, SkipKept, StayedKept, ListedKept, CreatedKept, UpdatedKept,
     DeletedKept, EndedKept

LEMMA UserEditKept ==
    ASSUME ResourceInv, NEW i \in Instances, UserEdit(i)
    PROVE  ResourceInv'
  <1>1. PICK cs \in SUBSET Components, a \in {None} \cup Values, ls \in SUBSET Labels :
          want' = [want EXCEPT ![i] = [gen |-> edits + 1, comps |-> cs,
                                       assigned |-> a, labels |-> ls]]
    BY DEF UserEdit
  <1>2. /\ edits \in 0..MaxEdits /\ edits < MaxEdits /\ edits' = edits + 1
        /\ edits' \in 0..MaxEdits
    BY ResourcesAssumption DEF UserEdit, ResourceInv, TypeOK
  <1>3. /\ want \in [Instances -> Wants] /\ want' \in [Instances -> Wants]
        /\ want'[i].gen = edits + 1
        /\ \A j \in Instances \ {i} : want'[j] = want[j]
    BY <1>1, <1>2 DEF ResourceInv, TypeOK, Wants
  <1>4. TypeOK'
    BY <1>2, <1>3 DEF UserEdit, ResourceInv, TypeOK, InventoryOK
  <1>5. StoredInv'
    BY DEF UserEdit, ResourceInv, StoredInv
  <1>6. ASSUME NEW j \in Instances
        PROVE  GenOK(j)' /\ PlanOK(j)'
    <2>1. GenOK(j) /\ PlanOK(j)
      BY DEF ResourceInv
    <2>2. PlanOK(j)'
      BY <2>1 DEF PlanOK, UserEdit
    <2>3. /\ want[j].gen \in 0..MaxEdits /\ target[j].gen \in 0..MaxEdits
          /\ applied[j] \in -1..MaxEdits
      BY <1>3 DEF ResourceInv, TypeOK, Wants
    <2>4. GenOK(j)'
      <3>1. CASE j = i
        BY <1>2, <1>3, <2>1, <2>3, <3>1 DEF GenOK, UserEdit
      <3>2. CASE j # i
        BY <1>2, <1>3, <2>1, <2>3, <3>2 DEF GenOK, UserEdit
      <3> QED BY <3>1, <3>2
    <2> QED BY <2>2, <2>4
  <1> QED BY <1>4, <1>5, <1>6 DEF ResourceInv

LEMMA MeddleStep ==
    ASSUME ResourceInv, NEW k \in Keys, Meddle(k)
    PROVE  /\ objs[k] # Absent /\ meddles' \in 0..MaxMeddles /\ meddles' # meddles
           /\ \E o \in Objects :
                Store(k, o) /\ o.spec = objs[k].spec /\ o.assigned \in Values
  <1>1. /\ objs[k] \in Objects /\ objs[k].assigned \in Values /\ objs[k] # Absent
    BY DEF Meddle, ResourceInv, TypeOK, StoredInv
  <1>2. meddles' \in 0..MaxMeddles /\ meddles' = meddles + 1 /\ meddles' # meddles
    BY ResourcesAssumption DEF Meddle, ResourceInv, TypeOK
  <1>3. CASE \E v \in Values : Store(k, [objs[k] EXCEPT !.assigned = v])
    BY <1>1, <1>2, <1>3 DEF Objects
  <1>4. CASE Store(k, [objs[k] EXCEPT !.notes = meddles + 1])
    BY <1>1, <1>2, <1>4 DEF Objects
  <1> QED BY <1>1, <1>2, <1>3, <1>4 DEF Meddle

LEMMA MeddleKept ==
    ASSUME ResourceInv, NEW k \in Keys, Meddle(k)
    PROVE  ResourceInv'
  <1>1. PICK o \in Objects : Store(k, o) /\ o.assigned \in Values
    BY MeddleStep
  <1>2. Shapes
    BY ShapesHold
  <1>3. /\ objs'[k] = o /\ \A n \in Keys \ {k} : objs'[n] = objs[n]
        /\ objs' \in [Keys -> Objects \cup {Absent}]
    BY <1>1, <1>2 DEF Store, Shapes
  <1>4. /\ current' \in [Instances -> SUBSET Keys]
        /\ \A j \in Instances : current'[j] = current[j] \ {k}
    BY <1>1, <1>2 DEF Store, Shapes
  <1>5. TypeOK'
    BY <1>3, <1>4, MeddleStep DEF Meddle, ResourceInv, TypeOK, InventoryOK
  <1>6. StoredInv'
    BY <1>1, <1>3 DEF Meddle, ResourceInv, StoredInv
  <1>7. ASSUME NEW j \in Instances
        PROVE  GenOK(j)' /\ PlanOK(j)'
    <2>1. GenOK(j) /\ PlanOK(j)
      BY DEF ResourceInv
    <2>2. GenOK(j)'
      BY <2>1 DEF GenOK, Meddle
    <2>3. current[j] \subseteq Keys
      BY <1>2 DEF Shapes
    <2>4. \A n \in current'[j] : n \in current[j] /\ objs'[n] = objs[n]
      BY <1>3, <1>4, <2>3
    <2>5. PlanOK(j)'
      BY <2>1, <2>4 DEF PlanOK, Meddle
    <2> QED BY <2>2, <2>5
  <1> QED BY <1>5, <1>6, <1>7 DEF ResourceInv

LEMMA StutterKept ==
    ASSUME ResourceInv, UNCHANGED vars
    PROVE  ResourceInv'
  BY DEF ResourceInv, TypeOK, StoredInv, GenOK, PlanOK, InventoryOK, vars

LEMMA ResourceInit ==
    Init => ResourceInv
  <1> SUFFICES ASSUME Init PROVE ResourceInv
    OBVIOUS
  <1>1. PICK c \in Cases : kind = c.kind /\ live = c.instances
                           /\ edits = MaxEdits - c.edits
    BY DEF Init
  <1>2. edits \in 0..MaxEdits /\ 0 \in 0..MaxEdits /\ 0 \in -1..MaxEdits
        /\ -1 \in -1..MaxEdits /\ 0 \in 0..MaxMeddles /\ 0 \in 0..MaxFaults
    BY <1>1, ResourcesAssumption
  <1>3. \A i \in Instances : want[i].gen = 0
    BY DEF Init
  <1>4. want \in [Instances -> Wants] /\ target = want
    BY <1>2 DEF Init, Wants
  <1>5. applied \in [Instances -> -1..MaxEdits] /\ \A i \in Instances : applied[i] <= 0
    BY <1>2 DEF Init
  <1>5a. /\ queued \in [Instances -> BOOLEAN]
         /\ \A i \in Instances : queued[i] => applied[i] # 0
    <2>1. queued = [i \in Instances |-> i \in live]
          /\ \A i \in Instances : i \in live => applied[i] # 0
      BY DEF Init
    <2>2. \A i \in Instances : (i \in live) \in BOOLEAN
      OBVIOUS
    <2>3. queued \in [Instances -> BOOLEAN]
      BY <2>1, <2>2, Zenon
    <2>4. \A i \in Instances : queued[i] => i \in live
      BY <2>1, Zenon
    <2> QED BY <2>1, <2>3, <2>4
  <1>6. inv \in [Instances -> Inventories] /\ \A i \in Instances : InventoryOK(inv[i])
    BY EmptyInventory DEF Init, InventoryOK
  <1>7. TypeOK
    BY <1>1, <1>2, <1>4, <1>5, <1>5a, <1>6 DEF Init, TypeOK
  <1>8. StoredInv
    BY <1>6 DEF Init, StoredInv
  <1>9. \A i \in Instances : step[i] = "idle"
    BY DEF Init
  <1>10. \A i \in Instances : GenOK(i)
    BY <1>2, <1>3, <1>4, <1>5, <1>5a, <1>9 DEF GenOK
  <1>11. \A i \in Instances : PlanOK(i)
    BY <1>9 DEF PlanOK
  <1> QED BY <1>7, <1>8, <1>10, <1>11 DEF ResourceInv

LEMMA ResourceStep ==
    ResourceInv /\ [Next]_vars => ResourceInv'
  BY ApplyKept, UserEditKept, MeddleKept, StutterKept DEF Next

(* Every variable keeps its type; no object is in two parts of an          *)
(* inventory; copies that are still current carry what others wrote.       *)
LEMMA ResourceInvHolds ==
    Spec => []ResourceInv
  BY ResourceInit, ResourceStep, PTL DEF Spec

(* The types of the state of the stages, for any number of instances and   *)
(* whatever they have in common.                                           *)
THEOREM ResourcesTypeCorrect ==
    Spec => []TypeOK
  <1>1. ResourceInv => TypeOK
    BY DEF ResourceInv
  <1> QED BY <1>1, ResourceInvHolds, PTL

-----------------------------------------------------------------------------
(* What others wrote.                                                      *)
LEMMA KeyOf ==
    ASSUME NEW k \in Keys
    PROVE  /\ k[1] \in Instances /\ k[2] \in Components /\ k = <<k[1], k[2]>>
  BY DEF Keys

LEMMA UpdateKeeps ==
    ASSUME ResourceInv, NEW i \in Instances, Others(i), Updated(i), NEW k \in Keys
    PROVE  \/ objs'[k] = objs[k]
           \/ /\ k[1] = i /\ objs[k] # Absent
              /\ objs'[k].notes = objs[k].notes
              /\ kind \in {"Deployments", "Services"} =>
                    objs'[k].assigned \in {objs[k].assigned, target[i].assigned}
  <1>1. PICK n \in DOMAIN inv[i].Update, o \in Objects :
          /\ Wrote(i, n, o) /\ n \in current[i]
          /\ inv[i].Update[n].assigned \in {o.assigned, None}
          /\ o.notes = inv[i].Update[n].notes
    BY DEF Updated
  <1>2. n \in Keys /\ Shapes
    BY Parts, ShapesHold
  <1>3. objs'[n] = o /\ (k # n => objs'[k] = objs[k])
    BY <1>1, <1>2 DEF Wrote, Shapes
  <1>4. /\ n \in {i} \X target[i].comps /\ objs[n] # Absent
        /\ inv[i].Update[n].notes = objs[n].notes
        /\ kind \in {"Deployments", "Services"} =>
              /\ inv[i].Update[n].assigned # None
              /\ inv[i].Update[n].assigned \in {objs[n].assigned, target[i].assigned}
    BY <1>1 DEF ResourceInv, PlanOK, Wrote
  <1>5. n[1] = i
    BY <1>4
  <1> QED BY <1>1, <1>3, <1>4, <1>5

LEMMA ApplyKeeps ==
    ASSUME ResourceInv, NEW i \in Instances, Apply(i), NEW k \in Keys
    PROVE  \/ objs'[k] = objs[k] \/ objs[k] = Absent \/ objs'[k] = Absent
           \/ /\ k[1] = i
              /\ objs'[k].notes = objs[k].notes
              /\ kind \in {"Deployments", "Services"} =>
                    objs'[k].assigned \in {objs[k].assigned, target[i].assigned}
  <1>1. CASE objs' = objs
    BY <1>1
  <1>2. CASE Others(i) /\ Updated(i)
    BY <1>2, UpdateKeeps
  <1>3. CASE Created(i)
    <2>1. PICK n \in DOMAIN inv[i].Create, o \in Objects :
            Wrote(i, n, o) /\ objs[n] = Absent
      BY <1>3 DEF Created
    <2> QED BY <2>1, ShapesHold DEF Wrote, Shapes
  <1>4. CASE Deleted(i)
    <2>1. PICK n \in inv[i].Delete : Wrote(i, n, Absent)
      BY <1>4 DEF Deleted
    <2> QED BY <2>1, ShapesHold DEF Wrote, Shapes
  <1> QED BY <1>1, <1>2, <1>3, <1>4, ApplyStep DEF Skip, Stayed, Listed, Ended

(* An update of the operator keeps what others wrote into the object       *)
(* since it was created: the copy that is merged is several calls old, and *)
(* the resource version it is written with is what makes it safe.          *)
THEOREM AssignedKeptHolds ==
    Spec => AssignedKept
  <1> DEFINE Kept(k) == /\ objs'[k].notes = objs[k].notes
                        /\ \/ objs'[k].assigned = objs[k].assigned
                           \/ kind # "Deployments" /\ kind # "Services"
                           \/ objs'[k].assigned = target[k[1]].assigned
  <1>1. ASSUME ResourceInv, [Next]_vars, NEW k \in Keys, objs[k] # Absent,
               objs'[k] # Absent, meddles' = meddles
        PROVE  Kept(k)
    <2>1. CASE objs' = objs
      BY <2>1
    <2>2. CASE \E i \in Instances : Apply(i)
      BY <1>1, <2>2, ApplyKeeps
    <2>3. ~ \E n \in Keys : Meddle(n)
      BY <1>1, MeddleStep
    <2> HIDE DEF Kept
    <2> QED BY <1>1, <2>1, <2>2, <2>3 DEF Next, UserEdit, vars
  <1>2. ResourceInv /\ [Next]_vars =>
          [\A k \in Keys :
              objs[k] # Absent /\ objs'[k] # Absent /\ meddles' = meddles =>
                  /\ objs'[k].notes = objs[k].notes
                  /\ \/ objs'[k].assigned = objs[k].assigned
                     \/ kind # "Deployments" /\ kind # "Services"
                     \/ objs'[k].assigned = target[k[1]].assigned]_vars
    BY <1>1
  <1> QED BY <1>2, ResourceInvHolds, PTL DEF Spec, AssignedKept

-----------------------------------------------------------------------------
(* A stage that ended without an error did all there was to do.            *)
LEMMA AtWorkIsLive ==
    ASSUME ResourceInv, CompleteInv, NEW i \in Instances, Apply(i)
    PROVE  i \in live
  <1>1. CompleteOK(i)
    BY DEF CompleteInv
  <1>2. step[i] = "apply" \/ queued[i]
    BY OneStage DEF Skip, Stage, List, Create, Update, Delete, Finish
  <1> QED BY <1>1, <1>2 DEF CompleteOK, ResourceInv, GenOK

LEMMA OwnOnly ==
    ASSUME Separate, ResourceInv, CompleteInv, NEW i \in live, i \in Instances,
           NEW k \in DOMAIN Existing(i)
    PROVE  k \in Keys /\ k[1] = i
  <1>1. /\ k \in Keys /\ objs[k] # Absent /\ NameOf[k[1]] = NameOf[i]
        /\ kind # "ClusterRoleBindings" => k[1] = i
    BY ExistingFacts DEF ResourceInv
  <1>2. CASE kind = "ClusterRoleBindings"
    <2>1. k[1] \in Instances /\ k[2] \in Components /\ k = <<k[1], k[2]>>
      BY <1>1, KeyOf
    <2>2. objs[<<k[1], k[2]>>] # Absent
      BY <1>1, <2>1
    <2>3. k[1] \in live
      BY <2>1, <2>2 DEF CompleteInv, CompleteOK
    <2>4. PICK c \in Cases : kind = c.kind /\ live = c.instances
      BY DEF ResourceInv, TypeOK
    <2> QED BY <1>1, <1>2, <2>3, <2>4 DEF Separate
  <1> QED BY <1>1, <1>2

(* Only the objects of the instance are written.                           *)
LEMMA OwnWritten ==
    ASSUME ResourceInv, CompleteInv, NEW i \in Instances, Apply(i),
           NEW k \in Keys, k[1] # i
    PROVE  objs'[k] = objs[k]
  <1>1. CASE objs' = objs
    BY <1>1
  <1>2. Shapes /\ PlanOK(i) /\ CompleteOK(i)
    BY ShapesHold DEF ResourceInv, CompleteInv
  <1>3. CASE Created(i)
    <2>1. PICK n \in DOMAIN inv[i].Create, o \in Objects : Wrote(i, n, o)
      BY <1>3 DEF Created
    <2>2. n[1] = i
      BY <1>2, <2>1 DEF PlanOK, Wrote
    <2> QED BY <1>2, <2>1, <2>2 DEF Wrote, Shapes
  <1>4. CASE Updated(i)
    <2>1. PICK n \in DOMAIN inv[i].Update, o \in Objects : Wrote(i, n, o)
      BY <1>4 DEF Updated
    <2>2. n[1] = i
      BY <1>2, <2>1 DEF PlanOK, Wrote
    <2> QED BY <1>2, <2>1, <2>2 DEF Wrote, Shapes
  <1>5. CASE Deleted(i)
    <2>1. PICK n \in inv[i].Delete : Wrote(i, n, Absent)
      BY <1>5 DEF Deleted
    <2>2. n[1] = i
      BY <1>2, <2>1 DEF CompleteOK, Wrote
    <2> QED BY <1>2, <2>1, <2>2 DEF Wrote, Shapes
  <1> QED BY <1>1, <1>3, <1>4, <1>5, ApplyStep DEF Skip, Stayed, Listed, Ended

LEMMA OthersComplete ==
    ASSUME ResourceInv, CompleteInv, NEW i \in Instances, Apply(i), Others(i),
           NEW j \in Instances \ {i}
    PROVE  CompleteOK(j)' /\ AppliedOK(j)'
  <1>1. \A c \in Components : objs'[<<j, c>>] = objs[<<j, c>>]
    <2> TAKE c \in Components
    <2>1. <<j, c>> \in Keys /\ <<j, c>>[1] # i
      BY DEF Keys
    <2> QED BY <2>1, OwnWritten
  <1>2. CompleteOK(j) /\ AppliedOK(j)
    BY DEF CompleteInv
  <1>3. /\ kind' = kind /\ live' = live /\ wide' = wide /\ want' = want
        /\ step'[j] = step[j] /\ inv'[j] = inv[j] /\ target'[j] = target[j]
        /\ applied'[j] = applied[j]
    BY DEF Others
  <1>4. \A c \in Components :
          (Good(j, c, target[j])' <=> Good(j, c, target[j]))
          /\ (Good(j, c, want[j])' <=> Good(j, c, want[j]))
    BY <1>1, <1>3 DEF Good
  <1> QED BY <1>1, <1>2, <1>3, <1>4 DEF CompleteOK, AppliedOK

LEMMA ListedComplete ==
    ASSUME Separate, ResourceInv, CompleteInv, NEW i \in live, i \in Instances,
           Others(i), Listed(i)
    PROVE  CompleteOK(i)' /\ AppliedOK(i)'
  <1> DEFINE d == Desired(i)
             e == Existing(i)
             v == ForKind(i)
  <1>1. /\ inv'[i] = v /\ target'[i] = want[i] /\ step'[i] = "apply"
        /\ objs' = objs /\ kind' = kind /\ live' = live /\ wide' = wide /\ want' = want
        /\ applied' = applied /\ applied[i] # want[i].gen
    BY DEF Listed, Others
  <1>2. /\ DOMAIN v.Create = DOMAIN d \ DOMAIN e
        /\ DOMAIN v.Update = DOMAIN d \cap DOMAIN e
        /\ v.Delete = DOMAIN e \ DOMAIN d
    BY ForKindFacts DEF ResourceInv
  <1>3. DOMAIN d = {i} \X want[i].comps
    BY DesiredFacts DEF ResourceInv
  <1>4. \A k \in DOMAIN e : k \in Keys /\ k[1] = i
    BY OwnOnly
  <1>5. \A c \in Components : <<i, c>> \notin DOMAIN e => objs[<<i, c>>] = Absent
    BY ExistingFacts DEF ResourceInv
  <1> HIDE DEF d, e, v
  <1>6. v.Delete \subseteq {i} \X (Components \ want[i].comps)
    BY <1>2, <1>3, <1>4, KeyOf
  <1>7. \A c \in Components :
          <<i, c>> \notin DOMAIN v.Create \cup DOMAIN v.Update \cup v.Delete
             => Good(i, c, want[i])
    BY <1>2, <1>3, <1>5 DEF Good
  <1>8. \A c \in Components : objs[<<i, c>>] # Absent => i \in live
    OBVIOUS
  <1>9. \A c \in Components : Good(i, c, target[i])' <=> Good(i, c, want[i])
    BY <1>1 DEF Good
  <1>10. CompleteOK(i)'
    BY <1>1, <1>6, <1>7, <1>8, <1>9 DEF CompleteOK
  <1>11. AppliedOK(i)'
    BY <1>1 DEF AppliedOK
  <1> QED BY <1>10, <1>11

(* An object was written as the target asks, and is out of the inventory.  *)
LEMMA WroteComplete ==
    ASSUME ResourceInv, CompleteInv, NEW i \in live, i \in Instances, Others(i),
           NEW b \in Components, NEW o, Wrote(i, <<i, b>>, o),
           Good(i, b, target[i])',
           inv'[i].Delete \subseteq inv[i].Delete,
           LET v == inv[i]
               w == inv'[i]
           IN  DOMAIN v.Create \cup DOMAIN v.Update \cup v.Delete
                 \subseteq {<<i, b>>} \cup DOMAIN w.Create \cup DOMAIN w.Update \cup w.Delete
    PROVE  CompleteOK(i)' /\ AppliedOK(i)'
  <1>1. CompleteOK(i) /\ GenOK(i) /\ Shapes
    BY ShapesHold DEF CompleteInv, ResourceInv
  <1>2. /\ kind' = kind /\ live' = live /\ wide' = wide /\ want' = want
        /\ target'[i] = target[i] /\ applied'[i] = applied[i]
        /\ step[i] = "apply" /\ step'[i] = "apply"
    BY DEF Others, Wrote
  <1>3. \A c \in Components \ {b} : objs'[<<i, c>>] = objs[<<i, c>>]
    <2> TAKE c \in Components \ {b}
    <2>1. <<i, c>> \in Keys /\ <<i, c>> # <<i, b>>
      BY DEF Keys
    <2> QED BY <1>1, <2>1 DEF Wrote, Shapes
  <1>4. \A c \in Components \ {b} : Good(i, c, target[i])' <=> Good(i, c, target[i])
    BY <1>2, <1>3 DEF Good
  <1>5. \A c \in Components :
          <<i, c>> \notin DOMAIN inv'[i].Create \cup DOMAIN inv'[i].Update \cup inv'[i].Delete
             => Good(i, c, target[i])'
    BY <1>1, <1>2, <1>4 DEF CompleteOK
  <1>6. inv'[i].Delete \subseteq {i} \X (Components \ target'[i].comps)
    BY <1>1, <1>2 DEF CompleteOK
  <1>7. CompleteOK(i)'
    BY <1>2, <1>5, <1>6 DEF CompleteOK
  <1>8. AppliedOK(i)'
    BY <1>1, <1>2 DEF AppliedOK, GenOK
  <1> QED BY <1>7, <1>8

LEMMA CreatedComplete ==
    ASSUME ResourceInv, CompleteInv, NEW i \in live, i \in Instances, Others(i),
           Created(i)
    PROVE  CompleteOK(i)' /\ AppliedOK(i)'
  <1>1. PICK k \in DOMAIN inv[i].Create, o \in Objects :
          /\ Wrote(i, k, o) /\ o.spec = inv[i].Create[k].spec
          /\ inv'[i] = [inv[i] EXCEPT !.Create = Drop(inv[i].Create, k)]
    BY DEF Created
  <1>2. k \in Keys /\ inv[i] \in Inventories /\ Shapes
    BY Parts, ShapesHold
  <1> DEFINE w == [inv[i] EXCEPT !.Create = Drop(inv[i].Create, k)]
  <1>3. /\ DOMAIN w.Create = DOMAIN inv[i].Create \ {k}
        /\ w.Update = inv[i].Update /\ w.Delete = inv[i].Delete
    BY <1>2, TakenOut
  <1>4. inv'[i] = w
    BY <1>1
  <1> HIDE DEF w
  <1>5. PICK b \in Components : k = <<i, b>> /\ b \in target[i].comps
    <2>1. k \in {i} \X target[i].comps
      BY <1>1 DEF ResourceInv, PlanOK, Wrote
    <2>2. target[i].comps \subseteq Components
      BY <1>2 DEF Shapes, Wants
    <2> QED BY <2>1, <2>2
  <1>6. kind # "Accounts" => o.spec = target[i].gen
    BY <1>1 DEF ResourceInv, PlanOK, Wrote
  <1>7. objs'[k] = o /\ o # Absent /\ kind' = kind /\ target'[i] = target[i]
    BY <1>1, <1>2, ObjectsAssumption DEF Wrote, Shapes, Others
  <1>8. Good(i, b, target[i])'
    BY <1>5, <1>6, <1>7 DEF Good
  <1> QED BY <1>1, <1>3, <1>4, <1>5, <1>8, WroteComplete

LEMMA UpdatedComplete ==
    ASSUME ResourceInv, CompleteInv, NEW i \in live, i \in Instances, Others(i),
           Updated(i)
    PROVE  CompleteOK(i)' /\ AppliedOK(i)'
  <1>1. PICK k \in DOMAIN inv[i].Update, o \in Objects :
          /\ Wrote(i, k, o) /\ o.spec = inv[i].Update[k].spec
          /\ inv'[i] = [inv[i] EXCEPT !.Update = Drop(inv[i].Update, k)]
    BY DEF Updated
  <1>2. k \in Keys /\ inv[i] \in Inventories /\ Shapes
    BY Parts, ShapesHold
  <1> DEFINE w == [inv[i] EXCEPT !.Update = Drop(inv[i].Update, k)]
  <1>3. /\ DOMAIN w.Update = DOMAIN inv[i].Update \ {k}
        /\ w.Create = inv[i].Create /\ w.Delete = inv[i].Delete
    BY <1>2, TakenOut
  <1>4. inv'[i] = w
    BY <1>1
  <1> HIDE DEF w
  <1>5. PICK b \in Components : k = <<i, b>> /\ b \in target[i].comps
    <2>1. k \in {i} \X target[i].comps
      BY <1>1 DEF ResourceInv, PlanOK, Wrote
    <2>2. target[i].comps \subseteq Components
      BY <1>2 DEF Shapes, Wants
    <2> QED BY <2>1, <2>2
  <1>6. kind # "Accounts" => o.spec = target[i].gen
    BY <1>1 DEF ResourceInv, PlanOK, Wrote
  <1>7. objs'[k] = o /\ o # Absent /\ kind' = kind /\ target'[i] = target[i]
    BY <1>1, <1>2, ObjectsAssumption DEF Wrote, Shapes, Others
  <1>8. Good(i, b, target[i])'
    BY <1>5, <1>6, <1>7 DEF Good
  <1> QED BY <1>1, <1>3, <1>4, <1>5, <1>8, WroteComplete

LEMMA DeletedComplete ==
    ASSUME ResourceInv, CompleteInv, NEW i \in live, i \in Instances, Others(i),
           Deleted(i)
    PROVE  CompleteOK(i)' /\ AppliedOK(i)'
  <1>1. PICK k \in inv[i].Delete :
          /\ Wrote(i, k, Absent)
          /\ inv'[i] = [inv[i] EXCEPT !.Delete = inv[i].Delete \ {k}]
    BY DEF Deleted
  <1>2. k \in Keys /\ inv[i] \in Inventories /\ Shapes
    BY Parts, ShapesHold
  <1> DEFINE w == [inv[i] EXCEPT !.Delete = inv[i].Delete \ {k}]
  <1>3. /\ w.Delete = inv[i].Delete \ {k}
        /\ w.Create = inv[i].Create /\ w.Update = inv[i].Update
    BY <1>2, TakenOut
  <1>4. inv'[i] = w
    BY <1>1
  <1> HIDE DEF w
  <1>5. PICK b \in Components : k = <<i, b>> /\ b \notin target[i].comps
    BY <1>1 DEF CompleteInv, CompleteOK, Wrote
  <1>6. objs'[k] = Absent /\ target'[i] = target[i]
    BY <1>1, <1>2 DEF Wrote, Shapes
  <1>7. Good(i, b, target[i])'
    BY <1>5, <1>6 DEF Good
  <1> QED BY <1>1, <1>3, <1>4, <1>5, <1>7, WroteComplete

LEMMA EndedComplete ==
    ASSUME ResourceInv, CompleteInv, NEW i \in live, i \in Instances, Others(i),
           Ended(i), applied' = applied \/ Finished(i)
    PROVE  CompleteOK(i)' /\ AppliedOK(i)'
  <1>1. CompleteOK(i) /\ AppliedOK(i) /\ GenOK(i)
    BY DEF CompleteInv, ResourceInv
  <1>2. /\ kind' = kind /\ live' = live /\ wide' = wide /\ want' = want
        /\ objs' = objs /\ step'[i] = "idle"
    BY DEF Others, Ended
  <1>3. CompleteOK(i)'
    BY <1>1, <1>2 DEF CompleteOK
  <1>4. \A c \in Components : Good(i, c, want[i])' <=> Good(i, c, want[i])
    BY <1>2 DEF Good
  <1>5. CASE applied' = applied
    BY <1>1, <1>2, <1>3, <1>4, <1>5 DEF AppliedOK
  <1>6. CASE Finished(i)
    <2>1. \A c \in Components : Good(i, c, target[i])
      BY <1>1, <1>6, EmptyInventory DEF CompleteOK, Finished
    <2>2. applied'[i] = want'[i].gen => target[i] = want[i]
      BY <1>1, <1>2, <1>6 DEF GenOK, Finished
    <2> QED BY <1>2, <1>3, <1>4, <2>1, <2>2 DEF AppliedOK
  <1> QED BY <1>5, <1>6

LEMMA StayedComplete ==
    ASSUME ResourceInv, CompleteInv, NEW i \in Instances, Others(i), Stayed(i)
    PROVE  CompleteOK(i)' /\ AppliedOK(i)'
  <1>1. CompleteOK(i) /\ AppliedOK(i)
    BY DEF CompleteInv
  <1>2. /\ kind' = kind /\ live' = live /\ wide' = wide /\ want' = want
        /\ objs' = objs /\ step' = step /\ inv' = inv /\ target' = target
        /\ applied' = applied
    BY DEF Others, Stayed
  <1>3. \A c \in Components :
          /\ Good(i, c, want[i])' <=> Good(i, c, want[i])
          /\ Good(i, c, target[i])' <=> Good(i, c, target[i])
    BY <1>2 DEF Good
  <1> QED BY <1>1, <1>2, <1>3 DEF CompleteOK, AppliedOK

LEMMA SkipComplete ==
    ASSUME ResourceInv, CompleteInv, NEW i \in Instances, Skip(i)
    PROVE  CompleteInv'
  <1> SUFFICES ASSUME NEW j \in Instances
               PROVE  CompleteOK(j)' /\ AppliedOK(j)'
    BY DEF CompleteInv
  <1>1. CompleteOK(j) /\ step[j] # "apply"
    BY DEF CompleteInv, ResourceInv, GenOK, Skip
  <1>2. applied'[j] = applied[j] \/ applied'[j] = want[j].gen
    BY DEF Skip, ResourceInv, TypeOK
  <1>3. CompleteOK(j)'
    BY <1>1, <1>2 DEF CompleteOK, Skip
  <1>4. AppliedOK(j)'
    BY DEF AppliedOK, Skip
  <1> QED BY <1>3, <1>4

LEMMA ApplyComplete ==
    ASSUME Separate, ResourceInv, CompleteInv, NEW i \in Instances, Apply(i)
    PROVE  CompleteInv'
  <1>1. i \in live
    BY AtWorkIsLive
  <1>2. CASE Skip(i)
    BY <1>2, SkipComplete
  <1>3. CASE Others(i) /\ ~Skip(i)
    <2>1. CompleteOK(i)' /\ AppliedOK(i)'
      BY <1>1, <1>3, ApplyStep, StayedComplete, ListedComplete, CreatedComplete,
         UpdatedComplete, DeletedComplete, EndedComplete
    <2> QED BY <1>3, <2>1, OthersComplete DEF CompleteInv
  <1> QED BY <1>2, <1>3, ApplyStep

LEMMA UserEditComplete ==
    ASSUME ResourceInv, CompleteInv, NEW i \in Instances, UserEdit(i)
    PROVE  CompleteInv'
  <1>1. PICK cs \in SUBSET Components, a \in {None} \cup Values, ls \in SUBSET Labels :
          want' = [want EXCEPT ![i] = [gen |-> edits + 1, comps |-> cs,
                                       assigned |-> a, labels |-> ls]]
    BY DEF UserEdit
  <1>2. /\ want'[i].gen = edits + 1
        /\ \A j \in Instances \ {i} : want'[j] = want[j]
    BY <1>1 DEF ResourceInv, TypeOK
  <1>3. applied[i] \in -1..MaxEdits /\ want[i].gen \in 0..MaxEdits /\ edits \in 0..MaxEdits
        /\ applied[i] <= want[i].gen /\ want[i].gen <= edits
    BY DEF ResourceInv, TypeOK, GenOK, Wants
  <1>4. applied[i] # edits + 1
    BY <1>3
  <1> SUFFICES ASSUME NEW j \in Instances
               PROVE  CompleteOK(j)' /\ AppliedOK(j)'
    BY DEF CompleteInv
  <1>5. CompleteOK(j) /\ AppliedOK(j)
    BY DEF CompleteInv
  <1>6. /\ kind' = kind /\ live' = live /\ wide' = wide /\ objs' = objs
        /\ step' = step /\ inv' = inv /\ target' = target /\ applied' = applied
        /\ i \in live
    BY DEF UserEdit
  <1>7. \A c \in Components : Good(j, c, target[j])' <=> Good(j, c, target[j])
    BY <1>6 DEF Good
  <1>8. CASE j = i
    BY <1>2, <1>4, <1>5, <1>6, <1>7, <1>8 DEF CompleteOK, AppliedOK
  <1>9. CASE j # i
    <2>1. want'[j] = want[j]
      BY <1>2, <1>9
    <2>2. \A c \in Components : Good(j, c, want[j])' <=> Good(j, c, want[j])
      BY <1>6, <2>1 DEF Good
    <2> QED BY <1>5, <1>6, <1>7, <2>1, <2>2 DEF CompleteOK, AppliedOK
  <1> QED BY <1>8, <1>9

LEMMA MeddleComplete ==
    ASSUME ResourceInv, CompleteInv, NEW k \in Keys, Meddle(k)
    PROVE  CompleteInv'
  <1>1. PICK o \in Objects : Store(k, o) /\ o.spec = objs[k].spec
    BY MeddleStep
  <1>2. objs[k] # Absent /\ Shapes /\ o # Absent
    BY MeddleStep, ShapesHold, ObjectsAssumption
  <1>3. \A n \in Keys : /\ objs'[n] # Absent <=> objs[n] # Absent
                        /\ objs[n] # Absent => objs'[n].spec = objs[n].spec
    BY <1>1, <1>2 DEF Store, Shapes
  <1> SUFFICES ASSUME NEW j \in Instances
               PROVE  CompleteOK(j)' /\ AppliedOK(j)'
    BY DEF CompleteInv
  <1>4. CompleteOK(j) /\ AppliedOK(j)
    BY DEF CompleteInv
  <1>5. /\ kind' = kind /\ live' = live /\ wide' = wide /\ want' = want
        /\ step' = step /\ inv' = inv /\ target' = target /\ applied' = applied
    BY DEF Meddle
  <1>6. \A c \in Components : <<j, c>> \in Keys
    BY DEF Keys
  <1>7. \A c \in Components :
          /\ Good(j, c, target[j])' <=> Good(j, c, target[j])
          /\ Good(j, c, want[j])' <=> Good(j, c, want[j])
    BY <1>3, <1>5, <1>6 DEF Good
  <1> QED BY <1>3, <1>4, <1>5, <1>6, <1>7 DEF CompleteOK, AppliedOK

LEMMA StutterComplete ==
    ASSUME CompleteInv, UNCHANGED vars
    PROVE  CompleteInv'
  BY DEF CompleteInv, CompleteOK, AppliedOK, Good, vars

LEMMA CompleteInit ==
    Init => CompleteInv
  <1> SUFFICES ASSUME Init, NEW i \in Instances
               PROVE  CompleteOK(i) /\ AppliedOK(i)
    BY DEF CompleteInv
  <1>1. /\ step[i] = "idle" /\ want[i].gen = 0
        /\ i \notin live => want[i].comps = {}
        /\ applied[i] = IF i \in live THEN -1 ELSE 0
    BY DEF Init
  <1>2. \A c \in Components : objs[<<i, c>>] = Absent
    BY DEF Init, Keys
  <1>3. i \notin live => \A c \in Components : Good(i, c, want[i])
    BY <1>1, <1>2 DEF Good
  <1> QED BY <1>1, <1>2, <1>3 DEF CompleteOK, AppliedOK

LEMMA CompleteStep ==
    ASSUME Separate
    PROVE  ResourceInv /\ CompleteInv /\ [Next]_vars => CompleteInv'
  BY ApplyComplete, UserEditComplete, MeddleComplete, StutterComplete DEF Next

LEMMA CompleteInvHolds ==
    ASSUME Separate
    PROVE  Spec => []CompleteInv
  BY CompleteInit, CompleteStep, ResourceInvHolds, PTL DEF Spec

(* When the generation of a CR is the one last applied, exactly the        *)
(* objects it asks for exist, rendered from it, whatever failed, was       *)
(* edited or raced on the way.                                             *)
THEOREM AppliedMeansDesiredHolds ==
    ASSUME Separate
    PROVE  Spec => []AppliedMeansDesired
  <1>1. CompleteInv => AppliedMeansDesired
    BY DEF CompleteInv, AppliedOK, Good, AppliedMeansDesired
  <1> QED BY <1>1, CompleteInvHolds, PTL

(* Applying one instance never touches an object of another one.           *)
THEOREM ForeignUntouchedHolds ==
    ASSUME Separate
    PROVE  Spec => ForeignUntouched
  <1>1. ResourceInv /\ CompleteInv /\ [Next]_vars =>
          [\A i \in Instances, k \in Keys :
              Apply(i) /\ k[1] # i => objs'[k] = objs[k]]_vars
    BY OwnWritten
  <1> QED BY <1>1, ResourceInvHolds, CompleteInvHolds, PTL DEF Spec, ForeignUntouched
=============================================================================
