----------------------------- MODULE Inventory -----------------------------
(***************************************************************************)
(* The inventories of pkg/inventory: what has to be created, updated and   *)
(* deleted to get from the existing objects of a kind to the desired ones. *)
(*                                                                         *)
(* Both are functions from names to objects (the code's maps).  An object  *)
(* is a record: spec is everything the strategy renders, assigned a value  *)
(* the cluster may have chosen (the replicas written by an autoscaler, the *)
(* ClusterIP of a service), labels the labels of the pod template, selector*)
(* the selector of a workload, notes the annotations somebody else has put *)
(* there.                                                                  *)
(***************************************************************************)
EXTENDS Integers

CONSTANT None   \* a value left empty: nil replicas, an empty ClusterIP

(* Names on both sides are merged, the others are created or deleted.      *)
Both(existing, desired) == DOMAIN existing \cap DOMAIN desired

(* Mutant: an updated name is not taken out of the names to create.        *)
InventoryCreatesAll(existing, desired, merged) ==
    [Create |-> desired,
     Update |-> merged,
     Delete |-> DOMAIN existing \ DOMAIN desired]

(* The three parts; merged are the updates.                                *)
Inventory(existing, desired, merged) ==
    [Create |-> [n \in DOMAIN desired \ DOMAIN existing |-> desired[n]],
     Update |-> merged,
     Delete |-> DOMAIN existing \ DOMAIN desired]

(* Most kinds: the spec (or the data, the subjects) is replaced as a whole;*)
(* annotations of others stay, for the desired ones are merged into them.  *)
MergeSpec(t, v) == [v EXCEPT !.notes = t.notes]

(* A service keeps the ClusterIP the cluster gave it.                      *)
MergeService(t, v) ==
    [v EXCEPT !.notes = t.notes,
              !.assigned = IF v.assigned = None THEN t.assigned ELSE v.assigned]

(* Mutant: the selector of the new rendering reaches the update.           *)
MergeDeploymentNewSelector(t, v) == MergeService(t, v)

(* A deployment keeps the replicas an autoscaler may have written, unless  *)
(* the instance asks for a number, and its selector.                       *)
MergeDeployment(t, v) ==
    [v EXCEPT !.notes = t.notes,
              !.assigned = IF t.assigned # None /\ v.assigned = None
                           THEN t.assigned ELSE v.assigned,
              !.selector = t.selector]

(* A service account has no spec the operator owns.                        *)
MergeAccount(t, v) == t

ForDeployments(existing, desired) ==
    Inventory(existing, desired,
              [n \in Both(existing, desired) |->
                 MergeDeployment(existing[n], desired[n])])
ForServices(existing, desired) ==
    Inventory(existing, desired,
              [n \in Both(existing, desired) |->
                 MergeService(existing[n], desired[n])])
ForAccounts(existing, desired) ==
    Inventory(existing, desired,
              [n \in Both(existing, desired) |->
                 MergeAccount(existing[n], desired[n])])

(* The kinds whose spec is replaced.                                       *)
ForSpecs(existing, desired) ==
    Inventory(existing, desired,
              [n \in Both(existing, desired) |->
                 MergeSpec(existing[n], desired[n])])
ForClusterRoleBindings(existing, desired) == ForSpecs(existing, desired)
ForConfigMaps(existing, desired) == ForSpecs(existing, desired)
ForConsoleLinks(existing, desired) == ForSpecs(existing, desired)
ForCronJobs(existing, desired) == ForSpecs(existing, desired)
ForDaemonSets(existing, desired) == ForSpecs(existing, desired)
ForElasticsearches(existing, desired) == ForSpecs(existing, desired)
ForHorizontalPodAutoscalers(existing, desired) == ForSpecs(existing, desired)
ForIngresses(existing, desired) == ForSpecs(existing, desired)
ForKafkas(existing, desired) == ForSpecs(existing, desired)
ForKafkaUsers(existing, desired) == ForSpecs(existing, desired)
ForRoutes(existing, desired) == ForSpecs(existing, desired)
ForSecrets(existing, desired) == ForSpecs(existing, desired)
=============================================================================
