------------------------------ MODULE Rollout ------------------------------
(***************************************************************************)
(* The stages of apply that wait (pkg/controller/jaeger): Elasticsearch,   *)
(* Kafka and its user, the jobs the storage depends on, and the deployments*)
(* of an instance whose strategy has changed (one deployment replaces      *)
(* another).  The objects become ready by the work of other controllers;   *)
(* a wait polls until they are, gives up after a time, or finds the object *)
(* gone.  Every error ends apply, and the instance is reconciled again.    *)
(***************************************************************************)
EXTENDS Integers

CONSTANTS MaxFaults, MaxRemovals, MaxPasses   \* bounds of the model

ASSUME RolloutAssumption ==
    MaxFaults \in Nat /\ MaxRemovals \in Nat /\ MaxPasses \in Nat \ {0}

VARIABLES
    pc,        \* the step of apply
    seen,      \* the poll has found the object before
    es,        \* the Elasticsearch object exists
    work,      \* the workloads: the node of Elasticsearch, the old
               \* deployment of the instance and the new one
    strimzi,   \* the Kafka and the KafkaUser object
    job,       \* the job the storage depends on
    faults, removals, passes

vars == <<pc, seen, es, work, strimzi, job, faults, removals, passes>>
cluster == <<es, work, strimzi, job>>

Names == {"node", "old", "new"}
Workloads == [there : BOOLEAN, replicas : 0..1, ready : 0..1]
NoWorkload == [there |-> FALSE, replicas |-> 0, ready |-> 0]
JustCreated == [there |-> TRUE, replicas |-> 0, ready |-> 0]
Running == [there |-> TRUE, replicas |-> 1, ready |-> 1]

Waits == {"esWait", "kafkaWait", "userWait", "jobWait", "deployWait"}
Steps == {"es", "kafka", "user", "jobs", "deploy", "remove"}

Init ==
    /\ pc = "idle"
    /\ seen = FALSE
    /\ es = FALSE
    /\ work = [w \in Names |-> IF w = "old" THEN Running ELSE NoWorkload]
    /\ strimzi = [s \in {"kafka", "user"} |-> "absent"]
    /\ job = "absent"
    /\ faults = 0
    /\ removals = 0
    /\ passes = 0

-----------------------------------------------------------------------------
(* The other controllers and the user.                                     *)

(* The operator of Elasticsearch creates the deployment of the node.       *)
ElasticsearchOperator ==
    /\ es # work["node"].there
    /\ work' = [work EXCEPT !["node"] = IF es THEN JustCreated ELSE NoWorkload]
    /\ UNCHANGED <<pc, seen, es, strimzi, job, faults, removals, passes>>

(* The deployment controller: the status of a new deployment counts no     *)
(* replica until the controller has seen it.                               *)
DeploymentController(w) ==
    /\ work[w].there
    /\ \/ /\ work[w].replicas = 0
          /\ work' = [work EXCEPT ![w].replicas = 1]
       \/ /\ work[w].replicas = 1 /\ work[w].ready = 0
          /\ work' = [work EXCEPT ![w].ready = 1]
    /\ UNCHANGED <<pc, seen, es, strimzi, job, faults, removals, passes>>

Strimzi(s) ==
    /\ strimzi[s] = "starting"
    /\ strimzi' = [strimzi EXCEPT ![s] = "ready"]
    /\ UNCHANGED <<pc, seen, es, work, job, faults, removals, passes>>

JobController ==
    /\ job = "running"
    /\ job' \in {"succeeded", "failed"}
    /\ UNCHANGED <<pc, seen, es, work, strimzi, faults, removals, passes>>

(* Somebody deletes an object.                                             *)
Remove ==
    /\ removals < MaxRemovals
    /\ removals' = removals + 1
    /\ \/ /\ es
          /\ es' = FALSE
          /\ UNCHANGED <<work, strimzi, job>>
       \/ /\ work["new"].there
          /\ work' = [work EXCEPT !["new"] = NoWorkload]
          /\ UNCHANGED <<es, strimzi, job>>
       \/ /\ \E s \in {"kafka", "user"} :
               /\ strimzi[s] # "absent"
               /\ strimzi' = [strimzi EXCEPT ![s] = "absent"]
          /\ UNCHANGED <<es, work, job>>
       \/ /\ job # "absent"
          /\ job' = "absent"
          /\ UNCHANGED <<es, work, strimzi>>
    /\ UNCHANGED <<pc, seen, faults, passes>>

-----------------------------------------------------------------------------
(* Reconcile and the steps of apply.                                       *)

Fault == faults < MaxFaults /\ faults' = faults + 1
NoFault == UNCHANGED faults

(* Mutant: the flag of a poll outlives it.                                 *)
GotoKeepsSeen(step) == pc' = step /\ UNCHANGED seen

Goto(step) == pc' = step /\ seen' = FALSE
Failed == Goto("idle") /\ UNCHANGED cluster

(* A request for the instance is taken from the queue: the first, one that *)
(* follows an error, or one after an edit.                                 *)
Start ==
    /\ pc = "idle" \/ (pc = "done" /\ passes < MaxPasses)
    /\ passes' = IF pc = "done" THEN passes + 1 ELSE passes
    /\ Goto("es")
    /\ UNCHANGED <<cluster, faults, removals>>

(* applyElasticsearches: only a cluster that has just been created is      *)
(* waited for.                                                             *)
ApplyElasticsearches ==
    /\ pc = "es"
    /\ \/ /\ NoFault
          /\ es' = TRUE
          /\ Goto(IF es THEN "kafka" ELSE "esWait")
          /\ UNCHANGED <<work, strimzi, job>>
       \/ Fault /\ Failed
    /\ UNCHANGED <<removals, passes>>

(* Mutant: like Elasticsearch, only a new Kafka is waited for.             *)
ApplyKafkasWaitsOnce ==
    /\ pc = "kafka"
    /\ \/ /\ NoFault
          /\ strimzi' = [strimzi EXCEPT !["kafka"] = IF @ = "absent"
                                                     THEN "starting" ELSE @]
          /\ Goto(IF strimzi["kafka"] = "absent" THEN "kafkaWait" ELSE "user")
          /\ UNCHANGED <<es, work, job>>
       \/ Fault /\ Failed
    /\ UNCHANGED <<removals, passes>>

(* applyKafkas, applyKafkaUsers: created or updated, and waited for.       *)
ApplyKafkas ==
    /\ pc = "kafka"
    /\ \/ /\ NoFault
          /\ strimzi' = [strimzi EXCEPT !["kafka"] = IF @ = "absent"
                                                     THEN "starting" ELSE @]
          /\ Goto("kafkaWait")
          /\ UNCHANGED <<es, work, job>>
       \/ Fault /\ Failed
    /\ UNCHANGED <<removals, passes>>

ApplyKafkaUsers ==
    /\ pc = "user"
    /\ \/ /\ NoFault
          /\ strimzi' = [strimzi EXCEPT !["user"] = IF @ = "absent"
                                                    THEN "starting" ELSE @]
          /\ Goto("userWait")
          /\ UNCHANGED <<es, work, job>>
       \/ Fault /\ Failed
    /\ UNCHANGED <<removals, passes>>

(* Mutant: a job left by an earlier reconciliation is an error.            *)
HandleDependencyAlreadyExists ==
    /\ pc = "jobs" /\ NoFault
    /\ IF job = "absent"
       THEN job' = "running" /\ Goto("jobWait") /\ UNCHANGED <<es, work, strimzi>>
       ELSE Failed
    /\ UNCHANGED <<removals, passes>>

(* handleDependency: the job is created unless it exists already.          *)
HandleDependency ==
    /\ pc = "jobs"
    /\ \/ /\ NoFault
          /\ job' = IF job = "absent" THEN "running" ELSE job
          /\ Goto("jobWait")
          /\ UNCHANGED <<es, work, strimzi>>
       \/ Fault /\ Failed
    /\ UNCHANGED <<removals, passes>>

(* Mutant: what is no longer wanted is removed first.                      *)
ApplyDeploymentsRemovesFirst ==
    /\ pc = "deploy" /\ NoFault
    /\ IF work["old"].there
       THEN /\ work' = [work EXCEPT !["old"] = NoWorkload]
            /\ UNCHANGED <<pc, seen>>
       ELSE /\ work' = [work EXCEPT !["new"] = JustCreated]
            /\ Goto("deployWait")
    /\ UNCHANGED <<es, strimzi, job, removals, passes>>

(* applyDeployments: create or update, wait for stability, then remove the *)
(* deployments that are no longer wanted.                                  *)
ApplyDeployments ==
    /\ pc = "deploy"
    /\ \/ /\ NoFault
          /\ work' = [work EXCEPT !["new"] = IF @.there THEN @ ELSE JustCreated]
          /\ Goto("deployWait")
          /\ UNCHANGED <<es, strimzi, job>>
       \/ Fault /\ Failed
    /\ UNCHANGED <<removals, passes>>

RemoveOldDeployments ==
    /\ pc = "remove"
    /\ \/ /\ NoFault
          /\ work' = [work EXCEPT !["old"] = NoWorkload]
          /\ Goto("done")
          /\ UNCHANGED <<es, strimzi, job>>
       \/ Fault /\ Failed
    /\ UNCHANGED <<removals, passes>>

-----------------------------------------------------------------------------
(* The waits.  What a poll looks for, and the step that follows it.        *)

(* As many replicas are ready as the status of a workload counts.          *)
Stable(w) == w.replicas = w.ready

(* What is waited for.  waitForAvailableElastic counts the deployments of  *)
(* nodes whose replicas are all available; waitForKafkaStability and       *)
(* waitForKafkaUserStability look at the condition Ready, handleDependency *)
(* at the one pod of the job, waitForStability at the ready replicas.      *)
ElasticAvailable == work["node"].there /\ Stable(work["node"])
KafkaReady == strimzi["kafka"] = "ready"
KafkaUserReady == strimzi["user"] = "ready"
DependencySucceeded == job = "succeeded"
DeploymentStable == Stable(work["new"])

(* The Get of a poll finds the object; for Elasticsearch it is a List,     *)
(* which is never NotFound.                                                *)
Found(wait) ==
    CASE wait = "esWait"     -> TRUE
      [] wait = "kafkaWait"  -> strimzi["kafka"] # "absent"
      [] wait = "userWait"   -> strimzi["user"] # "absent"
      [] wait = "jobWait"    -> job # "absent"
      [] wait = "deployWait" -> work["new"].there

Ready(wait) ==
    CASE wait = "esWait"     -> ElasticAvailable
      [] wait = "kafkaWait"  -> KafkaReady
      [] wait = "userWait"   -> KafkaUserReady
      [] wait = "jobWait"    -> DependencySucceeded
      [] wait = "deployWait" -> DeploymentStable

After(wait) ==
    CASE wait = "esWait"     -> "kafka"
      [] wait = "kafkaWait"  -> "user"
      [] wait = "userWait"   -> "jobs"
      [] wait = "jobWait"    -> "deploy"
      [] wait = "deployWait" -> "remove"

(* One poll: an object that was seen and is gone is an error, one that was *)
(* not seen yet may still appear in the cache of the client.               *)
Poll ==
    /\ pc \in Waits
    /\ \/ /\ NoFault
          /\ Found(pc) /\ Ready(pc)
          /\ Goto(After(pc))
       \/ /\ NoFault
          /\ Found(pc) /\ ~Ready(pc)
          /\ seen' = TRUE
          /\ UNCHANGED pc
       \/ /\ NoFault
          /\ ~Found(pc) /\ seen
          /\ Goto("idle")
       \/ Fault /\ Goto("idle")
    /\ UNCHANGED <<cluster, removals, passes>>

(* The time is up; the condition did not hold at the last poll.            *)
Timeout ==
    /\ pc \in Waits
    /\ ~(Found(pc) /\ Ready(pc))
    /\ Goto("idle")
    /\ UNCHANGED <<cluster, faults, removals, passes>>

Reconcile ==
    \/ Start \/ ApplyElasticsearches \/ ApplyKafkas \/ ApplyKafkaUsers
    \/ HandleDependency \/ ApplyDeployments \/ RemoveOldDeployments
    \/ Poll \/ Timeout

Next ==
    \/ Reconcile
    \/ ElasticsearchOperator \/ JobController \/ Remove
    \/ \E w \in Names : DeploymentController(w)
    \/ \E s \in {"kafka", "user"} : Strimzi(s)

Spec == Init /\ [][Next]_vars

(* The operator goes on, and so do the controllers it waits for.           *)
FairSpec ==
    /\ Spec
    /\ WF_vars(Reconcile)
    /\ WF_vars(ElasticsearchOperator)
    /\ WF_vars(JobController)
    /\ \A w \in Names : WF_vars(DeploymentController(w))
    /\ \A s \in {"kafka", "user"} : WF_vars(Strimzi(s))

-----------------------------------------------------------------------------
TypeOK ==
    /\ pc \in {"idle", "done"} \cup Steps \cup Waits
    /\ seen \in BOOLEAN
    /\ seen => pc \in Waits
    /\ es \in BOOLEAN
    /\ work \in [Names -> Workloads]
    /\ \A w \in Names : work[w].ready <= work[w].replicas
    /\ strimzi \in [{"kafka", "user"} -> {"absent", "starting", "ready"}]
    /\ job \in {"absent", "running", "succeeded", "failed"}
    /\ faults \in 0..MaxFaults
    /\ removals \in 0..MaxRemovals
    /\ passes \in 0..MaxPasses

(* The collectors are not rolled out before Kafka, its user and the schema *)
(* they need are there: unless somebody removed something, a deployment of *)
(* the new strategy exists only after Kafka was ready and the job had      *)
(* succeeded, also when a reconciliation failed in between and was retried.*)
DeployedAfterDependencies ==
    work["new"].there /\ removals = 0 =>
        /\ strimzi["kafka"] = "ready"
        /\ strimzi["user"] = "ready"
        /\ job = "succeeded"

(* The old deployment is not removed before the new one has been created,  *)
(* also when reconciliations fail between the calls: one of the two exists,*)
(* unless somebody removed it.  Whether it has a pod is another question.  *)
SomeDeployment == removals = 0 => work["old"].there \/ work["new"].there

(* The comment of applyDeployments: the pods of the new deployment are     *)
(* waited for before the old deployment is removed, so that one of the two *)
(* has a pod that serves.  waitForStability does not keep it: the status   *)
(* of a deployment its controller has not seen yet counts no replica, and  *)
(* 0 ready of 0 is stable.                                                 *)
RemovedAfterStable ==
    removals = 0 => work["old"].there \/ work["new"].ready > 0

(* The rollout ends, whatever failed on the way, unless the job failed for *)
(* good (it is never created anew).                                        *)
EventuallyRolledOut ==
    <>[](job = "failed" \/ (pc = "done" /\ ~work["old"].there))
=============================================================================
