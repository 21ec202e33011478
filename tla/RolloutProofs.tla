--------------------------- MODULE RolloutProofs ---------------------------
(* Proofs about Rollout, for any number of failures, removals and passes.  *)
EXTENDS Rollout, TLAPS

(* The steps that come after a wait has succeeded, in this pass.           *)
AfterKafka == {"user", "userWait", "jobs", "jobWait"}
AfterUser == {"jobs", "jobWait"}
Deploying == {"deploy", "deployWait", "remove"}

Provided ==
    /\ strimzi["kafka"] = "ready"
    /\ strimzi["user"] = "ready"
    /\ job = "succeeded"

(* Nothing that was waited for goes away unless it is removed.             *)
Progress ==
    /\ pc \in AfterKafka => strimzi["kafka"] = "ready"
    /\ pc \in AfterUser => strimzi["user"] = "ready"
    /\ pc \in Deploying => Provided
    /\ work["new"].there => Provided
    /\ pc \in {"deployWait", "remove"} => work["new"].there
    /\ work["old"].there \/ work["new"].there

(* The parts of TypeOK, by what disturbs them.                             *)
ControlOK == /\ pc \in {"idle", "done"} \cup Steps \cup Waits
             /\ seen \in BOOLEAN
             /\ seen => pc \in Waits
WorkOK == work \in [Names -> Workloads]
            /\ \A w \in Names : work[w].ready <= work[w].replicas
OthersOK ==
    /\ es \in BOOLEAN
    /\ strimzi \in [{"kafka", "user"} -> {"absent", "starting", "ready"}]
    /\ job \in {"absent", "running", "succeeded", "failed"}
BoundsOK == faults \in 0..MaxFaults /\ removals \in 0..MaxRemovals
              /\ passes \in 0..MaxPasses

IInv == /\ ControlOK /\ WorkOK /\ OthersOK /\ BoundsOK
        /\ removals = 0 => Progress

LEMMA TypeParts == IInv => TypeOK
  BY DEF IInv, TypeOK, ControlOK, WorkOK, OthersOK, BoundsOK

-----------------------------------------------------------------------------
(* The values a workload is given.                                         *)
WorkloadOK(w) == w \in Workloads /\ w.ready <= w.replicas

LEMMA WorkloadValues ==
    /\ WorkloadOK(NoWorkload) /\ ~NoWorkload.there
    /\ WorkloadOK(JustCreated) /\ JustCreated.there
    /\ WorkloadOK(Running) /\ Running.there
  <1>1. WorkloadOK(NoWorkload) /\ ~NoWorkload.there
    BY DEF WorkloadOK, Workloads, NoWorkload
  <1>3. WorkloadOK(JustCreated) /\ JustCreated.there
    BY DEF WorkloadOK, Workloads, JustCreated
  <1>4. WorkloadOK(Running) /\ Running.there
    BY DEF WorkloadOK, Workloads, Running
  <1> QED BY <1>1, <1>3, <1>4

LEMMA WorkSet ==
    ASSUME WorkOK, NEW w \in Names, NEW v, WorkloadOK(v),
           work' = [work EXCEPT ![w] = v]
    PROVE  WorkOK'
  BY DEF WorkOK, WorkloadOK

LEMMA GotoControl ==
    ASSUME NEW step \in {"idle", "done"} \cup Steps \cup Waits, Goto(step)
    PROVE  ControlOK'
  BY DEF Goto, ControlOK

LEMMA FaultBounds ==
    ASSUME BoundsOK, Fault \/ NoFault, UNCHANGED <<removals, passes>>
    PROVE  BoundsOK'
  BY RolloutAssumption DEF BoundsOK, Fault, NoFault

LEMMA InitIInv == Init => IInv
  <1> SUFFICES ASSUME Init PROVE IInv
    OBVIOUS
  <1>1. WorkOK
    <2>1. \A w \in Names : work[w] = NoWorkload \/ work[w] = Running
      BY DEF Init
    <2>2. \A w \in Names : WorkloadOK(work[w])
      BY <2>1, WorkloadValues
    <2>3. work = [w \in Names |-> work[w]]
      BY DEF Init
    <2> QED BY <2>2, <2>3 DEF WorkOK, WorkloadOK
  <1>2. ControlOK /\ OthersOK /\ BoundsOK
    <2>1. ControlOK
      BY DEF Init, ControlOK
    <2>2. OthersOK
      BY DEF Init, OthersOK
    <2>3. BoundsOK
      BY RolloutAssumption DEF Init, BoundsOK
    <2> QED BY <2>1, <2>2, <2>3
  <1>3. pc = "idle" /\ work["old"].there /\ ~work["new"].there
    BY WorkloadValues DEF Init, Names
  <1>4. Progress
    BY <1>3 DEF Progress, AfterKafka, AfterUser, Deploying
  <1> QED BY <1>1, <1>2, <1>4 DEF IInv

-----------------------------------------------------------------------------
(* One lemma per action.                                                   *)
LEMMA StartIInv == ASSUME IInv, Start PROVE IInv'
  <1>1. Goto("es") /\ UNCHANGED cluster /\ UNCHANGED <<faults, removals>>
    BY DEF Start
  <1>2. ControlOK' /\ pc' = "es"
    BY <1>1, GotoControl DEF Steps, Goto
  <1>3. BoundsOK'
    BY RolloutAssumption DEF Start, IInv, BoundsOK
  <1>4. WorkOK' /\ OthersOK'
    BY <1>1 DEF cluster, IInv, WorkOK, OthersOK
  <1>5. removals' = 0 => Progress'
    BY <1>1, <1>2 DEF IInv, Progress, Provided, cluster, AfterKafka, AfterUser,
       Deploying
  <1> QED BY <1>2, <1>3, <1>4, <1>5 DEF IInv

(* A step of apply that fails goes back to the queue and leaves the        *)
(* cluster as it is.                                                       *)
LEMMA FailedIInv ==
    ASSUME IInv, Goto("idle"), UNCHANGED cluster, Fault \/ NoFault,
           UNCHANGED <<removals, passes>>
    PROVE  IInv'
  <1>1. ControlOK' /\ pc' = "idle"
    BY GotoControl DEF Goto
  <1>2. BoundsOK'
    BY FaultBounds DEF IInv
  <1>3. WorkOK' /\ OthersOK'
    BY DEF cluster, IInv, WorkOK, OthersOK
  <1>4. removals' = 0 => Progress'
    BY <1>1 DEF IInv, Progress, Provided, cluster, AfterKafka, AfterUser,
       Deploying
  <1> QED BY <1>1, <1>2, <1>3, <1>4 DEF IInv

LEMMA ApplyElasticsearchesIInv == ASSUME IInv, ApplyElasticsearches PROVE IInv'
  <1>1. CASE Fault /\ Failed
    BY <1>1, FailedIInv DEF ApplyElasticsearches, Failed
  <1>2. CASE /\ NoFault /\ es' = TRUE /\ Goto(IF es THEN "kafka" ELSE "esWait")
             /\ UNCHANGED <<work, strimzi, job>>
    <2>1. ControlOK' /\ pc' \in {"kafka", "esWait"}
      BY <1>2, GotoControl DEF Steps, Waits, Goto
    <2>2. BoundsOK'
      BY <1>2, FaultBounds DEF IInv, ApplyElasticsearches
    <2>3. WorkOK' /\ OthersOK'
      BY <1>2 DEF IInv, WorkOK, OthersOK
    <2>4. removals' = 0 => Progress'
      BY <1>2, <2>1 DEF IInv, Progress, Provided, ApplyElasticsearches,
         AfterKafka, AfterUser, Deploying
    <2> QED BY <2>1, <2>2, <2>3, <2>4 DEF IInv
  <1> QED BY <1>1, <1>2 DEF ApplyElasticsearches

(* An object of Strimzi that is created or kept is not less ready.         *)
LEMMA StrimziSet ==
    ASSUME OthersOK, NEW s \in {"kafka", "user"}, UNCHANGED <<es, job>>,
           strimzi' = [strimzi EXCEPT ![s] = IF @ = "absent"
                                             THEN "starting" ELSE @]
    PROVE  /\ OthersOK'
           /\ \A r \in {"kafka", "user"} :
                 strimzi[r] = "ready" => strimzi'[r] = "ready"
  BY DEF OthersOK

LEMMA ApplyKafkasIInv == ASSUME IInv, ApplyKafkas PROVE IInv'
  <1>1. CASE Fault /\ Failed
    BY <1>1, FailedIInv DEF ApplyKafkas, Failed
  <1>2. CASE /\ NoFault
             /\ strimzi' = [strimzi EXCEPT !["kafka"] =
                               IF @ = "absent" THEN "starting" ELSE @]
             /\ Goto("kafkaWait")
             /\ UNCHANGED <<es, work, job>>
    <2>1. ControlOK' /\ pc' = "kafkaWait"
      BY <1>2, GotoControl DEF Waits, Goto
    <2>2. BoundsOK'
      BY <1>2, FaultBounds DEF IInv, ApplyKafkas
    <2>3. OthersOK' /\ \A r \in {"kafka", "user"} :
                          strimzi[r] = "ready" => strimzi'[r] = "ready"
      BY <1>2, StrimziSet DEF IInv
    <2>4. WorkOK'
      BY <1>2 DEF IInv, WorkOK
    <2>5. removals' = 0 => Progress'
      BY <1>2, <2>1, <2>3 DEF IInv, Progress, Provided, ApplyKafkas,
         AfterKafka, AfterUser, Deploying
    <2> QED BY <2>1, <2>2, <2>3, <2>4, <2>5 DEF IInv
  <1> QED BY <1>1, <1>2 DEF ApplyKafkas

LEMMA ApplyKafkaUsersIInv == ASSUME IInv, ApplyKafkaUsers PROVE IInv'
  <1>1. CASE Fault /\ Failed
    BY <1>1, FailedIInv DEF ApplyKafkaUsers, Failed
  <1>2. CASE /\ NoFault
             /\ strimzi' = [strimzi EXCEPT !["user"] =
                               IF @ = "absent" THEN "starting" ELSE @]
             /\ Goto("userWait")
             /\ UNCHANGED <<es, work, job>>
    <2>1. ControlOK' /\ pc' = "userWait" /\ pc = "user"
      BY <1>2, GotoControl DEF Waits, Goto, ApplyKafkaUsers
    <2>2. BoundsOK'
      BY <1>2, FaultBounds DEF IInv, ApplyKafkaUsers
    <2>3. OthersOK' /\ \A r \in {"kafka", "user"} :
                          strimzi[r] = "ready" => strimzi'[r] = "ready"
      BY <1>2, StrimziSet DEF IInv
    <2>4. WorkOK'
      BY <1>2 DEF IInv, WorkOK
    <2>5. removals' = 0 => Progress'
      BY <1>2, <2>1, <2>3 DEF IInv, Progress, Provided, ApplyKafkaUsers,
         AfterKafka, AfterUser, Deploying
    <2> QED BY <2>1, <2>2, <2>3, <2>4, <2>5 DEF IInv
  <1> QED BY <1>1, <1>2 DEF ApplyKafkaUsers

LEMMA HandleDependencyIInv == ASSUME IInv, HandleDependency PROVE IInv'
  <1>1. CASE Fault /\ Failed
    BY <1>1, FailedIInv DEF HandleDependency, Failed
  <1>2. CASE /\ NoFault
             /\ job' = IF job = "absent" THEN "running" ELSE job
             /\ Goto("jobWait")
             /\ UNCHANGED <<es, work, strimzi>>
    <2>1. ControlOK' /\ pc' = "jobWait" /\ pc = "jobs"
      BY <1>2, GotoControl DEF Waits, Goto, HandleDependency
    <2>2. BoundsOK'
      BY <1>2, FaultBounds DEF IInv, HandleDependency
    <2>3. WorkOK' /\ OthersOK'
      BY <1>2 DEF IInv, WorkOK, OthersOK
    <2>4. removals' = 0 => Progress'
      BY <1>2, <2>1 DEF IInv, Progress, Provided, HandleDependency,
         AfterKafka, AfterUser, Deploying
    <2> QED BY <2>1, <2>2, <2>3, <2>4 DEF IInv
  <1> QED BY <1>1, <1>2 DEF HandleDependency

(* Only here does the new deployment appear: every wait before has         *)
(* succeeded in this pass.                                                 *)
LEMMA ApplyDeploymentsIInv == ASSUME IInv, ApplyDeployments PROVE IInv'
  <1>1. CASE Fault /\ Failed
    BY <1>1, FailedIInv DEF ApplyDeployments, Failed
  <1>2. CASE /\ NoFault
             /\ work' = [work EXCEPT !["new"] =
                            IF @.there THEN @ ELSE JustCreated]
             /\ Goto("deployWait")
             /\ UNCHANGED <<es, strimzi, job>>
    <2>1. ControlOK' /\ pc' = "deployWait" /\ pc = "deploy"
      BY <1>2, GotoControl DEF Waits, Goto, ApplyDeployments
    <2>2. BoundsOK'
      BY <1>2, FaultBounds DEF IInv, ApplyDeployments
    <2> DEFINE v == IF work["new"].there THEN work["new"] ELSE JustCreated
    <2>3. WorkOK /\ "new" \in Names /\ "old" \in Names
      BY DEF IInv, Names
    <2>4. WorkloadOK(v) /\ v.there
      BY <2>3, WorkloadValues DEF WorkOK, WorkloadOK
    <2>5. work' = [work EXCEPT !["new"] = v]
      BY <1>2
    <2> HIDE DEF v
    <2>6. WorkOK' /\ OthersOK'
      BY <1>2, <2>3, <2>4, <2>5, WorkSet DEF IInv, OthersOK
    <2>7. work'["new"].there /\ work'["old"] = work["old"]
      BY <2>3, <2>4, <2>5 DEF WorkOK
    <2>8. removals' = 0 => Progress'
      BY <1>2, <2>1, <2>7 DEF IInv, Progress, Provided, ApplyDeployments,
         AfterKafka, AfterUser, Deploying
    <2> QED BY <2>1, <2>2, <2>6, <2>8 DEF IInv
  <1> QED BY <1>1, <1>2 DEF ApplyDeployments

LEMMA RemoveOldDeploymentsIInv == ASSUME IInv, RemoveOldDeployments PROVE IInv'
  <1>1. CASE Fault /\ Failed
    BY <1>1, FailedIInv DEF RemoveOldDeployments, Failed
  <1>2. CASE /\ NoFault
             /\ work' = [work EXCEPT !["old"] = NoWorkload]
             /\ Goto("done")
             /\ UNCHANGED <<es, strimzi, job>>
    <2>1. ControlOK' /\ pc' = "done" /\ pc = "remove"
      BY <1>2, GotoControl DEF Waits, Goto, RemoveOldDeployments
    <2>2. BoundsOK'
      BY <1>2, FaultBounds DEF IInv, RemoveOldDeployments
    <2>3. WorkOK /\ "new" \in Names /\ "old" \in Names
      BY DEF IInv, Names
    <2>4. WorkOK' /\ OthersOK'
      BY <1>2, <2>3, WorkloadValues, WorkSet DEF IInv, OthersOK
    <2>5. work'["new"] = work["new"]
      BY <1>2, <2>3 DEF WorkOK
    <2>6. removals' = 0 => Progress'
      BY <1>2, <2>1, <2>5 DEF IInv, Progress, Provided, RemoveOldDeployments,
         AfterKafka, AfterUser, Deploying
    <2> QED BY <2>1, <2>2, <2>4, <2>6 DEF IInv
  <1> QED BY <1>1, <1>2 DEF RemoveOldDeployments

LEMMA PollIInv == ASSUME IInv, Poll PROVE IInv'
  <1>1. CASE Goto("idle")
    BY <1>1, FailedIInv DEF Poll
  <1>2. CASE UNCHANGED pc
    <2>1. ControlOK' /\ WorkOK' /\ OthersOK' /\ BoundsOK'
      BY <1>2, FaultBounds
      DEF Poll, IInv, ControlOK, WorkOK, OthersOK, cluster, Goto, Waits
    <2>2. removals' = 0 => Progress'
      BY <1>2 DEF Poll, IInv, Progress, Provided, cluster
    <2> QED BY <2>1, <2>2 DEF IInv
  <1>3. CASE Found(pc) /\ Ready(pc) /\ Goto(After(pc)) /\ NoFault
    <2>1. /\ After(pc) \in Steps /\ pc' = After(pc) /\ pc \in Waits
          /\ UNCHANGED cluster /\ UNCHANGED <<removals, passes>>
      BY <1>3 DEF Poll, Waits, After, Steps, Goto
    <2>2. ControlOK' /\ WorkOK' /\ OthersOK' /\ BoundsOK'
      BY <1>3, <2>1, GotoControl, FaultBounds
      DEF IInv, WorkOK, OthersOK, cluster
    <2>3. removals' = 0 => Progress'
      BY <1>3, <2>1 DEF IInv, Progress, Provided, cluster, Found, Ready, After,
         KafkaReady, KafkaUserReady, DependencySucceeded,
         Waits, AfterKafka, AfterUser, Deploying
    <2> QED BY <2>2, <2>3 DEF IInv
  <1> QED BY <1>1, <1>2, <1>3 DEF Poll

LEMMA TimeoutIInv == ASSUME IInv, Timeout PROVE IInv'
  BY FailedIInv DEF Timeout, NoFault

(* The other controllers: what is ready stays so, and only a removal makes *)
(* an object disappear.                                                    *)
LEMMA WorkloadStep ==
    ASSUME IInv, NEW w \in Names, NEW v, WorkloadOK(v),
           w # "node" => v.there = work[w].there,
           work' = [work EXCEPT ![w] = v],
           UNCHANGED <<pc, seen, es, strimzi, job, faults, removals, passes>>
    PROVE  IInv'
  <1>1. WorkOK /\ "new" \in Names /\ "old" \in Names
    BY DEF IInv, Names
  <1>2. WorkOK' /\ ControlOK' /\ OthersOK' /\ BoundsOK'
    BY <1>1, WorkSet DEF IInv, ControlOK, OthersOK, BoundsOK
  <1>3. /\ work'["old"].there = work["old"].there
        /\ work'["new"].there = work["new"].there
    BY <1>1 DEF WorkOK
  <1>4. removals' = 0 => Progress'
    BY <1>3 DEF IInv, Progress, Provided
  <1> QED BY <1>2, <1>4 DEF IInv

LEMMA ElasticsearchOperatorIInv ==
    ASSUME IInv, ElasticsearchOperator PROVE IInv'
  <1> DEFINE v == IF es THEN JustCreated ELSE NoWorkload
  <1>1. WorkloadOK(v) /\ "node" \in Names
    BY WorkloadValues DEF Names
  <1>2. /\ work' = [work EXCEPT !["node"] = v]
        /\ UNCHANGED <<pc, seen, es, strimzi, job, faults, removals, passes>>
    BY DEF ElasticsearchOperator
  <1> HIDE DEF v
  <1> QED BY <1>1, <1>2, WorkloadStep

LEMMA DeploymentControllerIInv ==
    ASSUME IInv, NEW w \in Names, DeploymentController(w) PROVE IInv'
  <1>1. work[w] \in Workloads /\ work[w].ready <= work[w].replicas
    BY DEF IInv, WorkOK
  <1>2. UNCHANGED <<pc, seen, es, strimzi, job, faults, removals, passes>>
    BY DEF DeploymentController
  <1>3. CASE work[w].replicas = 0 /\ work' = [work EXCEPT ![w].replicas = 1]
    <2> DEFINE v == [work[w] EXCEPT !.replicas = 1]
    <2>1. WorkloadOK(v) /\ v.there = work[w].there
      BY <1>1 DEF WorkloadOK, Workloads
    <2>2. work' = [work EXCEPT ![w] = v]
      BY <1>3, Zenon
    <2> HIDE DEF v
    <2> QED BY <1>2, <2>1, <2>2, WorkloadStep
  <1>4. CASE /\ work[w].replicas = 1 /\ work[w].ready = 0
             /\ work' = [work EXCEPT ![w].ready = 1]
    <2> DEFINE v == [work[w] EXCEPT !.ready = 1]
    <2>1. WorkloadOK(v) /\ v.there = work[w].there
      BY <1>1, <1>4 DEF WorkloadOK, Workloads
    <2>2. work' = [work EXCEPT ![w] = v]
      BY <1>4, Zenon
    <2> HIDE DEF v
    <2> QED BY <1>2, <2>1, <2>2, WorkloadStep
  <1> QED BY <1>3, <1>4 DEF DeploymentController

LEMMA StrimziIInv ==
    ASSUME IInv, NEW s \in {"kafka", "user"}, Strimzi(s) PROVE IInv'
  <1>1. OthersOK' /\ \A r \in {"kafka", "user"} :
                        strimzi[r] = "ready" => strimzi'[r] = "ready"
    BY DEF Strimzi, IInv, OthersOK
  <1>2. ControlOK' /\ WorkOK' /\ BoundsOK'
    BY DEF Strimzi, IInv, ControlOK, WorkOK, BoundsOK
  <1>3. removals' = 0 => Progress'
    BY <1>1 DEF Strimzi, IInv, Progress, Provided
  <1> QED BY <1>1, <1>2, <1>3 DEF IInv

LEMMA JobControllerIInv == ASSUME IInv, JobController PROVE IInv'
  <1>1. ControlOK' /\ WorkOK' /\ BoundsOK' /\ OthersOK'
    BY DEF JobController, IInv, ControlOK, WorkOK, BoundsOK, OthersOK
  <1>2. removals' = 0 => Progress'
    BY DEF JobController, IInv, Progress, Provided
  <1> QED BY <1>1, <1>2 DEF IInv

(* After a removal Progress is promised no more.                           *)
LEMMA RemoveIInv == ASSUME IInv, Remove PROVE IInv'
  <1>1. BoundsOK' /\ removals' # 0
    BY RolloutAssumption DEF Remove, IInv, BoundsOK
  <1>2. ControlOK'
    BY DEF Remove, IInv, ControlOK
  <1>3. WorkOK'
    <2>1. CASE UNCHANGED work
      BY <2>1 DEF IInv, WorkOK
    <2>2. CASE work' = [work EXCEPT !["new"] = NoWorkload]
      BY <2>2, WorkSet, WorkloadValues DEF IInv, Names
    <2> QED BY <2>1, <2>2 DEF Remove
  <1>4. OthersOK'
    BY DEF Remove, IInv, OthersOK
  <1> QED BY <1>1, <1>2, <1>3, <1>4 DEF IInv

LEMMA NextIInv == ASSUME IInv, [Next]_vars PROVE IInv'
  <1>1. CASE UNCHANGED vars
    BY <1>1 DEF vars, IInv, ControlOK, WorkOK, OthersOK, BoundsOK, Progress,
       Provided
  <1>2. CASE Reconcile
    BY <1>2, StartIInv, ApplyElasticsearchesIInv, ApplyKafkasIInv,
       ApplyKafkaUsersIInv, HandleDependencyIInv, ApplyDeploymentsIInv,
       RemoveOldDeploymentsIInv, PollIInv, TimeoutIInv DEF Reconcile
  <1>3. CASE Next /\ ~Reconcile
    BY <1>3, ElasticsearchOperatorIInv, JobControllerIInv, RemoveIInv,
       DeploymentControllerIInv, StrimziIInv DEF Next
  <1> QED BY <1>1, <1>2, <1>3

LEMMA Invariance == Spec => []IInv
  BY InitIInv, NextIInv, PTL DEF Spec

-----------------------------------------------------------------------------
(* The variables keep their types; in particular the memory of one wait    *)
(* (the flag "seen") never reaches the next one.                           *)
THEOREM TypeCorrect == Spec => []TypeOK
  BY Invariance, TypeParts, PTL

(* However many reconciliations fail or time out half way, the deployments *)
(* of a new strategy are created only after Kafka, its user and the job    *)
(* the storage depends on.                                                 *)
THEOREM DeployedAfterDependenciesHolds == Spec => []DeployedAfterDependencies
  <1>1. IInv => DeployedAfterDependencies
    BY DEF IInv, Progress, Provided, DeployedAfterDependencies
  <1> QED BY <1>1, Invariance, PTL

(* A change of strategy never leaves the instance without a deployment.    *)
THEOREM SomeDeploymentHolds == Spec => []SomeDeployment
  <1>1. IInv => SomeDeployment
    BY DEF IInv, Progress, SomeDeployment
  <1> QED BY <1>1, Invariance, PTL
=============================================================================
