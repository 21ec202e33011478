---------------------------- MODULE Autodetect -----------------------------
(***************************************************************************)
(* The detection of what the cluster offers (pkg/autodetect): once before  *)
(* the controllers start, then every five seconds in the background, while *)
(* the reconciliations read what it wrote.                                 *)
(*                                                                         *)
(* Each getter and setter of OperatorConfiguration takes the lock for      *)
(* itself: every write of config is a step of its own.                     *)
(***************************************************************************)
EXTENDS Integers

CONSTANTS
    Deployed,    \* the clusters and command lines the operator may run in
                 \* and with: records of a cluster and its flags
    MaxFaults,   \* how often a call to the API server may fail
    MaxEvents    \* how often the cluster may change, the user edit and the
                 \* operator stop, together

VARIABLES
    cluster,    \* the cluster as it is
    flags,      \* platform, es-provision, kafka-provision and the image
                \* stream of the command line
    config,     \* OperatorConfiguration and the viper keys of the detection
    detector,   \* the Background: its step, the APIs it has seen, firstRun
    faults, events

OpenShiftAPI == "route.openshift.io"
ElasticsearchAPI == "logging.openshift.io"
KafkaAPI == "kafka.strimzi.io"
BatchVersions == {"batch/v1", "batch/v1beta1"}

Clusters == [apis : SUBSET {OpenShiftAPI, ElasticsearchAPI, KafkaAPI},
             batch : SUBSET BatchVersions,
             autoscaling : SUBSET {"autoscaling/v2", "autoscaling/v2beta2"},
             ingressClass : SUBSET {"nginx"},
             imageStream : BOOLEAN, delegator : BOOLEAN]
CommandLines == [platform : {"auto-detect", "openshift", "kubernetes"},
                 es : {"auto", "yes", "no"}, kafka : {"auto", "yes", "no"},
                 imageStream : BOOLEAN]
ASSUME AutodetectAssumption ==
    /\ Deployed \subseteq [cluster : Clusters, flags : CommandLines]
    /\ MaxFaults \in Nat
    /\ MaxEvents \in Nat

DetectorSteps == {"discover", "platform", "cronjobs", "autoscaling",
                  "ingressClass", "oauthImage", "elasticsearch", "kafka",
                  "clusterRoles", "wait"}

(* Mutant: a platform to be detected is left unset.                        *)
FromFlagsUnset(f) ==
    [platform |-> IF f.platform = "auto-detect" THEN "unset"
                  ELSE f.platform,
     es |-> f.es, kafka |-> f.kafka, delegator |-> "unknown",
     cronjobs |-> "unset", autoscaling |-> "unset", ingressClass |-> "unset",
     oauthImage |-> "tag"]

(* The configuration before the first detection: what the command line     *)
(* says, with its "auto" values.                                           *)
FromFlags(f) == [platform |-> f.platform, es |-> f.es, kafka |-> f.kafka,
                 delegator |-> "unknown", cronjobs |-> "unset",
                 autoscaling |-> "unset", ingressClass |-> "unset",
                 oauthImage |-> "tag"]
NewBackground == [pc |-> "discover", found |-> {}, firstRun |-> FALSE]

AutodetectInit ==
    /\ \E d \in Deployed : cluster = d.cluster /\ flags = d.flags
    /\ config = FromFlags(flags)
    /\ detector = NewBackground
    /\ faults = 0
    /\ events = 0

(* A value that is still "auto" reads as Kubernetes, as "no".              *)
GetPlatform ==
    IF config.platform = "openshift" THEN "openshift" ELSE "kubernetes"
IsESOperatorIntegrationEnabled == config.es = "yes"
IsKafkaOperatorIntegrationEnabled == config.kafka = "yes"

Event == events < MaxEvents /\ events' = events + 1 /\ UNCHANGED faults
Fails == faults < MaxFaults /\ faults' = faults + 1 /\ UNCHANGED events
Succeeds == UNCHANGED <<faults, events>>

At(step) == detector.pc = step
Continue(step) == detector' = [detector EXCEPT !.pc = step]
Set(key, value) == config' = [config EXCEPT ![key] = value]

-----------------------------------------------------------------------------
(* AvailableAPIs.  When one of its calls fails, everything is left as it   *)
(* was until the next cycle, but for the cluster roles.                    *)
autoDetectCapabilities ==
    /\ At("discover")
    /\ \/ /\ Succeeds
          /\ detector' = [detector EXCEPT
                !.found = cluster.apis,
                !.pc = IF detector.firstRun THEN "oauthImage" ELSE "platform"]
       \/ Fails /\ Continue("clusterRoles")
    /\ UNCHANGED <<cluster, flags, config>>

detectPlatform ==
    /\ At("platform")
    /\ \/ /\ config.platform = "auto-detect"
          /\ Set("platform", IF OpenShiftAPI \in detector.found
                             THEN "openshift" ELSE "kubernetes")
       \/ /\ config.platform # "auto-detect"
          /\ UNCHANGED config
    /\ Continue("cronjobs")
    /\ Succeeds
    /\ UNCHANGED <<cluster, flags>>

(* The versions a call finds among those the cluster serves; one whose     *)
(* call fails is skipped and never asked for again.                        *)
Answers(served) == {served} \cup
    (IF faults < MaxFaults THEN SUBSET served ELSE {})
Counted(served, answer) ==
    IF answer = served THEN Succeeds ELSE Fails

(* The loop goes on after a match: the last version found wins.            *)
detectCronjobsVersion ==
    /\ At("cronjobs")
    /\ \E found \in Answers(cluster.batch) :
          /\ Counted(cluster.batch, found)
          /\ Set("cronjobs",
                 IF "batch/v1beta1" \in found THEN "batch/v1beta1"
                 ELSE IF "batch/v1" \in found THEN "batch/v1"
                 ELSE config.cronjobs)
    /\ Continue("autoscaling")
    /\ UNCHANGED <<cluster, flags>>

(* Here the first version found wins: autoscaling/v2 before v2beta2.       *)
detectAutoscalingVersion ==
    /\ At("autoscaling")
    /\ \E found \in Answers(cluster.autoscaling) :
          /\ Counted(cluster.autoscaling, found)
          /\ Set("autoscaling",
                 IF "autoscaling/v2" \in found THEN "autoscaling/v2"
                 ELSE IF "autoscaling/v2beta2" \in found
                 THEN "autoscaling/v2beta2" ELSE config.autoscaling)
    /\ Continue("ingressClass")
    /\ UNCHANGED <<cluster, flags>>

(* The last of the steps that run once, whatever became of them.           *)
detectDefaultIngressClass ==
    /\ At("ingressClass")
    /\ \/ GetPlatform = "openshift" /\ Succeeds /\ UNCHANGED config
       \/ /\ GetPlatform # "openshift"
          /\ \E found \in Answers(cluster.ingressClass) :
                /\ Counted(cluster.ingressClass, found)
                /\ \/ found = {} /\ UNCHANGED config
                   \/ \E class \in found : Set("ingressClass", class)
    /\ detector' = [detector EXCEPT !.pc = "oauthImage", !.firstRun = TRUE]
    /\ UNCHANGED <<cluster, flags>>

-----------------------------------------------------------------------------
(* The steps of every cycle.                                               *)

(* An image with a digest is kept; the image stream may have no tag yet.   *)
detectOAuthProxyImageStream ==
    LET wanted == GetPlatform = "openshift" /\ flags.imageStream
                    /\ config.oauthImage = "tag"
    IN  /\ At("oauthImage")
        /\ \/ wanted /\ cluster.imageStream
                /\ Set("oauthImage", "digest") /\ Succeeds
           \/ ~(wanted /\ cluster.imageStream) /\ UNCHANGED config /\ Succeeds
           \/ wanted /\ UNCHANGED config /\ Fails
        /\ Continue("elasticsearch")
        /\ UNCHANGED <<cluster, flags>>

(* An explicit es-provision is logged, and then detected all the same.     *)
detectElasticsearch ==
    /\ At("elasticsearch")
    /\ Set("es", IF ElasticsearchAPI \in detector.found THEN "yes"
                 ELSE IF config.es = "yes" THEN "no" ELSE config.es)
    /\ Continue("kafka")
    /\ Succeeds
    /\ UNCHANGED <<cluster, flags>>

(* Mutant: Kafka that has been found is never looked for again.            *)
detectKafkaOnce ==
    /\ At("kafka") /\ Succeeds
    /\ IF flags.kafka # "auto" \/ config.kafka = "yes" THEN UNCHANGED config
       ELSE Set("kafka", IF KafkaAPI \in detector.found THEN "yes"
                       ELSE config.kafka)
    /\ Continue("clusterRoles")
    /\ UNCHANGED <<cluster, flags>>

detectKafka ==
    /\ At("kafka")
    /\ \/ flags.kafka # "auto" /\ UNCHANGED config
       \/ /\ flags.kafka = "auto"
          /\ Set("kafka", IF KafkaAPI \in detector.found THEN "yes"
                          ELSE IF config.kafka = "yes" THEN "no"
                          ELSE config.kafka)
    /\ Continue("clusterRoles")
    /\ Succeeds
    /\ UNCHANGED <<cluster, flags>>

(* A token review that cannot be created, for whatever reason, means that  *)
(* the role is missing.                                                    *)
detectClusterRoles ==
    /\ At("clusterRoles")
    /\ \/ GetPlatform # "openshift" /\ Succeeds /\ UNCHANGED config
       \/ /\ GetPlatform = "openshift"
          /\ \/ cluster.delegator /\ Succeeds /\ Set("delegator", "yes")
             \/ ~cluster.delegator /\ Succeeds /\ Set("delegator", "no")
             \/ Fails /\ Set("delegator", "no")
    /\ Continue("wait")
    /\ UNCHANGED <<cluster, flags>>

(* The ticker of Start.                                                    *)
Tick ==
    /\ At("wait")
    /\ Continue("discover")
    /\ UNCHANGED <<cluster, flags, config, faults, events>>

Detect ==
    \/ autoDetectCapabilities
    \/ detectPlatform \/ detectCronjobsVersion \/ detectAutoscalingVersion
    \/ detectDefaultIngressClass \/ detectOAuthProxyImageStream
    \/ detectElasticsearch \/ detectKafka \/ detectClusterRoles

-----------------------------------------------------------------------------
(* The operator of Elasticsearch or Kafka is installed or removed, the     *)
(* role granted or taken away.                                             *)
Toggle(set, x) == IF x \in set THEN set \ {x} ELSE set \cup {x}
ClusterChange ==
    /\ Event
    /\ \/ \E g \in {ElasticsearchAPI, KafkaAPI} :
             cluster' = [cluster EXCEPT !.apis = Toggle(@, g)]
       \/ cluster' = [cluster EXCEPT !.delegator = ~@]
    /\ UNCHANGED <<flags, config, detector>>

AutodetectTypeOK ==
    /\ cluster \in Clusters
    /\ flags \in CommandLines
    /\ config \in [platform : {"auto-detect", "openshift", "kubernetes"},
                   es : {"auto", "yes", "no"}, kafka : {"auto", "yes", "no"},
                   delegator : {"unknown", "yes", "no"},
                   cronjobs : BatchVersions \cup {"unset"},
                   autoscaling : {"unset", "autoscaling/v2",
                                  "autoscaling/v2beta2"},
                   ingressClass : {"unset", "nginx"},
                   oauthImage : {"tag", "digest"}]
    /\ detector \in [pc : DetectorSteps, firstRun : BOOLEAN,
                     found : SUBSET {OpenShiftAPI, ElasticsearchAPI, KafkaAPI}]
    /\ faults \in 0..MaxFaults
    /\ events \in 0..MaxEvents

(* Once the cluster and the failures keep still, the configuration is what *)
(* the cluster offers, or what the command line says (but for es-provision,*)
(* which the detection overrides): a failed discovery is made up for by    *)
(* the next cycle (autoDetectCapabilities, "until next cycle").            *)
Detected ==
    /\ config.platform =
         IF flags.platform # "auto-detect" THEN flags.platform
         ELSE IF OpenShiftAPI \in cluster.apis THEN "openshift"
         ELSE "kubernetes"
    /\ IsESOperatorIntegrationEnabled <=> ElasticsearchAPI \in cluster.apis
    /\ IsKafkaOperatorIntegrationEnabled <=>
         IF flags.kafka = "auto" THEN KafkaAPI \in cluster.apis
         ELSE flags.kafka = "yes"
    /\ GetPlatform = "openshift" =>
         /\ config.delegator = IF cluster.delegator THEN "yes" ELSE "no"
         /\ flags.imageStream /\ cluster.imageStream =>
              config.oauthImage = "digest"
EventuallyDetected == <>[]Detected
=============================================================================
