-------------------------- MODULE MCApplyResources --------------------------
(* Small instances of ApplyResources for TLC.                              *)
EXTENDS ApplyResources, TLC

CONSTANTS i1, i2, ns1, ns2, a

\* the same name in two namespaces
TwoNamespaces == i1 :> ns1 @@ i2 :> ns2
SameName == i1 :> a @@ i2 :> a

AllKinds == ClusterKinds \cup
    {"Secrets", "Elasticsearches", "Kafkas", "KafkaUsers", "Accounts",
     "ConfigMaps", "CronJobs", "Services", "Deployments", "Routes",
     "Ingresses", "HorizontalPodAutoscalers", "DaemonSets"}

\* every kind for one instance, two kinds for an instance and its namesake
MCCases == [kind : AllKinds, instances : {{i1}}, edits : {2}] \cup
    [kind : {"ConsoleLinks", "Secrets"}, instances : {{i1, i2}}, edits : {1}]
Bindings == [kind : {"ClusterRoleBindings"}, instances : {{i1, i2}},
             edits : {0}]
=============================================================================
