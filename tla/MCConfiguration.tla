-------------------------- MODULE MCConfiguration ---------------------------
(***************************************************************************)
(* Clusters, command lines and instances for TLC.                          *)
(***************************************************************************)
EXTENDS Configuration

OldOpenShift ==
    [apis |-> {OpenShiftAPI, ElasticsearchAPI}, batch |-> {"batch/v1beta1"},
     autoscaling |-> {"autoscaling/v2beta2"}, ingressClass |-> {},
     imageStream |-> TRUE, delegator |-> TRUE]
Kubernetes ==
    [apis |-> {KafkaAPI}, batch |-> BatchVersions,
     autoscaling |-> {"autoscaling/v2"}, ingressClass |-> {"nginx"},
     imageStream |-> FALSE, delegator |-> TRUE]

(* On OpenShift the platform is left to the detection; Kubernetes is named *)
(* on the command line, which is also what an undetected one is taken for. *)
MCDeployed == {
    [cluster |-> OldOpenShift,
     flags |-> [platform |-> "auto-detect", es |-> "auto", kafka |-> "no",
                imageStream |-> TRUE]],
    [cluster |-> Kubernetes,
     flags |-> [platform |-> "kubernetes", es |-> "auto", kafka |-> "auto",
                imageStream |-> FALSE]]}

-----------------------------------------------------------------------------
(* A CR nobody has processed; it sets nothing.                             *)
New == [strategy |-> "unset", storage |-> "unset", labels |-> {},
        security |-> "unset", sar |-> "nil", deps |-> "nil",
        cleaner |-> "nil", nodes |-> 0, redundancy |-> "unset",
        ingress |-> TRUE, provisioned |-> FALSE, ver |-> 0,
        ui |-> [archive |-> "unset", dependencies |-> "unset", menu |-> <<>>],
        opts |-> [s \in Sections |-> {}],
        nested |-> [s \in Sections |-> {}]]
With(spec, section, flag, text) ==
    [spec EXCEPT !.opts[section] = Put(@, {Opt(flag, text)})]

SelfProvisioned == [New EXCEPT !.strategy = "production",
                               !.storage = "elasticsearch"]
Streaming ==
    With([New EXCEPT !.strategy = "streaming", !.storage = "elasticsearch",
                     !.labels = {"app.kubernetes.io/instance"}],
         "storage", "es.server-urls", "theirs")

(* Deprecated flags of 1.11 in several sections, those of the storage in   *)
(* an object "es", and a port of the query that has its own value besides  *)
(* the deprecated one.                                                     *)
Old == With(With(With(With(With(With(With(With(
          [SelfProvisioned EXCEPT !.ver = 11, !.security = "oauth-proxy",
              !.nested["storage"] = {"es.tls", "es.max-num-spans"}],
          "storage", "es.tls", "false"), "storage", "es.max-num-spans", "100"),
          "collector", "collector.port", "14267"),
          "collector", "health-check-http-port", "14269"),
          "query", "query.port", "16686"),
          "query", "health-check-http-port", "16687"),
          "agent", "jaeger.tags", "a=b"),
          "query", "query.grpc-server.host-port", "16685")
(* One whose storage the webhook has nothing to add to, and stays nested.  *)
Nested == With([SelfProvisioned EXCEPT !.ver = 11,
                    !.nested["storage"] = {"es.max-num-spans"}],
               "storage", "es.max-num-spans", "100")
Newer == With(With(With([New EXCEPT !.ver = 20, !.storage = "cassandra"],
          "storage", "cassandra.tls.verify-host", "false"),
          "collector", "collector.grpc.tls.client-ca", "file"),
          "allInOne", "jaeger.tags", "c=d")
Explicit ==
    With(With([SelfProvisioned EXCEPT
            !.security = "none", !.sar = "user", !.deps = "false",
            !.cleaner = "false", !.nodes = 1, !.ver = Latest,
            !.ui.menu = <<"Mine">>],
         "storage", "es.use-aliases", "true"),
         "storage", "es-archive.enabled", "true")

MCGroup(flag) ==
    CASE flag \in {"es.tls", "es.max-num-spans", "es.server-urls"} -> "es"
      [] flag \in {"kafka.producer.brokers", "kafka.consumer.brokers"} -> "kafka"
      [] OTHER -> flag
MCEdits == {[what |-> "storage", nested |-> TRUE],
            [what |-> "access", nested |-> FALSE]}
MCNested == {Nested}
MCInstances == {Streaming, Old, Newer, Explicit}

(* The old instance on either cluster, of the others one on OpenShift.     *)
MCPairs ==
    given \in (IF flags.platform = "kubernetes" THEN {Streaming, Old, Newer}
               ELSE {Old, Explicit})
=============================================================================
