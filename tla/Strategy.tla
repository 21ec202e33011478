------------------------------ MODULE Strategy ------------------------------
(***************************************************************************)
(* What pkg/strategy makes of an instance: normalize fills in the defaults *)
(* and clears what does not go together; the all-in-one, production and    *)
(* streaming strategies say which objects the instance consists of.        *)
(*                                                                         *)
(* normalize works on the copy that Reconcile stores back.  It is split    *)
(* where it reads the platform, because the detection may write it between *)
(* two reads.                                                              *)
(***************************************************************************)
EXTENDS UpgradeRoutines, Sequences, Functions

StorageTypes == {"memory", "cassandra", "elasticsearch", "kafka", "badger",
                 "grpc-plugin"}

(* The part of a CR that the passes read and write.  A section has each    *)
(* flag once.                                                              *)
OneEach(opts) == \A o, p \in opts : o.flag = p.flag => o = p
UIOptions == [archive : STRING, dependencies : STRING, menu : Seq(STRING)]
Instance ==
    {spec \in [strategy : STRING, storage : STRING, labels : SUBSET STRING,
               security : {"unset", "none", "oauth-proxy"},
               sar : {"nil", "blank", "default", "user"},
               deps : {"nil", "true", "false"},
               cleaner : {"nil", "true", "false"},
               nodes : Nat, redundancy : STRING, ingress : BOOLEAN,
               provisioned : BOOLEAN, ver : 0..Latest, ui : UIOptions,
               opts : [Sections -> SUBSET Option],
               nested : [Sections -> SUBSET STRING]] :
        \A s \in Sections : OneEach(spec.opts[s])}

distributedStorage(storage) == storage \notin {"memory", "badger"}
SupportedStorage(storage) == storage \in {"elasticsearch", "cassandra"}
EnableRollover(spec) ==
    spec.storage = "elasticsearch"
        /\ IsTrue(spec.opts["storage"], "es.use-aliases")

-----------------------------------------------------------------------------
(* normalize, up to the first read of the platform; For has turned the     *)
(* deprecated name all-in-one into allInOne before.                        *)
normalizeTypes(spec) ==
    LET storage == IF spec.storage \in StorageTypes THEN spec.storage
                   ELSE "memory"
        known == spec.strategy \in {"production", "streaming"}
    IN  [spec EXCEPT
           !.storage = storage,
           !.labels = @ \ {"app.kubernetes.io/instance",
                           "app.kubernetes.io/managed-by"},
           !.strategy = IF known /\ distributedStorage(storage) THEN @
                        ELSE "allInOne"]

(* Mutant: an explicit none is replaced on OpenShift as well.              *)
normalizeSecurityAlways(spec, platform) ==
    [spec EXCEPT !.security = IF platform = "openshift" THEN "oauth-proxy"
                              ELSE "none"]

(* The first read.  What is not OpenShift gets the value that the user     *)
(* writes to have no security.                                             *)
normalizeSecurity(spec, platform) ==
    [spec EXCEPT !.security =
        IF platform = "openshift" /\ @ # "none" THEN "oauth-proxy"
        ELSE "none"]

(* The second read.                                                        *)
normalizeSAR(spec, platform) ==
    [spec EXCEPT !.sar =
        IF /\ platform = "openshift"
           /\ spec.security = "oauth-proxy"
           /\ @ = "nil"
        THEN "default" ELSE @]

(* Spark cannot talk TLS, and not to a self-provisioned Elasticsearch.     *)
normalizeSparkDependencies(spec) ==
    LET opts == spec.opts["storage"]
        tls == \/ IsTrue(opts, "es.tls")
               \/ IsTrue(opts, "es.tls.skip-host-verify")
               \/ "es.tls.ca" \in Names(opts)
    IN  [spec EXCEPT !.deps =
            IF /\ SupportedStorage(spec.storage) /\ @ = "nil"
               /\ ~ShouldInject(spec) /\ ~tls
            THEN "true" ELSE @]

normalizeIndexCleaner(spec) ==
    [spec EXCEPT !.cleaner =
        IF spec.storage = "elasticsearch" /\ @ = "nil" THEN "true" ELSE @]

normalizeElasticsearch(spec) ==
    LET nodes == IF spec.nodes = 0 THEN 3 ELSE spec.nodes
    IN  [spec EXCEPT
           !.nodes = nodes,
           !.redundancy = IF @ # "unset" THEN @
                          ELSE IF nodes = 1 THEN "ZeroRedundancy"
                          ELSE "SingleRedundancy"]

(* The archive button, the tab of the dependencies, the link to the        *)
(* documentation and the entry to log out.  A menu of the user stays as it *)
(* is, but for the log out that is appended once.                          *)
enableArchiveButton(spec) ==
    [spec EXCEPT !.ui.archive =
        IF @ = "unset"
              /\ \/ IsTrue(spec.opts["storage"], "es-archive.enabled")
                 \/ IsTrue(spec.opts["storage"], "cassandra-archive.enabled")
        THEN "true" ELSE @]

disableDependenciesTab(spec) ==
    [spec EXCEPT !.ui.dependencies =
        IF spec.storage # "memory" /\ spec.deps # "true" /\ @ = "unset"
        THEN "false" ELSE @]

enableDocumentationLink(spec) ==
    [spec EXCEPT !.ui.menu = IF @ = <<>> THEN <<"About">> ELSE @]

enableLogOut(spec) ==
    [spec EXCEPT !.ui.menu =
        IF /\ spec.ingress /\ spec.security = "oauth-proxy"
           /\ "LogOut" \notin Range(@)
        THEN Append(@, "LogOut") ELSE @]

normalizeUI(spec) ==
    enableLogOut(enableDocumentationLink(disableDependenciesTab(
        enableArchiveButton(spec))))

(* What follows the second read; the order matters to the UI.              *)
normalizeStorage(spec) ==
    normalizeUI(normalizeElasticsearch(normalizeIndexCleaner(
        normalizeSparkDependencies(spec))))

(* normalize with a platform that does not change.                         *)
normalize(spec, platform) ==
    normalizeStorage(normalizeSAR(
        normalizeSecurity(normalizeTypes(spec), platform), platform))

-----------------------------------------------------------------------------
(* Streaming: a Kafka is provisioned when neither side names brokers, or   *)
(* when the annotation says that it was provisioned before.  The options   *)
(* of the collector and the ingester are then overwritten.                 *)
ProducerFlags == {"kafka.producer.tls.ca", "kafka.producer.tls.cert",
                  "kafka.producer.tls.key"}
ConsumerFlags == {"kafka.consumer.tls.ca", "kafka.consumer.tls.cert",
                  "kafka.consumer.tls.key"}
Mounted(files) == {Opt(f, "provisioned") : f \in files}

ProvisionsKafka(spec) ==
    /\ spec.strategy = "streaming"
    /\ \/ /\ "kafka.producer.brokers" \notin Names(spec.opts["collector"])
          /\ "kafka.consumer.brokers" \notin Names(spec.opts["ingester"])
       \/ spec.provisioned

ProducerOptions ==
    {Opt("kafka.producer.brokers", "provisioned"),
     Opt("kafka.producer.authentication", "tls"),
     Opt("kafka.producer.tls.enabled", "true")} \cup Mounted(ProducerFlags)
ConsumerOptions ==
    {Opt("kafka.consumer.brokers", "provisioned"),
     Opt("kafka.consumer.authentication", "tls"),
     Opt("kafka.consumer.tls.enabled", "true")} \cup Mounted(ConsumerFlags)
autoProvisionKafka(spec) ==
    [spec EXCEPT !.provisioned = TRUE,
                 !.nested = Flat(@, {"collector", "ingester"}),
                 !.opts["collector"] = Put(@, ProducerOptions),
                 !.opts["ingester"] = Put(@, ConsumerOptions)]

strategyKafka(spec) ==
    IF ProvisionsKafka(spec) THEN autoProvisionKafka(spec) ELSE spec

(* inject.OAuthProxy.                                                      *)
OAuthProxy(spec) == spec.security = "oauth-proxy"

(* What the three strategies have in common: the third read of the platform*)
(* decides how the query is exposed.  The cron jobs come later, each with  *)
(* the version of its API.                                                 *)
Manifest(spec, platform) ==
    [exposure |-> IF ~spec.ingress THEN "none"
                  ELSE IF platform = "openshift" THEN "route" ELSE "ingress",
     proxy |-> OAuthProxy(spec), es |-> FALSE, kafka |-> FALSE,
     jobs |-> {}, deployments |-> {}]

(* The all-in-one never provisions Elasticsearch.                          *)
newAllInOneStrategy(spec, platform) ==
    [Manifest(spec, platform) EXCEPT !.deployments = {"all-in-one"}]

newProductionStrategy(spec, platform) ==
    [Manifest(spec, platform) EXCEPT
       !.deployments = {"collector", "query"},
       !.es = ShouldInject(spec)]

newStreamingStrategy(spec, platform) ==
    [Manifest(spec, platform) EXCEPT
       !.deployments = {"collector", "query", "ingester"},
       !.es = ShouldInject(spec),
       !.kafka = ProvisionsKafka(spec)]

For(spec, platform) ==
    CASE spec.strategy = "allInOne" -> newAllInOneStrategy(spec, platform)
      [] spec.strategy = "streaming" -> newStreamingStrategy(spec, platform)
      [] OTHER -> newProductionStrategy(spec, platform)

ProvisionsElasticsearch(spec) ==
    spec.strategy # "allInOne" /\ ShouldInject(spec)

AllJobs == {"spark", "cleaner", "rollover"}
AllDeployments == {"all-in-one", "collector", "query", "ingester"}
CronJobs(spec) ==
    {job \in AllJobs :
        \/ job = "spark" /\ spec.deps = "true" /\ SupportedStorage(spec.storage)
        \/ job = "cleaner" /\ spec.cleaner = "true"
             /\ spec.storage = "elasticsearch"
        \/ job = "rollover" /\ EnableRollover(spec)}
=============================================================================
