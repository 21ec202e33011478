-------------------------- MODULE UpgradeRoutines --------------------------
(***************************************************************************)
(* The upgrade routines of pkg/upgrade (v1_15_0.go to v1_31_0.go): what    *)
(* each of them does to the options of an instance.                        *)
(*                                                                         *)
(* A version 1.n.0 is the number n.  The options of a section of the spec  *)
(* are a set of records, one for each flag; the value of a flag is a text  *)
(* and the number of colons written in front of it, all that a routine     *)
(* ever adds.  A flag may be written under the names of nested objects;    *)
(* nested has those of each section, as long as the section is not written *)
(* anew.                                                                   *)
(***************************************************************************)
EXTENDS Integers

CONSTANT Latest    \* the version of Jaeger this operator deploys

ASSUME LatestAssumption == Latest \in Nat /\ Latest > 31

(* What the code writes are strings; the prover has no rule that says so.  *)
ASSUME StringsAssumption ==
    {"admin-http-port", "admin.http.host-port", "agent.tags",
     "cassandra-archive.tls.enabled", "cassandra.tls.enabled",
     "cassandra.tls.skip-host-verify", "collector.grpc-server.host-port",
     "collector.grpc.tls.client-ca", "collector.grpc.tls.enabled",
     "collector.http-server.host-port", "collector.tags",
     "collector.tchan-server.host-port", "collector.zipkin.host-port",
     "es-archive.max-doc-count", "es-archive.tls.enabled", "es.max-doc-count",
     "es.server-urls", "es.tls.enabled", "kafka.consumer.authentication",
     "kafka.consumer.brokers", "kafka.consumer.tls.ca",
     "kafka.consumer.tls.cert", "kafka.consumer.tls.enabled",
     "kafka.consumer.tls.key", "kafka.producer.authentication",
     "kafka.producer.brokers", "kafka.producer.tls.ca",
     "kafka.producer.tls.cert", "kafka.producer.tls.enabled",
     "kafka.producer.tls.key", "query.grpc-server.host-port",
     "query.http-server.host-port", "reporter.grpc.tls.enabled",
     "reporter.tchannel.discovery.conn-check-timeout",
     "reporter.tchannel.discovery.min-peers", "reporter.tchannel.host-port",
     "none", "true", "false", "tls", "mine", "provisioned", "memory",
     "allInOne", "ZeroRedundancy", "SingleRedundancy", "About",
     "LogOut"} \subseteq STRING

Sections == {"allInOne", "collector", "query", "agent", "ingester",
             "storage", "ingress"}
Option == [flag : STRING, colons : Nat, text : STRING]
Opt(flag, text) == [flag |-> flag, colons |-> 0, text |-> text]
Colon(o) == [o EXCEPT !.colons = @ + 1]
Rename(o, flag) == [o EXCEPT !.flag = flag]

Names(opts) == {o.flag : o \in opts}
Named(opts, flag) == {o \in opts : o.flag = flag}
Without(opts, flags) == {o \in opts : o.flag \notin flags}
(* Flags are set: they replace the options of the same name.               *)
Put(opts, new) == new \cup Without(opts, Names(new))
(* What NewOptions makes of a section has no nested objects any more.      *)
Flat(nested, sections) ==
    [s \in Sections |-> IF s \in sections THEN {} ELSE nested[s]]
IsTrue(opts, flag) == \E o \in opts : o.flag = flag /\ o.text = "true"

-----------------------------------------------------------------------------
(* migrateDeprecatedOptions.  renamed holds pairs of a deprecated flag and *)
(* its new name, NoFlag when there is none.  The value of the deprecated   *)
(* flag wins when both are there.  No map has a flag on both sides, or a   *)
(* new name twice, so the order of its entries does not matter.            *)
NoFlag == "none"
Deprecated(renamed) == {r[1] : r \in renamed}
migrateDeprecatedOptions(opts, renamed) ==
    LET moved(r) == {Rename(o, r[2]) : o \in Named(opts, r[1])}
        kept == {r \in renamed : r[2] # NoFlag}
    IN  Put(Without(opts, Deprecated(renamed)), UNION {moved(r) : r \in kept})

(* Mutant: the sections in front of the storage are migrated, it is not.   *)
migrateAllButStorage(spec, renamed) ==
    [spec EXCEPT !.opts = [s \in Sections |->
        IF s \in {"ingress", "storage"} THEN @[s]
        ELSE migrateDeprecatedOptions(@[s], renamed)]]

migrateAllDeprecatedOptions(spec, renamed) ==
    [spec EXCEPT !.opts = [s \in Sections |->
        IF s = "ingress" THEN @[s]
        ELSE migrateDeprecatedOptions(@[s], renamed)]]

flags1_15_0 ==
    {<<"collector.grpc.tls.client.ca", "collector.grpc.tls.client-ca">>,
     <<"collector.host-port", "reporter.tchannel.host-port">>,
     <<"discovery.conn-check-timeout",
       "reporter.tchannel.discovery.conn-check-timeout">>,
     <<"discovery.min-peers", "reporter.tchannel.discovery.min-peers">>,
     <<"health-check-http-port", "admin-http-port">>,
     <<"cassandra-archive.enable-dependencies-v2", NoFlag>>,
     <<"cassandra.enable-dependencies-v2", NoFlag>>}
upgrade1_15_0(spec) == migrateAllDeprecatedOptions(spec, flags1_15_0)

(* Kafka with authentication "tls" needs the flag that turns TLS on.       *)
upgrade1_17_0MigrateKafkaTLS(opts) ==
    LET tls(auth, enabled) == {Opt(enabled, "true") :
                                 o \in {o \in Named(opts, auth) :
                                          o.text = "tls"}}
    IN  Put(opts, tls("kafka.consumer.authentication",
                      "kafka.consumer.tls.enabled")
                  \cup tls("kafka.producer.authentication",
                           "kafka.producer.tls.enabled"))

tlsFlags1_17_0 ==
    {<<"collector.grpc.tls", "collector.grpc.tls.enabled">>,
     <<"reporter.grpc.tls", "reporter.grpc.tls.enabled">>,
     <<"es.tls", "es.tls.enabled">>,
     <<"es-archive.tls", "es-archive.tls.enabled">>,
     <<"cassandra.tls", "cassandra.tls.enabled">>,
     <<"cassandra-archive.tls", "cassandra-archive.tls.enabled">>,
     <<"kafka.consumer.tls", "kafka.consumer.tls.enabled">>,
     <<"kafka.producer.tls", "kafka.producer.tls.enabled">>}
upgrade1_17_0(spec) ==
    [migrateAllDeprecatedOptions(spec, tlsFlags1_17_0) EXCEPT
       !.opts["collector"] = upgrade1_17_0MigrateKafkaTLS(@),
       !.opts["ingester"] = upgrade1_17_0MigrateKafkaTLS(@),
       !.opts["storage"] = upgrade1_17_0MigrateKafkaTLS(@)]

collectorDeprecatedFlags ==
    {<<"collector.port", "collector.tchan-server.host-port">>,
     <<"collector.http-port", "collector.http-server.host-port">>,
     <<"collector.grpc-port", "collector.grpc-server.host-port">>,
     <<"collector.zipkin.http-port", "collector.zipkin.host-port">>,
     <<"admin-http-port", "admin.http.host-port">>}

(* Every new flag that is there gets a colon, renamed just now or not.     *)
transformCollectorPorts(opts) ==
    {IF \E r \in collectorDeprecatedFlags : o.flag = r[2] THEN Colon(o)
     ELSE o : o \in opts}

migrateCollectorOptions(opts) ==
    transformCollectorPorts(
        migrateDeprecatedOptions(opts, collectorDeprecatedFlags))

agentDeprecatedFlags ==
    {"collector.host-port", "reporter.tchannel.discovery.conn-check-timeout",
     "reporter.tchannel.discovery.min-peers", "reporter.tchannel.host-port",
     "reporter.tchannel.report-timeout"}
migrateAgentOptions(opts) == Without(opts, agentDeprecatedFlags)

upgrade1_18_0(spec) ==
    [spec EXCEPT !.opts["collector"] = migrateCollectorOptions(@),
                 !.opts["agent"] = migrateAgentOptions(@)]

flags1_20_0 == {<<"es.max-num-spans", "es.max-doc-count">>,
                <<"es-archive.max-num-spans", "es-archive.max-doc-count">>}
upgrade1_20_0(spec) == migrateAllDeprecatedOptions(spec, flags1_20_0)

(* The flag is inverted; a value that does not parse counts as false.      *)
updateCassandraVerifyHostFlagv1_22_0(opts) ==
    LET old == "cassandra.tls.verify-host"
        skip == {Opt("cassandra.tls.skip-host-verify", "true") :
                   o \in {o \in Named(opts, old) : o.text # "true"}}
    IN  Put(Without(opts, {old}), skip)

(* One port becomes the two of gRPC and HTTP; each keeps its own value if  *)
(* it has one already.                                                     *)
queryServers == {"query.grpc-server.host-port", "query.http-server.host-port"}
migrateQueryHostPortFlagsv1_22_0(opts) ==
    LET port == {Colon(o) : o \in Named(opts, "query.port")}
        used == IF port # {} THEN port ELSE Named(opts, "query.host-port")
        both == {Rename(o, server) : o \in used, server \in queryServers}
    IN  Put(both, Without(opts, {"query.port", "query.host-port"}))

upgrade1_22_0(spec) ==
    LET tags(new) == {<<"jaeger.tags", new>>}
        downsampling == {<<"downsampling.hashsalt", NoFlag>>,
                         <<"downsampling.ratio", NoFlag>>}
    IN  [spec EXCEPT
           !.opts["allInOne"] =
                migrateDeprecatedOptions(@, tags("collector.tags")),
           !.opts["collector"] = updateCassandraVerifyHostFlagv1_22_0(
                migrateDeprecatedOptions(@, tags("collector.tags"))),
           !.opts["agent"] = migrateDeprecatedOptions(@, tags("agent.tags")),
           !.opts["query"] = migrateQueryHostPortFlagsv1_22_0(
                migrateDeprecatedOptions(@, downsampling)),
           !.opts["storage"] = updateCassandraVerifyHostFlagv1_22_0(@),
           !.opts["ingress"] = updateCassandraVerifyHostFlagv1_22_0(@)]

(* A blank SAR keeps normalize from filling in the default one.            *)
upgrade1_28_0(spec) ==
    [spec EXCEPT !.sar = IF @ = "nil" THEN "blank" ELSE @]

(* ShouldInjectOpenShiftElasticsearchConfiguration.                        *)
ShouldInject(spec) ==
    /\ spec.storage = "elasticsearch"
    /\ "es.server-urls" \notin Names(spec.opts["storage"])

-----------------------------------------------------------------------------
(* ManagedInstance: the routines after the version of the instance, in the *)
(* order of semanticVersions.  The instance is left alone below 1.11.0 and *)
(* above Latest.  That of 1.31.0 changes no option: it deletes the         *)
(* Elasticsearch (RemovesElasticsearch) and is the only one that can fail. *)
Due(spec, v) == spec.ver < v /\ v <= Latest
Upgradable(spec) == spec.ver >= 11 /\ spec.ver <= Latest
RemovesElasticsearch(spec) ==
    Upgradable(spec) /\ Due(spec, 31) /\ ShouldInject(spec)

upgrades(spec) ==
    LET run(v, j, upgraded) == IF Due(spec, v) THEN upgraded ELSE j
        j15 == run(15, spec, upgrade1_15_0(spec))
        j17 == run(17, j15, upgrade1_17_0(j15))
        j18 == run(18, j17, upgrade1_18_0(j17))
        j20 == run(20, j18, upgrade1_20_0(j18))
        j22 == run(22, j20, upgrade1_22_0(j20))
    IN  run(28, j22, upgrade1_28_0(j22))

(* The sections that these routines write anew, changed or not.            *)
Rewritten(spec) ==
    {s \in Sections :
        \/ s # "ingress" /\ \E v \in {15, 17, 20} : Due(spec, v)
        \/ s \in {"collector", "agent"} /\ Due(spec, 18)
        \/ s # "ingester" /\ Due(spec, 22)}

ManagedInstance(spec) ==
    IF Upgradable(spec)
    THEN [upgrades(spec) EXCEPT !.ver = Latest,
                                !.nested = Flat(@, Rewritten(spec))]
    ELSE spec
=============================================================================
