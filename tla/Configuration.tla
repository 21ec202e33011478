--------------------------- MODULE Configuration ----------------------------
(***************************************************************************)
(* The detection of the cluster, the normalisation and the upgrade of one  *)
(* instance, put together: the operator starts, detects, upgrades what is  *)
(* there, and then reconciles while the detection goes on beside it.       *)
(*                                                                         *)
(* JaegerReconcile has the writers of the CR in all their interleavings,   *)
(* and abstracts what they write; here there is one operator and one user, *)
(* and the content of the CR is what normalize and the routines make of    *)
(* it.  A step of a pass is what happens from one read of the shared       *)
(* configuration, or one call that others can see, to the next.            *)
(***************************************************************************)
EXTENDS Autodetect, Strategy

CONSTANTS
    Instances,   \* the CRs the operator may find
    Edits,       \* what the user may do to the CR: see Edited
    Group(_)     \* the first part of the name of a flag: the key of the
                 \* nested object that it may be written in

ASSUME ConfigurationAssumption ==
    /\ Instances \subseteq Instance
    /\ Edits \subseteq [what : {"storage", "access"}, nested : BOOLEAN]

VARIABLES
    cr,        \* the stored CR
    given,     \* the CR at the beginning, and
    asked,     \* the CR as the user last wrote it, kept for the properties
    astray,    \* the patch of the start has met other options: likewise
    op,        \* the operator: its step, its copies, what it rendered
    objs,      \* the objects of the instance in the cluster
    pending,   \* the work queue holds the request
    fresh      \* nothing that a pass reads has changed since the last began

detection == <<cluster, flags, config, detector>>
bounds == <<faults, events>>
wishes == <<given, asked, astray>>
vars == <<detection, bounds, cr, wishes, op, objs, pending, fresh>>

NoManifest == [exposure |-> "none", proxy |-> FALSE, es |-> FALSE,
               kafka |-> FALSE, jobs |-> {}, deployments |-> {}]
(* An operator without local variables (given stands for no copy at all).  *)
OperatorAt(step) == [pc |-> step, orig |-> given, inst |-> given,
                     str |-> NoManifest]

Init ==
    /\ AutodetectInit
    /\ cr \in Instances
    /\ given = cr
    /\ asked = cr
    /\ astray = FALSE
    /\ op = OperatorAt("detecting")
    /\ objs = [route |-> FALSE, ingress |-> FALSE, proxy |-> FALSE,
               es |-> cr.ver # 0 /\ ProvisionsElasticsearch(cr),
               kafka |-> FALSE, jobs |-> {}, deployments |-> {}]
    /\ pending = FALSE
    /\ fresh = TRUE

(* What the passes read: the viper keys and the getters of the detection.  *)
CronJobsVersion == IF config.cronjobs = "batch/v1beta1" THEN "batch/v1beta1"
                   ELSE "batch/v1"
Seen == <<GetPlatform, IsESOperatorIntegrationEnabled,
          IsKafkaOperatorIntegrationEnabled, CronJobsVersion>>

-----------------------------------------------------------------------------
(* The admission webhook of the CR.  A section with a flag of TLS and      *)
(* without any "tls.enabled" gets one, for the first prefix that the       *)
(* iteration over the map meets.  The code has regular expressions; the    *)
(* table has what they find among the flags that the modules know.         *)
TLSFlags ==
    {<<"es.tls", "es.tls.enabled">>, <<"es.tls.ca", "es.tls.enabled">>,
     <<"es.tls.skip-host-verify", "es.tls.enabled">>,
     <<"es-archive.tls", "es-archive.tls.enabled">>,
     <<"cassandra.tls", "cassandra.tls.enabled">>,
     <<"cassandra.tls.verify-host", "cassandra.tls.enabled">>,
     <<"cassandra.tls.skip-host-verify", "cassandra.tls.enabled">>,
     <<"collector.grpc.tls.client.ca", "collector.grpc.tls.enabled">>,
     <<"collector.grpc.tls.client-ca", "collector.grpc.tls.enabled">>}
EnabledFlags == {t[2] : t \in TLSFlags} \cup {"kafka.producer.tls.enabled",
                                             "kafka.consumer.tls.enabled"}

getAdditionalTLSFlags(opts) ==
    IF Names(opts) \cap EnabledFlags # {} THEN {}
    ELSE {t[2] : t \in {t \in TLSFlags : t[1] \in Names(opts)}}

Default(spec) ==
    LET more == [s \in Sections |->
                    IF s = "ingress" THEN {}
                    ELSE getAdditionalTLSFlags(spec.opts[s])]
        incomplete == {s \in Sections : more[s] # {}}
        picks == {p \in [incomplete -> UNION {more[s] : s \in incomplete}] :
                    \A s \in incomplete : p[s] \in more[s]}
    IN  {[spec EXCEPT !.opts = [s \in Sections |->
                          IF s \in incomplete THEN @[s] \cup {Opt(p[s], "true")}
                          ELSE @[s]],
                       !.nested = Flat(@, incomplete)] : p \in picks}

(* A write of the CR; one that changes nothing sends no event.             *)
Write(spec) ==
    /\ cr' = spec
    /\ pending' = (pending \/ spec # cr)

-----------------------------------------------------------------------------
(* The start.  The first cycle of the detection comes before anything else,*)
(* then ManagedInstances, then the controllers.                            *)
StartControllers ==
    /\ op' = OperatorAt("idle")
    /\ pending' = TRUE

(* The routine of 1.31.0 deletes the Elasticsearch.  That there is none is *)
(* no error; that the cluster does not know the kind is one, and so is a   *)
(* call that fails.                                                        *)
CanRemoveElasticsearch(spec) ==
    RemovesElasticsearch(spec) => ElasticsearchAPI \in cluster.apis
RemovalFails(spec) ==
    \/ RemovesElasticsearch(spec) /\ Fails
    \/ ~CanRemoveElasticsearch(spec) /\ Succeeds

StartupList ==
    /\ op.pc = "detecting" /\ At("wait")
    /\ UNCHANGED <<detection, cr, wishes, fresh>>
    /\ \/ /\ Upgradable(cr) /\ Succeeds
          /\ CanRemoveElasticsearch(cr)
          /\ op' = [op EXCEPT !.pc = "startupPatch", !.orig = cr,
                              !.inst = ManagedInstance(cr)]
          /\ objs' = [objs EXCEPT !.es = @ /\ ~RemovesElasticsearch(cr)]
          /\ UNCHANGED pending
       \/ ~Upgradable(cr) /\ Succeeds /\ StartControllers /\ UNCHANGED objs
       \/ /\ Upgradable(cr)
          /\ RemovalFails(cr)
          /\ StartControllers /\ UNCHANGED objs

(* The key of the options of a section that a flag is stored under.        *)
Key(spec, s, flag) == IF flag \in spec.nested[s] THEN Group(flag) ELSE flag

(* The merge patch is the difference of two JSON objects, key by key.  In  *)
(* a section that a routine has written anew the nested objects of the     *)
(* listed copy are keys that are gone: the patch removes them with all     *)
(* that is in them by now, and sets the flags it knows.                    *)
Patched(spec, from, to) ==
    LET same(s) == {o \in from.opts[s] \cap to.opts[s] :
                      Key(from, s, o.flag) = Key(to, s, o.flag)}
        set(s) == to.opts[s] \ same(s)
        keys(s) == {Key(from, s, o.flag) : o \in from.opts[s] \ same(s)}
                      \cup Names(set(s))
        left(s) == {o \in spec.opts[s] : Key(spec, s, o.flag) \notin keys(s)}
    IN  [spec EXCEPT
           !.sar = IF to.sar # from.sar THEN to.sar ELSE @,
           !.opts = [s \in Sections |-> Put(left(s), set(s))],
           !.nested = [s \in Sections |->
              {f \in @[s] : Group(f) \notin keys(s) /\ f \notin Names(set(s))}]]

(* The options as the patch should leave them: flag by flag, what the      *)
(* routines have changed is changed and all else is as it is by now.       *)
Merged(spec, from, to) ==
    [s \in Sections |->
        LET old == from.opts[s]
            new == to.opts[s]
        IN  Put(Without(spec.opts[s], Names(old) \ Names(new)), new \ old)]

(* The patch passes the webhook, which this process will only serve once   *)
(* it is up: it is refused unless another pod of the operator is still     *)
(* there.  The version follows in a patch of its own.                      *)
StartupPatch ==
    /\ op.pc = "startupPatch"
    /\ \/ /\ cr' \in Default(Patched(cr, op.orig, op.inst))
          /\ astray' = (astray \/ Patched(cr, op.orig, op.inst).opts
                                    # Merged(cr, op.orig, op.inst))
          /\ op' = [op EXCEPT !.pc = "startupStatus"]
          /\ UNCHANGED pending
       \/ StartControllers /\ UNCHANGED <<cr, astray>>
    /\ UNCHANGED <<detection, bounds, given, asked, objs, fresh>>

StartupStatusPatch ==
    /\ op.pc = "startupStatus"
    /\ \/ Succeeds /\ cr' = [cr EXCEPT !.ver = op.inst.ver]
       \/ Fails /\ UNCHANGED cr
    /\ StartControllers
    /\ UNCHANGED <<detection, wishes, objs, fresh>>

-----------------------------------------------------------------------------
(* A pass: Reconcile, which strategy.For and apply are parts of.           *)

Goto(pc) == op' = [op EXCEPT !.pc = pc]
Return == op' = OperatorAt("idle")
Requeue == Return /\ pending' = TRUE
Keep(stored) == UNCHANGED <<detection, wishes, stored>>

(* The pass reads the CR, and the platform for the security.  The clusters *)
(* that fresh is about are those from here on.                             *)
ReconcileGet ==
    /\ op.pc = "idle" /\ pending
    /\ op' = [pc |-> "sar", orig |-> cr, str |-> NoManifest,
              inst |-> normalizeSecurity(normalizeTypes(cr), GetPlatform)]
    /\ pending' = FALSE
    /\ fresh' = TRUE
    /\ UNCHANGED <<detection, bounds, cr, wishes, objs>>

NormalizeRest ==
    /\ op.pc = "sar"
    /\ op' = [op EXCEPT !.pc = "exposure",
                 !.inst = normalizeStorage(normalizeSAR(@, GetPlatform))]
    /\ UNCHANGED <<detection, bounds, cr, wishes, objs, pending, fresh>>

(* The strategy is built of the instance, with the brokers of the Kafka    *)
(* that it provisions.                                                     *)
newStrategy ==
    /\ op.pc = "exposure"
    /\ LET inst == strategyKafka(op.inst)
       IN  op' = [op EXCEPT !.pc = "cronjobs", !.inst = inst,
                            !.str = For(inst, GetPlatform)]
    /\ UNCHANGED <<detection, bounds, cr, wishes, objs, pending, fresh>>

(* The names of the cron jobs built so far.                                *)
Jobs(jobs) == {j.job : j \in jobs}

(* CreateSparkDependencies, CreateEsIndexCleaner and CreateRollover: each  *)
(* reads for itself which version of a cron job it has to build.           *)
CreateCronJob ==
    LET jobs == op.str.jobs
        missing == CronJobs(op.inst) \ Jobs(jobs)
        next == IF "spark" \in missing THEN "spark"
                ELSE IF "cleaner" \in missing THEN "cleaner" ELSE "rollover"
    IN  /\ op.pc = "cronjobs"
        /\ IF missing = {} THEN Goto("provision")
           ELSE op' = [op EXCEPT !.str.jobs = @ \cup
                          {[job |-> next, version |-> CronJobsVersion]}]
        /\ UNCHANGED <<detection, bounds, cr, wishes, objs, pending,
                       fresh>>

(* A process that stops: what it knew is gone, what it did stays.          *)
Exit ==
    /\ op' = OperatorAt("detecting")
    /\ config' = FromFlags(flags)
    /\ detector' = NewBackground
    /\ pending' = FALSE
    /\ fresh' = TRUE
    /\ UNCHANGED <<cluster, flags, cr, wishes, objs>>

(* The pods of the jobs that need the certificates are taken out of the    *)
(* jobs by a type assertion, for the version that is configured by now: a  *)
(* job of the other version is a panic, and nothing recovers it.           *)
autoProvisionElasticsearch ==
    LET panics == /\ ProvisionsElasticsearch(op.inst)
                  /\ \E j \in op.str.jobs : j.job \in {"cleaner", "rollover"}
                                             /\ j.version # CronJobsVersion
    IN  /\ op.pc = "provision"
        /\ Succeeds
        /\ \/ panics /\ Exit
           \/ ~panics /\ Goto("upgrade") /\ Keep(<<cr, objs, pending>>)
                /\ UNCHANGED fresh

(* applyUpgrades.  The manifests are those of the instance before it.      *)
applyUpgrades ==
    LET due == op.inst.ver \notin {0, Latest}
        removes == due /\ RemovesElasticsearch(op.inst)
        upgraded == IF due THEN ManagedInstance(op.inst) ELSE op.inst
    IN  /\ op.pc = "upgrade"
        /\ \/ /\ Succeeds
              /\ due => CanRemoveElasticsearch(op.inst)
              /\ op' = [op EXCEPT !.pc = "elasticsearches",
                           !.inst = [upgraded EXCEPT !.ver = Latest]]
              /\ objs' = [objs EXCEPT !.es = @ /\ ~removes]
              /\ UNCHANGED pending
           \/ due /\ RemovalFails(op.inst) /\ Requeue /\ UNCHANGED objs
        /\ Keep(<<cr, fresh>>)

(* A stage that is switched on lists its objects, needed or not: it fails  *)
(* when the cluster does not know the kind.                                *)
Stage(on, served, done, next) ==
    /\ Succeeds
    /\ \/ ~on /\ Goto(next) /\ UNCHANGED <<objs, pending>>
       \/ on /\ served /\ Goto(next) /\ objs' = done /\ UNCHANGED pending
       \/ on /\ ~served /\ Requeue /\ UNCHANGED objs
    /\ Keep(<<cr, fresh>>)

applyElasticsearches ==
    /\ op.pc = "elasticsearches"
    /\ Stage(IsESOperatorIntegrationEnabled,
             ElasticsearchAPI \in cluster.apis,
             [objs EXCEPT !.es = op.str.es], "kafkas")

applyKafkas ==
    /\ op.pc = "kafkas"
    /\ Stage(IsKafkaOperatorIntegrationEnabled, KafkaAPI \in cluster.apis,
             [objs EXCEPT !.kafka = op.str.kafka], "applyCronJobs")

(* Mutant: the objects are listed as batch/v1 whatever was detected.       *)
applyCronJobsV1 ==
    /\ op.pc = "applyCronJobs"
    /\ Stage(TRUE, "batch/v1" \in cluster.batch,
             [objs EXCEPT !.jobs = Jobs(op.str.jobs)], "deployments")

(* The version is read once more, and the jobs of another one panic.       *)
applyCronJobs ==
    LET jobs == op.str.jobs
        served == CronJobsVersion \in cluster.batch
        panics == served /\ \E j \in jobs : j.version # CronJobsVersion
    IN  /\ op.pc = "applyCronJobs"
        /\ \/ panics /\ Exit /\ Succeeds
           \/ /\ ~panics
              /\ Stage(TRUE, served, [objs EXCEPT !.jobs = Jobs(jobs)],
                       "deployments")

applyDeployments ==
    /\ op.pc = "deployments"
    /\ Stage(TRUE, TRUE, [objs EXCEPT !.deployments = op.str.deployments,
                                      !.proxy = op.str.proxy], "expose")

(* applyRoutes or applyIngresses; the objects of the other kind stay.      *)
applyExposure ==
    /\ op.pc = "expose"
    /\ Stage(TRUE, GetPlatform = "openshift" => OpenShiftAPI \in cluster.apis,
             IF GetPlatform = "openshift"
             THEN [objs EXCEPT !.route = op.str.exposure = "route"]
             ELSE [objs EXCEPT !.ingress = op.str.exposure = "ingress"],
             "store")

(* The maps of the labels are shared by the instance and its original: a   *)
(* label that was removed is no difference.                                *)
Same(i, j) == [i EXCEPT !.labels = {}] = [j EXCEPT !.labels = {}]

(* Mutant: the original is the instance itself.                            *)
StoreNothing ==
    /\ op.pc = "store"
    /\ Goto("status")
    /\ UNCHANGED <<detection, bounds, cr, wishes, objs, pending, fresh>>

StoreInstance ==
    /\ op.pc = "store"
    /\ \/ /\ Same(op.inst, op.orig)
          /\ Goto("status")
          /\ UNCHANGED <<cr, pending>>
       \/ /\ ~Same(op.inst, op.orig) /\ cr = op.orig
          /\ \E spec \in Default([op.inst EXCEPT !.ver = cr.ver]) :
                /\ Write(spec)
                /\ op' = [op EXCEPT !.pc = "status", !.orig = spec]
       \/ ~Same(op.inst, op.orig) /\ cr # op.orig /\ Requeue /\ UNCHANGED cr
    /\ UNCHANGED <<detection, bounds, wishes, objs, fresh>>

StoreStatus ==
    /\ op.pc = "status"
    /\ \/ op.inst.ver = op.orig.ver /\ Return /\ UNCHANGED <<cr, pending>>
       \/ /\ op.inst.ver # op.orig.ver /\ cr = op.orig
          /\ Write([cr EXCEPT !.ver = op.inst.ver])
          /\ Return
       \/ op.inst.ver # op.orig.ver /\ cr # op.orig /\ Requeue /\ UNCHANGED cr
    /\ UNCHANGED <<detection, bounds, wishes, objs, fresh>>

Reconcile ==
    \/ ReconcileGet \/ NormalizeRest \/ newStrategy \/ CreateCronJob
    \/ autoProvisionElasticsearch \/ applyUpgrades \/ applyElasticsearches
    \/ applyKafkas \/ applyCronJobs \/ applyDeployments \/ applyExposure
    \/ StoreInstance \/ StoreStatus

-----------------------------------------------------------------------------
(* The surroundings.                                                       *)

(* The background of the detection; its ticker starts with the first cycle.*)
Background ==
    /\ Detect \/ (op.pc # "detecting" /\ Tick)
    /\ fresh' = (fresh /\ Seen' = Seen)
    /\ UNCHANGED <<cr, wishes, op, objs, pending>>

(* Objects go with the definition of their kind.                           *)
Environment ==
    /\ ClusterChange
    /\ objs' = [objs EXCEPT !.es = @ /\ ElasticsearchAPI \in cluster'.apis,
                            !.kafka = @ /\ KafkaAPI \in cluster'.apis]
    /\ fresh' = FALSE
    /\ UNCHANGED <<cr, wishes, op, pending>>

(* A flag that is there is edited in its place, a new one is written flat  *)
(* or in a nested object.                                                  *)
Edited(spec, edit) ==
    LET mine(s, flag) == Put(spec.opts[s], {Opt(flag, "mine")})
        form(s, flag) ==
            IF edit.nested /\ flag \notin Names(spec.opts[s])
            THEN spec.nested[s] \cup {flag} ELSE spec.nested[s]
    IN  CASE edit.what = "storage" ->
               [spec EXCEPT
                  !.opts["storage"] = mine("storage", "es.server-urls"),
                  !.nested["storage"] = form("storage", "es.server-urls")]
          [] edit.what = "access" ->
               [spec EXCEPT !.security = "none",
                  !.opts["collector"] =
                      mine("collector", "kafka.producer.brokers"),
                  !.opts["ingester"] =
                      mine("ingester", "kafka.consumer.brokers"),
                  !.nested["collector"] =
                      form("collector", "kafka.producer.brokers"),
                  !.nested["ingester"] =
                      form("ingester", "kafka.consumer.brokers")]

UserEdit ==
    /\ Event
    /\ \E edit \in Edits : \E spec \in Default(Edited(cr, edit)) :
          /\ spec # cr
          /\ Write(spec)
          /\ asked' = spec
    /\ UNCHANGED <<detection, given, astray, op, objs, fresh>>

Crash == Event /\ Exit

(* The main goroutine, then the worker of the controller.                  *)
Operator == StartupList \/ StartupPatch \/ StartupStatusPatch \/ Reconcile

Next == Operator \/ Background \/ Environment \/ UserEdit \/ Crash

(* The goroutine of the ticker and that of the operator run whenever they  *)
(* can; nobody else has to do anything.                                    *)
Spec ==
    /\ Init /\ [][Next]_vars
    /\ WF_vars(Operator)
    /\ WF_vars(Background)

-----------------------------------------------------------------------------
(* Type invariant.                                                         *)
OperatorSteps == {"detecting", "startupPatch", "startupStatus", "idle", "sar",
                  "exposure", "cronjobs", "provision", "upgrade",
                  "elasticsearches", "kafkas", "applyCronJobs", "deployments",
                  "expose", "store", "status"}
Manifests == [exposure : {"none", "route", "ingress"}, proxy : BOOLEAN,
              es : BOOLEAN, kafka : BOOLEAN,
              jobs : SUBSET [job : AllJobs, version : BatchVersions],
              deployments : SUBSET AllDeployments]
TypeOK ==
    /\ AutodetectTypeOK
    /\ {cr, given, asked} \subseteq Instance
    /\ op \in [pc : OperatorSteps, orig : Instance, inst : Instance,
              str : Manifests]
    /\ objs \in [route : BOOLEAN, ingress : BOOLEAN, proxy : BOOLEAN,
                 es : BOOLEAN, kafka : BOOLEAN,
                 jobs : SUBSET AllJobs, deployments : SUBSET AllDeployments]
    /\ pending \in BOOLEAN
    /\ {astray, fresh} \subseteq BOOLEAN

Quiet == op.pc = "idle" /\ ~pending

(* When the queue is empty and nothing has changed under the last pass, the*)
(* stored CR is a fixed point of normalize and of the strategy, at the     *)
(* version of the operator, and the objects are those of this CR, although *)
(* they are rendered before the upgrade and with several reads of a        *)
(* configuration that is being written (Reconcile, "what is stored         *)
(* reflects what is being used").                                          *)
QuietMeansNormalized ==
    Quiet /\ fresh =>
        /\ cr.ver = Latest
        /\ Same(strategyKafka(normalize(cr, GetPlatform)), cr)
        /\ objs.deployments = For(cr, GetPlatform).deployments
        /\ objs.proxy = OAuthProxy(cr)
        /\ objs.jobs = CronJobs(cr)
        /\ IsESOperatorIntegrationEnabled =>
             objs.es = ProvisionsElasticsearch(cr)
        /\ IsKafkaOperatorIntegrationEnabled =>
             objs.kafka = ProvisionsKafka(cr)
        /\ IF GetPlatform = "openshift" THEN objs.route = cr.ingress
           ELSE objs.ingress = cr.ingress

(* The flags that a routine renames: its version, the sections, the names. *)
Renamed ==
    LET all == Sections \ {"ingress"}
    IN  {<<15, all, "collector.grpc.tls.client.ca",
                    "collector.grpc.tls.client-ca">>,
         <<15, {"collector"}, "health-check-http-port",
                              "admin.http.host-port">>,
         <<15, {"query"}, "health-check-http-port", "admin-http-port">>,
         <<17, all, "es.tls", "es.tls.enabled">>,
         <<18, {"collector"}, "collector.port",
                              "collector.tchan-server.host-port">>,
         <<20, all, "es.max-num-spans", "es.max-doc-count">>,
         <<22, {"query"}, "query.port", "query.grpc-server.host-port">>,
         <<22, {"query"}, "query.port", "query.http-server.host-port">>,
         <<22, {"agent"}, "jaeger.tags", "agent.tags">>,
         <<22, {"allInOne", "collector"}, "jaeger.tags", "collector.tags">>}

(* An instance that carries the version of the operator has the flags of   *)
(* that version, with the values that the user gave them under their old   *)
(* names (a server of the query that has a value of its own keeps it):     *)
(* whether the start upgraded it or a pass, whether the webhook had        *)
(* completed a flag before, and whatever stopped in the middle.  The one   *)
(* exception is a patch of the start that no longer finds the options in   *)
(* the form it has listed, and so leaves the old names in place.           *)
Texts(opts, flag) == {o.text : o \in Named(opts, flag)}
FlagsMigrated ==
    cr.ver = Latest /\ given.ver >= 11 /\ ~astray =>
        \A r \in Renamed : \A s \in r[2] :
            LET old == given.opts[s]
                new == cr.opts[s]
                own == r[4] \in queryServers \cap Names(old)
            IN  given.ver < r[1] /\ r[3] \in Names(old) =>
                    /\ r[3] \notin Names(new)
                    /\ Texts(new, r[4]) = Texts(old, IF own THEN r[4] ELSE r[3])

(* An Elasticsearch of the user's own is not exchanged for one that the    *)
(* operator provisions.  The changelog says so of the upgrade ("Fix        *)
(* override storage and ingress values when upgrade to 1.22"); by itself   *)
(* it does not hold, see Patched.                                          *)
StorageKept ==
    "es.server-urls" \in Names(asked.opts["storage"]) => ~ShouldInject(cr)

(* What the user has set is never replaced by a default, by a routine, by  *)
(* the self-provisioning of Kafka or by a copy that was read before: the   *)
(* explicit values of the CR the user last wrote are those of the CR.  The *)
(* one exception are options that the patch of the start removes with the  *)
(* nested object they were written in, after the start had listed the CR.  *)
ChoicesKept ==
    /\ asked.security = "none" => cr.security = "none"
    /\ asked.sar # "nil" => cr.sar = asked.sar
    /\ asked.deps # "nil" => cr.deps = asked.deps
    /\ asked.cleaner # "nil" => cr.cleaner = asked.cleaner
    /\ asked.nodes # 0 => cr.nodes = asked.nodes
    /\ IsRestriction(asked.ui.menu, cr.ui.menu)
    /\ ~astray => StorageKept
    /\ LET brokers(spec) ==
               Named(spec.opts["collector"], "kafka.producer.brokers")
       IN  brokers(asked) # {} /\ ~asked.provisioned /\ ~astray =>
               brokers(cr) = brokers(asked)

(* The passes come to an end: normalize, the strategy, the routines and    *)
(* the webhook, each working on what the other wrote, do not send each     *)
(* other round in circles.  A kind that the configuration names and the    *)
(* cluster does not serve is the exception: for cron jobs that is how a    *)
(* failed call of detectCronjobsVersion ends, as it is never made again,   *)
(* and without the kind Elasticsearch the routine of 1.31.0 fails whenever *)
(* it is to delete one.                                                    *)
Served ==
    /\ GetPlatform = "openshift" => OpenShiftAPI \in cluster.apis
    /\ CronJobsVersion \in cluster.batch
    /\ IsESOperatorIntegrationEnabled => ElasticsearchAPI \in cluster.apis
    /\ IsKafkaOperatorIntegrationEnabled => KafkaAPI \in cluster.apis
    /\ CanRemoveElasticsearch(cr)
EventuallyQuiet == <>[]Quiet \/ <>[]~Served

(* A comment of normalize: "we always set the value to None, except when we*)
(* are on OpenShift *and* the user has not explicitly set to 'none'".      *)
(* So the query that is exposed by a route has the proxy in front of it,   *)
(* unless the user has said otherwise.                                     *)
ExposedMeansProtected ==
    Quiet /\ objs.route /\ asked.security # "none" => objs.proxy
=============================================================================
