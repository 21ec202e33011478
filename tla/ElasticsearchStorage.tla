------------------------ MODULE ElasticsearchStorage ------------------------
(***************************************************************************)
(* An instance with an Elasticsearch cluster of the OpenShift operator.    *)
(* Three parties keep it together: a pass of the Jaeger reconciler         *)
(* (certificates, secrets, the Elasticsearch object, the arguments of the  *)
(* deployments), the Elasticsearch controller, which follows the number of *)
(* nodes of that object, and the admission webhook of the CR, which looks  *)
(* it up in the cache.  Users write to the CR and to the object, secrets   *)
(* disappear, certificates expire, calls fail and the operator stops.      *)
(* What the pass does to other objects is in JaegerReconcile and in        *)
(* ApplyResources; the operator integration is on.                         *)
(***************************************************************************)
EXTENDS Certificates, Sequences

CONSTANTS
    Scenarios,   \* the Elasticsearch section of the CR at the beginning,
                 \* the Elasticsearch object, and what happens: "users",
                 \* "certificates", "crash"
    Counts,      \* the numbers of nodes that a user asks for
    MaxEvents,   \* how often something happens around the operator
    MaxFaults    \* how many calls fail

(* The Elasticsearch section of a CR.                                      *)
Policies == {"", "ZeroRedundancy", "SingleRedundancy", "MultipleRedundancy",
             "FullRedundancy"}
Sections == [count : Nat, policy : Policies, doNotProvision : BOOLEAN,
             useCertManagement : BOOLEAN]

(* An Elasticsearch object: is it there, does it carry the labels of the   *)
(* instance, and the numbers of nodes of its groups (the operator makes    *)
(* two at most, masters and others).                                       *)
ESObjects == {o \in [there : BOOLEAN, ours : BOOLEAN, nodes : Seq(Nat)] :
                Len(o.nodes) <= 2}

ASSUME StorageAssumption ==
    /\ Counts \subseteq Nat /\ MaxEvents \in Nat /\ MaxFaults \in Nat
    /\ \A c \in Scenarios : c.section \in Sections /\ c.object \in ESObjects

VARIABLES
    cr,        \* spec.storage.elasticsearch of the stored CR
    es,        \* the stored Elasticsearch object
    cached,    \* that object, as the informer of the operator has it
    secrets,   \* the stored secrets of the certificates, by name
    files,     \* the working directory of the instance in the container
    op,        \* the pass of the Jaeger reconciler
    ec,        \* the pass of the Elasticsearch controller
    queued,    \* the controllers whose queue holds a request
    stale,     \* the copies that somebody has written over since the read:
               \* of the passes, and of the informer
    deployed,  \* the arguments of the deployments: shards and replicas
    issued,    \* how many authorities the script has made
    fresh,     \* no certificate expired, no secret went since the last pass
    torn,      \* the operator stopped between the secrets of two authorities
    happens,   \* what this behaviour is about
    events, faults

bounds == <<happens, events, faults>>
certs == <<secrets, files, issued, torn>>
vars == <<cr, es, cached, op, ec, queued, stale, deployed, fresh, certs,
          bounds>>

NoObject == [there |-> FALSE, ours |-> FALSE, nodes |-> <<>>]
NoSection == [count |-> 0, policy |-> "", doNotProvision |-> FALSE,
              useCertManagement |-> FALSE]
Idle == [pc |-> "idle", orig |-> NoSection, inst |-> NoSection,
         create |-> {}, update |-> {}, listed |-> FALSE]
EsIdle == [pc |-> "idle", count |-> 0, inst |-> NoSection]
(* The copies that a pass has to compare with when it writes.              *)
CopiesOfCR == (IF op.pc = "idle" THEN {} ELSE {"op.cr"}) \cup
              (IF ec.pc = "update" THEN {"ec.cr"} ELSE {})
CopiesOfES == {"cached"} \cup
              (IF op.pc = "applyElasticsearches" THEN {"op.es"} ELSE {})

Event(kind) ==
    /\ kind \in happens
    /\ events < MaxEvents /\ events' = events + 1
    /\ UNCHANGED <<happens, faults>>
Fails ==
    /\ faults < MaxFaults /\ faults' = faults + 1
    /\ UNCHANGED <<happens, events>>
Succeeds == UNCHANGED bounds

-----------------------------------------------------------------------------
(* From the section of the CR to the object and to the arguments.          *)

(* Mutant: an empty count is left as it is.                                *)
normalizeKeepsZero(inst) ==
    [inst EXCEPT !.policy = IF @ = "" THEN "SingleRedundancy" ELSE @]

normalizeElasticsearch(inst) ==
    LET count == IF inst.count = 0 THEN 3 ELSE inst.count
    IN  [inst EXCEPT !.count = count,
            !.policy = IF @ # "" THEN @
                       ELSE IF count = 1 THEN "ZeroRedundancy"
                       ELSE "SingleRedundancy"]

getNodes(inst) ==
    IF inst.count <= 3 THEN <<inst.count>> ELSE <<3, inst.count - 3>>

(* The Elasticsearch object that the instance wants, if any.               *)
Elasticsearch(inst) ==
    IF inst.doNotProvision THEN NoObject
    ELSE [there |-> TRUE, ours |-> TRUE, nodes |-> getNodes(inst)]

OpenShiftElasticsearchNodeCount(nodes) ==
    LET sum[i \in 0..Len(nodes)] == IF i = 0 THEN 0 ELSE sum[i - 1] + nodes[i]
    IN  sum[Len(nodes)]

calculateReplicaShards(policy, dataNodes) ==
    CASE policy = "FullRedundancy" -> dataNodes - 1
      [] policy = "MultipleRedundancy" -> (dataNodes - 1) \div 2
      [] policy = "ZeroRedundancy" -> 0
      [] OTHER -> 1

injectArguments(inst) ==
    [shards |-> inst.count,
     replicas |-> calculateReplicaShards(inst.policy, inst.count)]

-----------------------------------------------------------------------------
(* The webhook, on a write of the CR by the writer w.  An error of the look*)
(* up that is not NotFound leaves an empty object: the count becomes 0.    *)
(* Without an object the write is refused.                                 *)
Admitted(inst) ==
    IF ~inst.doNotProvision THEN inst
    ELSE [inst EXCEPT !.count = OpenShiftElasticsearchNodeCount(cached.nodes)]
Refused(inst) == inst.doNotProvision /\ ~cached.there

Stored(inst) ==
    /\ cr' = inst
    /\ stale' = IF inst = cr THEN stale ELSE stale \cup CopiesOfCR

WriteCR(inst) ==
    \/ ~Refused(inst) /\ Succeeds /\ Stored(Admitted(inst))
    \/ inst.doNotProvision /\ Fails /\ Stored([inst EXCEPT !.count = 0])

(* The request that an event of the CR puts into the queue.                *)
Enqueued(set) == IF cr' = cr THEN set ELSE set \cup {"jaeger"}

-----------------------------------------------------------------------------
(* The pass of the Jaeger reconciler.                                      *)

Goto(pc) == op' = [op EXCEPT !.pc = pc]
Return == op' = Idle
Requeue == Return /\ queued' = queued \cup {"jaeger"}
Outside == UNCHANGED <<es, cached, ec>>

ReconcileGet ==
    /\ op.pc = "idle" /\ "jaeger" \in queued
    /\ op' = [Idle EXCEPT !.pc = "certs", !.orig = cr,
                          !.inst = normalizeElasticsearch(cr)]
    /\ queued' = queued \ {"jaeger"}
    /\ stale' = stale \ {"op.cr"}
    /\ fresh' = TRUE
    /\ UNCHANGED <<cr, deployed, certs, bounds>> /\ Outside

(* Without the certificate management of Elasticsearch, the files are made *)
(* here.  The list of the secrets may fail, and so may the start of the    *)
(* script, after the files have been extracted.                            *)
CreateCerts ==
    LET dir == extractSecretsToFile(files, secrets)
        renewed == NeedsAuthority(dir)
    IN  /\ op.pc = "certs"
        /\ \/ /\ op.inst.useCertManagement /\ Succeeds
              /\ Goto("secrets") /\ UNCHANGED <<files, issued, torn, queued>>
           \/ /\ ~op.inst.useCertManagement /\ Succeeds
              /\ files' = cert_generation(dir, issued + 1)
              /\ issued' = IF renewed THEN issued + 1 ELSE issued
              /\ torn' = (torn /\ ~renewed)
              /\ Goto("secrets") /\ UNCHANGED queued
           \/ /\ ~op.inst.useCertManagement /\ Fails
              /\ files' \in {files, dir}
              /\ Requeue /\ UNCHANGED <<issued, torn>>
        /\ UNCHANGED <<cr, stale, deployed, fresh, secrets>> /\ Outside

(* applySecrets lists, then creates what is missing and updates the rest,  *)
(* in the order of a map.  There is never one to delete: an instance keeps *)
(* its kind of certificates, and without desired secrets none was created. *)
ListSecrets ==
    LET desired == IF op.inst.useCertManagement THEN {} ELSE SecretNames
    IN  /\ op.pc = "secrets"
        /\ op' = [op EXCEPT !.pc = "applySecrets",
                            !.create = desired \ DOMAIN secrets,
                            !.update = desired \cap DOMAIN secrets]
        /\ UNCHANGED <<cr, queued, stale, deployed, fresh, certs, bounds>>
        /\ Outside

applySecrets ==
    LET group == IF op.create # {} THEN op.create ELSE op.update
        refused(s) == op.create = {} /\ s \notin DOMAIN secrets
        write(s) == [n \in DOMAIN secrets \cup {s} |->
                        IF n = s THEN ExtractSecrets(files)[s]
                        ELSE secrets[n]]
    IN  /\ op.pc = "applySecrets"
        /\ \/ group = {} /\ Goto("elasticsearches") /\ Succeeds
                /\ UNCHANGED <<secrets, queued>>
           \/ \E s \in group :
                /\ Succeeds
                /\ \/ ~refused(s) /\ secrets' = write(s) /\ UNCHANGED queued
                        /\ op' = [op EXCEPT !.create = @ \ {s},
                                    !.update = IF op.create = {} THEN @ \ {s}
                                               ELSE @]
                   \/ refused(s) /\ Requeue /\ UNCHANGED secrets
           \/ group # {} /\ Fails /\ Requeue /\ UNCHANGED secrets
        /\ UNCHANGED <<cr, stale, deployed, fresh, files, issued, torn>>
        /\ Outside

(* applyElasticsearches: the object is listed by the label of the instance.*)
ListElasticsearches ==
    /\ op.pc = "elasticsearches"
    /\ op' = [op EXCEPT !.pc = "applyElasticsearches",
                        !.listed = es.there /\ es.ours]
    /\ stale' = stale \ {"op.es"}
    /\ UNCHANGED <<cr, queued, deployed, fresh, certs, bounds>> /\ Outside

WriteES(object) ==
    /\ es' = object
    /\ stale' = IF object = es THEN stale ELSE stale \cup CopiesOfES

(* A created cluster may not come up in time.  An update needs the object  *)
(* as it was listed.  What is not desired any more is deleted.             *)
applyElasticsearches ==
    LET object == Elasticsearch(op.inst)
        desired == object.there
        Done == Goto("deployments") /\ UNCHANGED queued
        Kept == UNCHANGED <<es, stale>>
    IN  /\ op.pc = "applyElasticsearches"
        /\ \/ ~desired /\ ~op.listed /\ Succeeds /\ Done /\ Kept
           \/ desired /\ ~op.listed /\ Succeeds
                /\ \/ ~es.there /\ WriteES(object) /\ Done
                   \/ es.there /\ Kept /\ Requeue
           \/ desired /\ ~op.listed /\ ~es.there /\ Fails
                /\ WriteES(object) /\ Requeue
           \/ desired /\ op.listed /\ Succeeds
                /\ \/ "op.es" \notin stale /\ WriteES(object) /\ Done
                   \/ "op.es" \in stale /\ Kept /\ Requeue
           \/ ~desired /\ op.listed /\ Succeeds
                /\ \/ es.there /\ WriteES(NoObject) /\ Done
                   \/ ~es.there /\ Kept /\ Requeue
           \/ Fails /\ Kept /\ Requeue
        /\ UNCHANGED <<cr, cached, ec, deployed, fresh, certs>>

applyDeployments ==
    /\ op.pc = "deployments"
    /\ \/ Succeeds /\ deployed' = injectArguments(op.inst) /\ Goto("store")
            /\ UNCHANGED queued
       \/ Fails /\ Requeue /\ UNCHANGED deployed
    /\ UNCHANGED <<cr, stale, fresh, certs>> /\ Outside

StoreInstance ==
    /\ op.pc = "store"
    /\ \/ /\ op.inst = op.orig
          /\ Succeeds
          /\ Return
          /\ UNCHANGED <<cr, queued, stale>>
       \/ /\ op.inst # op.orig /\ "op.cr" \notin stale
          /\ WriteCR(op.inst)
          /\ queued' = Enqueued(queued)
          /\ Return
       \/ /\ op.inst # op.orig
          /\ "op.cr" \in stale \/ Refused(op.inst)
          /\ Succeeds
          /\ Requeue
          /\ UNCHANGED <<cr, stale>>
    /\ UNCHANGED <<deployed, fresh, certs>> /\ Outside

Reconcile ==
    \/ ReconcileGet \/ CreateCerts \/ ListSecrets \/ applySecrets
    \/ ListElasticsearches \/ applyElasticsearches \/ applyDeployments
    \/ StoreInstance

-----------------------------------------------------------------------------
(* The Elasticsearch controller: the object, the CRs, the update.          *)
Instance == UNCHANGED <<es, cached, op, deployed, fresh, certs>>

EsGet ==
    /\ ec.pc = "idle" /\ "es" \in queued
    /\ queued' = queued \ {"es"}
    /\ ec' = IF ~es.there THEN ec
             ELSE [ec EXCEPT !.pc = "list",
                     !.count = OpenShiftElasticsearchNodeCount(es.nodes)]
    /\ UNCHANGED <<cr, stale, bounds>> /\ Instance

EsList ==
    /\ ec.pc = "list"
    /\ ec' = IF cr.count = ec.count THEN EsIdle
             ELSE [ec EXCEPT !.pc = "update", !.inst = cr]
    /\ stale' = stale \ {"ec.cr"}
    /\ UNCHANGED <<cr, queued, bounds>> /\ Instance

(* Mutant: the error of the update is logged, not returned.                *)
EsUpdateSwallowsError ==
    LET inst == [ec.inst EXCEPT !.count = ec.count]
        Again == ec' = EsIdle /\ UNCHANGED queued
    IN  /\ ec.pc = "update"
        /\ \/ "ec.cr" \notin stale /\ WriteCR(inst)
                /\ queued' = Enqueued(queued)
                /\ ec' = EsIdle
           \/ Succeeds /\ ("ec.cr" \in stale \/ Refused(inst)) /\ Again
                /\ UNCHANGED <<cr, stale>>
           \/ Fails /\ Again /\ UNCHANGED <<cr, stale>>
        /\ Instance

EsUpdate ==
    LET inst == [ec.inst EXCEPT !.count = ec.count]
        Again == /\ ec' = EsIdle
                 /\ queued' = queued \cup {"es"}
    IN  /\ ec.pc = "update"
        /\ \/ "ec.cr" \notin stale /\ WriteCR(inst)
                /\ queued' = Enqueued(queued)
                /\ ec' = EsIdle
           \/ Succeeds /\ ("ec.cr" \in stale \/ Refused(inst)) /\ Again
                /\ UNCHANGED <<cr, stale>>
           \/ Fails /\ Again /\ UNCHANGED <<cr, stale>>
        /\ Instance

-----------------------------------------------------------------------------
(* The surroundings.                                                       *)

(* The informer catches up with the object and tells the controller.       *)
Deliver ==
    /\ "cached" \in stale
    /\ cached' = es
    /\ stale' = stale \ {"cached"}
    /\ queued' = queued \cup {"es"}
    /\ UNCHANGED <<cr, es, op, ec, deployed, fresh, certs, bounds>>

UserEditsCR ==
    /\ \E count \in Counts, no \in BOOLEAN :
          LET inst == [cr EXCEPT !.count = count, !.doNotProvision = no]
          IN  ~Refused(inst) /\ Admitted(inst) # cr
                /\ Stored(Admitted(inst))
    /\ Event("users")
    /\ queued' = Enqueued(queued)
    /\ UNCHANGED <<op, deployed, fresh, certs>> /\ Outside

(* Somebody scales the object, creates one that is not ours, deletes it.   *)
UserEditsES ==
    /\ Event("users")
    /\ \E object \in {NoObject} \cup
            {[there |-> TRUE, ours |-> es.ours, nodes |-> <<n>>] :
                n \in Counts} :
          object # es /\ WriteES(object)
    /\ UNCHANGED <<cr, cached, op, ec, queued, deployed, fresh, certs>>

SecretLost ==
    /\ Event("certificates")
    /\ \E s \in DOMAIN secrets :
          secrets' = [n \in DOMAIN secrets \ {s} |-> secrets[n]]
    /\ fresh' = FALSE
    /\ UNCHANGED <<cr, op, queued, stale, deployed, files, issued, torn>>
    /\ Outside

(* Time passes: a certificate is due, wherever there is a copy of it.      *)
Expire ==
    /\ Event("certificates")
    /\ \E f \in Files \ {"ca.key"} :
          /\ files[f] # Missing \/ \E s \in DOMAIN secrets :
                                      f \in DOMAIN secrets[s]
          /\ files' = [files EXCEPT ![f] = Expired(files[f])]
          /\ secrets' = [s \in DOMAIN secrets |->
                           [g \in DOMAIN secrets[s] |->
                              IF g = f THEN Expired(secrets[s][g])
                              ELSE secrets[s][g]]]
    /\ fresh' = FALSE
    /\ UNCHANGED <<cr, op, queued, stale, deployed, issued, torn>> /\ Outside

(* The informers send every object again, from time to time.               *)
Resync ==
    /\ ~fresh
    /\ queued' = queued \cup {"jaeger", "es"}
    /\ UNCHANGED <<cr, op, stale, deployed, fresh, certs, bounds>> /\ Outside

OneAuthority ==
    \A s, t \in DOMAIN secrets :
        \A f \in DOMAIN secrets[s], g \in DOMAIN secrets[t] :
            secrets[s][f].by = secrets[t][g].by

(* The container is replaced: its files are gone, its caches are filled    *)
(* anew, and every object is queued.                                       *)
Crash ==
    /\ Event("crash")
    /\ op' = Idle
    /\ ec' = EsIdle
    /\ files' = EmptyDir
    /\ cached' = es
    /\ queued' = {"jaeger", "es"}
    /\ torn' = (torn \/ ~OneAuthority)
    /\ stale' = {}
    /\ UNCHANGED <<cr, es, secrets, issued, deployed, fresh>>

-----------------------------------------------------------------------------
Init ==
    /\ \E scenario \in Scenarios : /\ cr = scenario.section
                                  /\ es = scenario.object
                                  /\ happens = scenario.happens
    /\ cached = es
    /\ secrets = [s \in {} |-> EmptyDir]
    /\ files = EmptyDir
    /\ op = Idle
    /\ ec = EsIdle
    /\ queued = {"jaeger", "es"}
    /\ stale = {}
    /\ deployed = [shards |-> 0, replicas |-> 0]
    /\ issued = 0
    /\ fresh = TRUE
    /\ torn = FALSE
    /\ events = 0
    /\ faults = 0

Next ==
    \/ Reconcile \/ EsGet \/ EsList \/ EsUpdate \/ Deliver
    \/ UserEditsCR \/ UserEditsES \/ SecretLost \/ Expire \/ Resync \/ Crash

Spec == Init /\ [][Next]_vars

-----------------------------------------------------------------------------
(* Type invariant.  A pass works with at least one node: the number of     *)
(* shards is never 0.                                                      *)
TypeOK ==
    /\ cr \in Sections
    /\ es \in ESObjects /\ cached \in ESObjects
    /\ op \in [pc : {"idle", "certs", "secrets", "applySecrets",
                     "elasticsearches", "applyElasticsearches", "deployments",
                     "store"},
              orig : Sections, inst : Sections, create : SUBSET SecretNames,
              update : SUBSET SecretNames, listed : BOOLEAN]
    /\ op.pc # "idle" => op.inst.count > 0
    /\ ec \in [pc : {"idle", "list", "update"}, count : Nat, inst : Sections]
    /\ DOMAIN secrets \subseteq SecretNames
    /\ secrets = [s \in DOMAIN secrets |->
                    [f \in keyFileNameMap(s) |-> secrets[s][f]]]
    /\ \A s \in DOMAIN secrets : \A f \in keyFileNameMap(s) :
           secrets[s][f] \in Copies /\ secrets[s][f] # Missing
    /\ files \in [Files -> Copies]
    /\ queued \subseteq {"jaeger", "es"}
    /\ stale \subseteq {"op.cr", "op.es", "ec.cr", "cached"}
    /\ deployed \in [shards : Nat, replicas : Nat]
    /\ issued \in Nat
    /\ fresh \in BOOLEAN /\ torn \in BOOLEAN
    /\ events \in 0..MaxEvents /\ faults \in 0..MaxFaults

(* After a pass, if nothing expired and no secret went since it began, the *)
(* four secrets are there, all their certificates are valid and signed by  *)
(* the one authority that all of them hold: whatever was lost, expired or  *)
(* failed before (CreateCerts, "this allows operator restarts. The script  *)
(* also re-generates expired certificates").  An operator that stops       *)
(* between the secrets of an old and a new authority is the exception.     *)
SecretsAgree ==
    op.pc = "idle" /\ "jaeger" \notin queued /\ fresh
      /\ ~cr.useCertManagement =>
        /\ DOMAIN secrets = SecretNames
        /\ \A s \in SecretNames : \A f \in DOMAIN secrets[s] :
               ~secrets[s][f].due
        /\ OneAuthority \/ torn

(* A valid authority is never replaced while its secret is there: neither  *)
(* a restart nor the loss of another secret makes the certificates that    *)
(* the pods have mounted worthless.                                        *)
AuthorityKept ==
    [][LET master == "master-certs"
       IN  master \in DOMAIN secrets \cap DOMAIN secrets'
             /\ ~secrets[master]["ca.crt"].due =>
               secrets'[master]["ca.crt"].by = secrets[master]["ca.crt"].by
      ]_vars

(* Two controllers, a webhook and two users write the number of nodes.     *)
(* When both queues are empty and no event is on its way, the CR, the      *)
(* object and the deployments say the same.  A CR that says 0 has met an   *)
(* error of the webhook or a cluster without nodes, and an object of       *)
(* somebody else under our name is never provisioned.                      *)
NodeCountsAgree ==
    op.pc = "idle" /\ ec.pc = "idle" /\ queued = {}
      /\ "cached" \notin stale /\ es.there /\ cr.count # 0 =>
        /\ cr.count = OpenShiftElasticsearchNodeCount(es.nodes)
        /\ deployed = injectArguments(cr)
=============================================================================
