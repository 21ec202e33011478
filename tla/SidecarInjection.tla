------------------------- MODULE SidecarInjection -------------------------
(***************************************************************************)
(* The agent sidecars of the deployments of users.  The admission webhook  *)
(* (controllers/appsv1/deployment_webhook.go, pkg/inject) decides about the*)
(* sidecar on every write of a deployment, from the caches of the operator.*)
(* Three parts of the operator write deployments only to make it look      *)
(* again, or to clean up: syncOnJaegerChanges of the Jaeger reconciler, the*)
(* namespace reconciler, and autoclean, which ticks every five seconds.    *)
(*                                                                         *)
(* A write of the user is two steps: the webhook answers, then the server  *)
(* stores the object; in between the caches and the instances may change,  *)
(* and a new deployment is in no list yet.  A write of the operator is one *)
(* step: it is refused unless its copy is the latest one, so what happens  *)
(* between the two only decides whether the cache lagged.                  *)
(***************************************************************************)
EXTENDS Integers

CONSTANTS
    Instances, NameOf, NamespaceOf,   \* the Jaeger CRs
    Deployments, HomeOf,              \* the deployments, their namespaces
    KindOf,                           \* "user" | "query" | "jaeger"
    Words,                            \* the annotations that are no name
    None, Own,                        \* no agent / a container of the user
    MaxEdits, MaxFaults               \* bounds of the model

Names == {NameOf[i] : i \in Instances}
Namespaces == {HomeOf[d] : d \in Deployments}

ASSUME SidecarAssumption ==
    /\ \A i, j \in Instances :
         NamespaceOf[i] = NamespaceOf[j] /\ NameOf[i] = NameOf[j] => i = j
    /\ KindOf \in [Deployments -> {"user", "query", "jaeger"}]
    /\ {"none"} \subseteq Words /\ Words \subseteq {"none", "true", "false"}
    /\ Names \cap {"none", "true", "false"} = {}
    /\ None \notin Instances \cup Namespaces \cup Deployments
    /\ Own \notin Instances \cup {None}
    /\ MaxEdits \in Nat /\ MaxFaults \in Nat

VARIABLES
    jaegers, jcache,   \* instance -> its generation, 0 when there is none;
                       \* what the informer has of it
    nsAnn, nscache,    \* namespace -> its annotation; what the informer has
    deps,              \* the stored deployments
    todo,              \* writer -> the deployments it still has to write
    fresh,             \* writer -> those nobody wrote since it read them
    out,               \* the request of the user the webhook has answered
    job,               \* the request a reconciler is working on
    queue,             \* the requests in its work queue
    ticked,            \* autoclean listed since the last write of another
    edits, faults

vars == <<jaegers, jcache, nsAnn, nscache, deps, todo, fresh, out, job, queue,
          ticked, edits, faults>>
cluster == <<jaegers, nsAnn>>
caches == <<jcache, nscache>>

Reconcilers == {"sync", "namespace"}
Operator == Reconcilers \cup {"clean"}
Writers == Operator \cup {"user"}

(* The inject annotation: absent, true, false, or the name of an instance. *)
Annotations == Names \cup Words

(* agent is the container jaeger-agent: gen is the generation of the CR its*)
(* arguments were made from.  bare says that the deployment has no         *)
(* annotation at all (a nil map).                                          *)
Agents == [of : Instances \cup {None, Own}, gen : 0..(MaxEdits + 1)]
NoAgent == [of |-> None, gen |-> 0]
OwnAgent == [of |-> Own, gen |-> 0]
DeploymentObjects == [there : BOOLEAN, ann : Annotations, bare : BOOLEAN,
                      label : Names \cup {"none"}, agent : Agents]
NoDeployment == [there |-> FALSE, ann |-> "none", bare |-> FALSE,
                 label |-> "none", agent |-> NoAgent]
NoRequest == [dep |-> None, obj |-> NoDeployment]

(* What the user writes: annotations, and perhaps an agent of his own.     *)
Manifests == {o \in DeploymentObjects :
                /\ o.there /\ o.label = "none"
                /\ o.agent \in {NoAgent, OwnAgent}
                /\ o.bare => o.ann = "none"}

Init ==
    /\ jaegers \in [Instances -> {0, 1}]
    /\ jcache = jaegers
    /\ nsAnn \in [Namespaces -> Annotations]
    /\ nscache = nsAnn
    /\ deps \in [Deployments -> {NoDeployment} \cup
                                {o \in Manifests : o.agent = NoAgent}]
    /\ todo = [w \in Operator |-> {}]
    /\ fresh = [w \in Writers |-> {}]
    /\ out = NoRequest
    /\ job = [w \in Reconcilers |-> None]
    /\ queue = [sync |-> {i \in Instances : jaegers[i] # 0},
                namespace |-> Namespaces]
    /\ ticked = FALSE
    /\ edits = 0
    /\ faults = 0

Fault == faults < MaxFaults /\ faults' = faults + 1
NoFault == UNCHANGED faults

-----------------------------------------------------------------------------
(* The webhook.  nsv is the annotation it found on the namespace.          *)

(* An annotation asks for a sidecar unless it is false.                    *)
Asks(ann) == ann \notin {"none", "false"}

(* Mutant: an annotation of the namespace overrides that of the deployment.*)
desiredByNamespace(o, nsv) == Asks(IF nsv = "none" THEN o.ann ELSE nsv)

desired(o, nsv) == Asks(o.ann) \/ Asks(nsv)

(* A container with the name of the agent, whoever put it there.           *)
HasJaegerAgent(o) == o.agent # NoAgent

(* Mutant: any agent is taken for one of the operator.                     *)
NeededIgnoresLabel(d, o, nsv) == desired(o, nsv) /\ KindOf[d] # "jaeger"

(* An agent without the label is a container of the user.                  *)
Needed(d, o, nsv) ==
    /\ desired(o, nsv)
    /\ KindOf[d] # "jaeger"
    /\ HasJaegerAgent(o) => o.label # "none"

Available == {i \in Instances : jcache[i] # 0}
InNamespace(n) == {i \in Available : NamespaceOf[i] = n}
Only(S) == IF \E i \in S : S = {i} THEN S ELSE {}

(* The instance of that name, preferably in the namespace of the           *)
(* deployment; otherwise the first one of an unordered list.               *)
getJaeger(d, name) ==
    LET named == {i \in Available : NameOf[i] = name}
        near == named \cap InNamespace(HomeOf[d])
    IN  IF near # {} THEN near ELSE named

(* The instances that may be chosen; none when it is not clear which.      *)
Select(d, o, nsv) ==
    LET byNamespace == getJaeger(d, nsv)
        single == Only(Available)
    IN  IF o.ann \notin {"none", "true"} THEN getJaeger(d, o.ann)
        ELSE IF byNamespace # {} THEN byNamespace
        ELSE IF "true" \notin {o.ann, nsv} THEN {}
        ELSE IF single # {} THEN single ELSE Only(InNamespace(HomeOf[d]))

(* decorate writes into the annotations and panics when there are none; the*)
(* call fails, and the policy of the webhook is to ignore that.            *)
Decorates(o) == ~o.bare

(* A deployment assigned to another instance is left as it is.             *)
Sidecar(i, o) ==
    IF o.label \notin {"none", NameOf[i]} \/ ~Decorates(o) THEN o
    ELSE [o EXCEPT !.label = NameOf[i],
                   !.agent = [of |-> i, gen |-> jcache[i]]]

(* Mutant: the container goes, the label stays.                            *)
CleanSidecarKeepsLabel(o) == [o EXCEPT !.agent = NoAgent]
CleanSidecar(o) == [o EXCEPT !.agent = NoAgent, !.label = "none"]

(* What the webhook may make of the deployment it is shown.                *)
Handle(d, o, nsv) ==
    LET chosen == Select(d, o, nsv)
    IN  IF KindOf[d] = "jaeger" THEN {o}
        ELSE IF Needed(d, o, nsv)
             THEN IF chosen = {} THEN {o} ELSE {Sidecar(i, o) : i \in chosen}
        ELSE IF HasJaegerAgent(o) /\ o.label # "none" THEN {CleanSidecar(o)}
        ELSE {o}

(* The answers: the namespace may not be found, and a webhook that does not*)
(* answer is ignored.                                                      *)
Answers(d, o) == Handle(d, o, nscache[HomeOf[d]])
FaultyAnswers(d, o) == Handle(d, o, "none") \cup {o}

-----------------------------------------------------------------------------
(* The user and the controller of deployments.                             *)

Edit == edits < MaxEdits /\ edits' = edits + 1
Unworked == UNCHANGED <<todo, job, queue, ticked>>

UserJaeger(i) ==
    /\ Edit
    /\ \/ jaegers' = [jaegers EXCEPT ![i] = edits + 2]
       \/ jaegers[i] # 0 /\ jaegers' = [jaegers EXCEPT ![i] = 0]
    /\ UNCHANGED <<caches, nsAnn, deps, fresh, out, faults>> /\ Unworked

UserNamespace(n) ==
    /\ Edit
    /\ \E a \in Annotations \ {nsAnn[n]} : nsAnn' = [nsAnn EXCEPT ![n] = a]
    /\ UNCHANGED <<caches, jaegers, deps, fresh, out, faults>> /\ Unworked

(* A write of a user is on its way.                                        *)
Request(d, o) ==
    /\ out = NoRequest
    /\ \/ NoFault /\ \E r \in Answers(d, o) : out' = [dep |-> d, obj |-> r]
       \/ Fault /\ \E r \in FaultyAnswers(d, o) : out' = [dep |-> d, obj |-> r]
    /\ fresh' = [fresh EXCEPT !["user"] = {d}]
    /\ UNCHANGED <<caches, cluster, deps>> /\ Unworked

(* Create or replace a deployment, or change its annotation (what the      *)
(* operator put there stays).                                              *)
UserDeployment(d) ==
    /\ Edit
    /\ \/ \E o \in Manifests : Request(d, o)
       \/ /\ deps[d].there
          /\ \E a \in Annotations \ {deps[d].ann} :
               Request(d, [deps[d] EXCEPT !.ann = a, !.bare = FALSE])

UserDelete(d) ==
    /\ Edit
    /\ deps[d].there
    /\ deps' = [deps EXCEPT ![d] = NoDeployment]
    /\ fresh' = [w \in Writers |-> fresh[w] \ {d}]
    /\ UNCHANGED <<caches, cluster, out, faults>> /\ Unworked

(* The controller of deployments notes the revision of a new one.          *)
NoteRevision(d) ==
    /\ deps[d].there /\ deps[d].bare
    /\ Request(d, [deps[d] EXCEPT !.bare = FALSE])
    /\ UNCHANGED edits

(* The server stores the object; when it has changed since the webhook saw *)
(* it the request is refused.                                              *)
UserStore ==
    LET d == out.dep
    IN  /\ out # NoRequest
        /\ out' = NoRequest
        /\ IF d \in fresh["user"]
           THEN /\ deps' = [deps EXCEPT ![d] = out.obj]
                /\ fresh' = [w \in Writers |-> fresh[w] \ {d}]
                /\ ticked' = FALSE
           ELSE UNCHANGED <<deps, fresh, ticked>>
        /\ UNCHANGED <<caches, cluster, todo, job, queue, edits, faults>>

(* The informers catch up, and queue a request for what changed.           *)
CacheJaeger(i) ==
    /\ jcache[i] # jaegers[i]
    /\ jcache' = [jcache EXCEPT ![i] = jaegers[i]]
    /\ queue' = [queue EXCEPT !["sync"] = @ \cup {i}]
    /\ UNCHANGED <<cluster, nscache, deps, todo, fresh, out, job, ticked, edits,
                   faults>>

CacheNamespace(n) ==
    /\ nscache[n] # nsAnn[n]
    /\ nscache' = [nscache EXCEPT ![n] = nsAnn[n]]
    /\ queue' = [queue EXCEPT !["namespace"] = @ \cup {n}]
    /\ UNCHANGED <<cluster, jcache, deps, todo, fresh, out, job, ticked, edits,
                   faults>>

(* Every informer queues everything again after its resync period.  It is  *)
(* hours long: the reconcilers have finished by then, and autoclean has had*)
(* a pass to itself.                                                       *)
Resync ==
    /\ queue = [w \in Reconcilers |-> {}]
    /\ job = [w \in Reconcilers |-> None]
    /\ ticked /\ todo["clean"] = {}
    /\ queue' = [sync |-> Available, namespace |-> Namespaces]
    /\ UNCHANGED <<caches, cluster, deps, todo, fresh, out, job, ticked, edits,
                   faults>>

(* The operator is restarted: its queues are filled by the first list.     *)
Restart ==
    /\ Fault
    /\ jcache' = jaegers
    /\ nscache' = nsAnn
    /\ todo' = [w \in Operator |-> {}]
    /\ job' = [w \in Reconcilers |-> None]
    /\ queue' = [sync |-> {i \in Instances : jaegers[i] # 0},
                 namespace |-> Namespaces]
    /\ fresh' = [w \in Writers |-> IF w = "user" THEN fresh[w] ELSE {}]
    /\ UNCHANGED <<cluster, deps, out, ticked, edits>>

-----------------------------------------------------------------------------
(* The writers of the operator: each lists, then writes one by one.        *)

Listed(w, ds) ==
    /\ todo' = [todo EXCEPT ![w] = ds]
    /\ fresh' = [fresh EXCEPT ![w] = ds]

Begin(w, r, ds) ==
    /\ Listed(w, ds)
    /\ job' = [job EXCEPT ![w] = IF ds = {} THEN None ELSE r]
    /\ queue' = [queue EXCEPT ![w] = @ \ {r}]

(* The deployments a changed instance may concern: those of no instance or *)
(* of this one, with the annotation or in a namespace with it.             *)
Synced(i, d) ==
    /\ deps[d].there
    /\ deps[d].label \in {"none", NameOf[i]}
    /\ deps[d].ann # "none" \/ nsAnn[HomeOf[d]] # "none"

(* syncOnJaegerChanges; Reconcile does not reach it when the CR is gone.   *)
(* The namespace may not be found: its annotation does not count then.     *)
SyncList(i) ==
    /\ i \in queue["sync"]
    /\ job["sync"] = None
    /\ \/ /\ NoFault
          /\ Begin("sync", i, IF jaegers[i] = 0 THEN {}
                              ELSE {d \in Deployments : Synced(i, d)})
       \/ /\ Fault
          /\ UNCHANGED <<todo, fresh, job, queue>>
       \/ /\ Fault
          /\ jaegers[i] # 0
          /\ Begin("sync", i, {d \in Deployments : Synced(i, d)
                                                   /\ deps[d].ann # "none"})
    /\ UNCHANGED <<caches, cluster, deps, out, ticked, edits>>

(* Mutant: an agent nobody asks for any more is not looked at.             *)
VerifiedOnlyNeeded(n, d) ==
    /\ deps[d].there /\ HomeOf[d] = n /\ KindOf[d] = "user"
    /\ Needed(d, deps[d], nsAnn[n])

(* The namespace reconciler: also an agent without an annotation of its    *)
(* deployment is verified, it may come from the namespace.                 *)
Verified(n, d) ==
    /\ deps[d].there
    /\ HomeOf[d] = n
    /\ KindOf[d] = "user"
    /\ \/ Needed(d, deps[d], nsAnn[n])
       \/ HasJaegerAgent(deps[d]) /\ deps[d].ann = "none"

NamespaceList(n) ==
    /\ n \in queue["namespace"]
    /\ job["namespace"] = None
    /\ \/ NoFault /\ Begin("namespace", n, {d \in Deployments : Verified(n, d)})
       \/ Fault /\ UNCHANGED <<todo, fresh, job, queue>>
    /\ UNCHANGED <<caches, cluster, deps, out, ticked, edits>>

(* An instance of that name, in any namespace, exists.                     *)
Live(name) == \E i \in Instances : jaegers[i] # 0 /\ NameOf[i] = name
Labelled == {d \in Deployments : deps[d].label # "none"}

(* Mutant: only deployments that carry the annotation themselves.          *)
CleanListAnnotated ==
    /\ todo["clean"] = {}
    /\ NoFault
    /\ Listed("clean", {d \in Labelled : /\ deps[d].ann # "none"
                                         /\ ~Live(deps[d].label)})
    /\ ticked' = TRUE
    /\ UNCHANGED <<caches, cluster, deps, out, job, queue, edits>>

(* cleanDeployments: a label that names no listed instance.  When the list *)
(* of the deployments fails nothing is done, when the list of the instances*)
(* fails all labels look orphaned.                                         *)
CleanList ==
    /\ todo["clean"] = {}
    /\ \/ /\ NoFault
          /\ Listed("clean", {d \in Labelled : ~Live(deps[d].label)})
       \/ /\ Fault
          /\ \E ds \in {{}, Labelled} : Listed("clean", ds)
    /\ ticked' = TRUE
    /\ UNCHANGED <<caches, cluster, deps, out, job, queue, edits>>

(* What a writer does next: reconcilers stop at the first error and their  *)
(* request is queued again, autoclean goes on.                             *)
Stored(w, d) ==
    /\ todo' = [todo EXCEPT ![w] = @ \ {d}]
    /\ job' = [v \in Reconcilers |->
                 IF v = w /\ todo[v] = {d} THEN None ELSE job[v]]
    /\ UNCHANGED queue
Refused(w, d) ==
    /\ todo' = [todo EXCEPT ![w] = IF w = "clean" THEN @ \ {d} ELSE {}]
    /\ fresh' = [fresh EXCEPT ![w] = IF w = "clean" THEN @ \ {d} ELSE {}]
    /\ job' = [v \in Reconcilers |-> IF v = w THEN None ELSE job[v]]
    /\ queue' = [v \in Reconcilers |->
                   IF v = w THEN queue[v] \cup {job[v]} ELSE queue[v]]

(* The reconcilers only count up the revision, which is not modelled.      *)
Content(w, d) == IF w = "clean" THEN CleanSidecar(deps[d]) ELSE deps[d]

(* Update, of a deployment in the list.                                    *)
Write(w, d) ==
    /\ d \in todo[w]
    /\ \/ /\ d \in fresh[w]
          /\ \/ NoFault /\ \E r \in Answers(d, Content(w, d)) :
                             deps' = [deps EXCEPT ![d] = r]
             \/ Fault /\ \E r \in FaultyAnswers(d, Content(w, d)) :
                           deps' = [deps EXCEPT ![d] = r]
          /\ fresh' = [v \in Writers |-> fresh[v] \ {d}]
          /\ ticked' = (ticked /\ w = "clean")
          /\ Stored(w, d)
       \/ /\ (d \notin fresh[w] /\ NoFault) \/ Fault
          /\ Refused(w, d)
          /\ UNCHANGED <<deps, ticked>>
    /\ UNCHANGED <<caches, cluster, out, edits>>

-----------------------------------------------------------------------------
Cache == \/ \E i \in Instances : CacheJaeger(i)
         \/ \E n \in Namespaces : CacheNamespace(n)
Sync == \E i \in Instances : SyncList(i)
ReconcileNamespace == \E n \in Namespaces : NamespaceList(n)

User ==
    \/ \E i \in Instances : UserJaeger(i)
    \/ \E n \in Namespaces : UserNamespace(n)
    \/ \E d \in Deployments : UserDeployment(d) \/ UserDelete(d)

Next ==
    \/ User \/ UserStore
    \/ \E d \in Deployments : NoteRevision(d)
    \/ Cache \/ Resync \/ Restart
    \/ Sync \/ ReconcileNamespace \/ CleanList
    \/ \E w \in Operator, d \in Deployments : Write(w, d)

Spec == Init /\ [][Next]_vars

(* The operator, the server and the controller of deployments go on; the   *)
(* user owes nothing.                                                      *)
FairSpec ==
    /\ Spec
    /\ WF_vars(Cache) /\ WF_vars(Resync)
    /\ WF_vars(Sync) /\ WF_vars(ReconcileNamespace) /\ WF_vars(CleanList)
    /\ \A w \in Operator : WF_vars(\E d \in Deployments : Write(w, d))
    /\ WF_vars(UserStore)
    /\ \A d \in Deployments : WF_vars(NoteRevision(d))

-----------------------------------------------------------------------------
(* The label and the container belong together: Sidecar and CleanSidecar   *)
(* set and remove both, and the label is the name of the instance the      *)
(* container reports to.                                                   *)
Consistent(o) ==
    /\ o.label = "none" <=> o.agent.of \notin Instances
    /\ o.agent.of \in Instances => NameOf[o.agent.of] = o.label
    /\ o.label # "none" => ~o.bare

TypeOK ==
    /\ jaegers \in [Instances -> 0..(MaxEdits + 1)]
    /\ jcache \in [Instances -> 0..(MaxEdits + 1)]
    /\ nsAnn \in [Namespaces -> Annotations]
    /\ nscache \in [Namespaces -> Annotations]
    /\ deps \in [Deployments -> DeploymentObjects]
    /\ \A d \in Deployments : Consistent(deps[d])
    /\ todo \in [Operator -> SUBSET Deployments]
    /\ fresh \in [Writers -> SUBSET Deployments]
    /\ out \in [dep : Deployments \cup {None}, obj : DeploymentObjects]
    /\ job \in [Reconcilers -> Instances \cup Namespaces \cup {None}]
    /\ queue \in [Reconcilers -> SUBSET (Instances \cup Namespaces)]
    /\ ticked \in BOOLEAN
    /\ edits \in 0..MaxEdits
    /\ faults \in 0..MaxFaults

(* A container jaeger-agent of the user's own is never replaced or removed *)
(* by the operator, also when the user puts it there while a write of the  *)
(* operator, decided on before, is on its way.                             *)
OwnAgentUntouched ==
    [][\A w \in Operator, d \in Deployments :
          Write(w, d) /\ deps[d].agent = OwnAgent
              => deps'[d].agent = OwnAgent]_vars

(* A deployment keeps its sidecar, and its instance ("deployment is        *)
(* assigned to a different Jaeger instance"), as long as its own annotation*)
(* asks for one: whatever the caches of the webhook show and whichever of  *)
(* its calls fail, a write of the reconcilers removes the sidecar only when*)
(* it is not asked for, and never hands the deployment to another instance.*)
SidecarKept ==
    [][\A w \in Reconcilers, d \in Deployments :
          Write(w, d) /\ deps[d].label # "none"
              => \/ deps'[d].label = deps[d].label
                 \/ deps'[d].label = "none" /\ ~Asks(deps[d].ann)]_vars

(* No deployment keeps the sidecar of an instance that is gone, whatever   *)
(* the caches, conflicts and failures on the way.                          *)
EventuallyClean ==
    <>[](\A d \in Labelled : Live(deps[d].label))

(* Every deployment ends as the webhook wants it: asked for and injected   *)
(* with the arguments of the present CR, or not asked for and clean.  That *)
(* holds also for one that was on its way to the server while the instance *)
(* or the annotation of the namespace changed.                             *)
EventuallyHandled ==
    <>[](\A d \in Deployments :
           deps[d].there =>
             deps[d] \in Handle(d, deps[d], nsAnn[HomeOf[d]]))
=============================================================================
