----------------------- MODULE SidecarInjectionProofs -----------------------
(***************************************************************************)
(* Proofs about SidecarInjection, for any instances, namespaces and        *)
(* deployments: the label and the container always belong together, the    *)
(* operator never touches an agent of the user's own, and never takes away *)
(* or hands over a sidecar that its deployment asks for.                   *)
(***************************************************************************)
EXTENDS SidecarInjection, TLAPS

(* A reconciler with deployments to write works on a request.              *)
JobOK == \A v \in Reconcilers : job[v] = None => todo[v] = {}

(* What autoclean is about to write, and nobody wrote since, is labelled.  *)
CleanOK == \A d \in todo["clean"] \cap fresh["clean"] : deps[d].label # "none"

SidecarInv ==
    /\ TypeOK
    /\ Consistent(out.obj)
    /\ JobOK
    /\ CleanOK

Sound(o) == o \in DeploymentObjects /\ Consistent(o)

-----------------------------------------------------------------------------
(* The webhook.                                                            *)
LEMMA NamesFacts ==
    ASSUME NEW i \in Instances
    PROVE  NameOf[i] \in Names /\ NameOf[i] # "none"
  BY SidecarAssumption DEF Names

LEMMA NobodysAgents ==
    /\ NoAgent \in Agents /\ OwnAgent \in Agents
    /\ NoAgent.of \notin Instances /\ OwnAgent.of \notin Instances
    /\ NoAgent # OwnAgent
  <1>1. 0 \in 0..(MaxEdits + 1)
    BY SidecarAssumption
  <1>2. NoAgent.of = None /\ OwnAgent.of = Own
    BY DEF NoAgent, OwnAgent
  <1> QED BY <1>1, <1>2, SidecarAssumption DEF NoAgent, OwnAgent, Agents

LEMMA SidecarFacts ==
    ASSUME TypeOK, NEW i \in Instances, NEW o, Sound(o)
    PROVE  /\ Sound(Sidecar(i, o))
           /\ o.label # "none" => Sidecar(i, o).label = o.label
  <1>1. CASE o.label \notin {"none", NameOf[i]} \/ ~Decorates(o)
    BY <1>1 DEF Sidecar
  <1>2. CASE ~(o.label \notin {"none", NameOf[i]} \/ ~Decorates(o))
    <2> DEFINE a == [of |-> i, gen |-> jcache[i]]
    <2>1. a \in Agents /\ a.of = i
      BY DEF TypeOK, Agents
    <2>2. NameOf[i] \in Names /\ NameOf[i] # "none"
      BY NamesFacts
    <2>3. o.bare = FALSE
      BY <1>2 DEF Decorates, Sound, DeploymentObjects
    <2>4. Sidecar(i, o) = [o EXCEPT !.label = NameOf[i], !.agent = a]
      BY <1>2 DEF Sidecar
    <2> HIDE DEF a
    <2>5. /\ Sidecar(i, o) \in DeploymentObjects
          /\ Sidecar(i, o).label = NameOf[i] /\ Sidecar(i, o).agent = a
          /\ Sidecar(i, o).bare = o.bare
      BY <2>1, <2>2, <2>4 DEF Sound, DeploymentObjects
    <2>6. Consistent(Sidecar(i, o))
      BY <2>1, <2>2, <2>3, <2>5 DEF Consistent
    <2> QED BY <1>2, <2>5, <2>6 DEF Sound
  <1> QED BY <1>1, <1>2

LEMMA CleanFacts ==
    ASSUME NEW o, Sound(o)
    PROVE  Sound(CleanSidecar(o)) /\ CleanSidecar(o).label = "none"
  <1>1. /\ CleanSidecar(o) \in DeploymentObjects
        /\ CleanSidecar(o).label = "none" /\ CleanSidecar(o).agent = NoAgent
    BY NobodysAgents DEF CleanSidecar, Sound, DeploymentObjects
  <1>2. Consistent(CleanSidecar(o))
    BY <1>1, NobodysAgents DEF Consistent
  <1> QED BY <1>1, <1>2 DEF Sound

LEMMA SelectFacts ==
    ASSUME NEW d, NEW o, NEW nsv
    PROVE  Select(d, o, nsv) \subseteq Instances
  BY DEF Select, getJaeger, Only, InNamespace, Available

(* Whatever the webhook answers: the label and the container agree, a      *)
(* container of the user stays, and a sidecar goes only if it is not asked *)
(* for.                                                                    *)
LEMMA HandleFacts ==
    ASSUME TypeOK, NEW d \in Deployments, NEW o, Sound(o), NEW nsv,
           NEW r \in Handle(d, o, nsv)
    PROVE  /\ Sound(r)
           /\ o.agent = OwnAgent => r = o
           /\ o.label # "none" => \/ r.label = o.label
                                  \/ r.label = "none" /\ ~Asks(o.ann)
  <1>1. CASE r = o
    BY <1>1
  <1>2. CASE Needed(d, o, nsv) /\ \E i \in Instances : r = Sidecar(i, o)
    <2>1. PICK i \in Instances : r = Sidecar(i, o)
      BY <1>2
    <2>2. o.agent = OwnAgent => FALSE
      <3> SUFFICES ASSUME o.agent = OwnAgent PROVE FALSE
        OBVIOUS
      <3>1. o.label # "none"
        BY <1>2, NobodysAgents DEF Needed, HasJaegerAgent
      <3> QED BY <3>1, NobodysAgents DEF Sound, Consistent
    <2> QED BY <2>1, <2>2, SidecarFacts
  <1>3. CASE /\ KindOf[d] # "jaeger" /\ ~Needed(d, o, nsv)
             /\ HasJaegerAgent(o) /\ o.label # "none"
             /\ r = CleanSidecar(o)
    <2>1. ~Asks(o.ann)
      BY <1>3 DEF Needed, desired
    <2>2. o.agent # OwnAgent
      BY <1>3, NobodysAgents DEF Sound, Consistent
    <2> QED BY <1>3, <2>1, <2>2, CleanFacts
  <1> QED BY <1>1, <1>2, <1>3, SelectFacts DEF Handle

LEMMA AnswerFacts ==
    ASSUME TypeOK, NEW d \in Deployments, NEW o, Sound(o),
           NEW r \in Answers(d, o) \cup FaultyAnswers(d, o)
    PROVE  /\ Sound(r)
           /\ o.agent = OwnAgent => r = o
           /\ o.label # "none" => \/ r.label = o.label
                                  \/ r.label = "none" /\ ~Asks(o.ann)
  BY HandleFacts DEF Answers, FaultyAnswers

LEMMA StoredFacts ==
    ASSUME TypeOK, NEW d \in Deployments
    PROVE  Sound(deps[d])
  BY DEF TypeOK, Sound

-----------------------------------------------------------------------------
LEMMA FaultCount ==
    ASSUME TypeOK, Fault \/ NoFault
    PROVE  faults' \in 0..MaxFaults
  BY SidecarAssumption DEF Fault, NoFault, TypeOK

LEMMA EditCount ==
    ASSUME TypeOK, Edit
    PROVE  edits' \in 0..MaxEdits /\ edits + 2 \in 0..(MaxEdits + 1)
  BY SidecarAssumption DEF Edit, TypeOK

(* The sets that the deployments to write are kept in.                     *)
LEMMA WriterNames ==
    /\ Reconcilers \subseteq Operator /\ Operator \subseteq Writers
    /\ "clean" \in Operator /\ "clean" \notin Reconcilers
    /\ "user" \in Writers /\ "user" \notin Operator
  BY DEF Writers, Operator, Reconcilers


LEMMA UserJaegerKept ==
    ASSUME SidecarInv, NEW i \in Instances, UserJaeger(i)
    PROVE  SidecarInv'
  <1>1. TypeOK
    BY DEF SidecarInv
  <1>2. edits' \in 0..MaxEdits /\ edits + 2 \in 0..(MaxEdits + 1)
    BY <1>1, EditCount DEF UserJaeger
  <1>3. 0 \in 0..(MaxEdits + 1)
    BY SidecarAssumption
  <1>4. jaegers' \in [Instances -> 0..(MaxEdits + 1)]
    BY <1>1, <1>2, <1>3 DEF UserJaeger, TypeOK
  <1>5. TypeOK'
    BY <1>1, <1>2, <1>4 DEF UserJaeger, Unworked, caches, TypeOK, Consistent
  <1> QED BY <1>5 DEF SidecarInv, UserJaeger, Unworked, Consistent, JobOK, CleanOK

LEMMA UserNamespaceKept ==
    ASSUME SidecarInv, NEW n \in Namespaces, UserNamespace(n)
    PROVE  SidecarInv'
  <1>1. TypeOK
    BY DEF SidecarInv
  <1>2. edits' \in 0..MaxEdits
    BY <1>1, EditCount DEF UserNamespace
  <1>3. nsAnn' \in [Namespaces -> Annotations]
    BY <1>1 DEF UserNamespace, TypeOK
  <1>4. TypeOK'
    BY <1>1, <1>2, <1>3 DEF UserNamespace, Unworked, caches, TypeOK, Consistent
  <1> QED BY <1>4 DEF SidecarInv, UserNamespace, Unworked, Consistent, JobOK, CleanOK

LEMMA RequestKept ==
    ASSUME SidecarInv, NEW d \in Deployments, NEW o, Sound(o), Request(d, o),
           edits' \in 0..MaxEdits
    PROVE  SidecarInv'
  <1>1. TypeOK
    BY DEF SidecarInv
  <1>2. PICK r \in Answers(d, o) \cup FaultyAnswers(d, o) :
          out' = [dep |-> d, obj |-> r]
    BY DEF Request
  <1>3. Sound(r)
    BY <1>1, <1>2, AnswerFacts
  <1>4. /\ out' \in [dep : Deployments \cup {None}, obj : DeploymentObjects]
        /\ out'.obj = r
    BY <1>2, <1>3 DEF Sound
  <1>5. faults' \in 0..MaxFaults
    BY <1>1, FaultCount DEF Request
  <1>6. /\ fresh' \in [Writers -> SUBSET Deployments]
        /\ fresh'["clean"] = fresh["clean"]
    BY <1>1, WriterNames DEF Request, TypeOK
  <1>7. TypeOK'
    BY <1>1, <1>4, <1>5, <1>6 DEF Request, Unworked, caches, cluster, TypeOK, Consistent
  <1>8. Consistent(out.obj)'
    BY <1>3, <1>4 DEF Sound, Consistent
  <1> QED BY <1>6, <1>7, <1>8 DEF SidecarInv, Request, Unworked, JobOK, CleanOK

LEMMA UserDeploymentKept ==
    ASSUME SidecarInv, NEW d \in Deployments, UserDeployment(d)
    PROVE  SidecarInv'
  <1>1. TypeOK
    BY DEF SidecarInv
  <1>2. edits' \in 0..MaxEdits
    BY <1>1, EditCount DEF UserDeployment
  <1>3. CASE \E o \in Manifests : Request(d, o)
    <2>1. PICK o \in Manifests : Request(d, o)
      BY <1>3
    <2>2. /\ o \in DeploymentObjects /\ o.label = "none"
          /\ o.agent \in {NoAgent, OwnAgent}
      BY DEF Manifests
    <2>3. o.agent.of \notin Instances
      BY <2>2, NobodysAgents
    <2>4. Sound(o)
      BY <2>2, <2>3 DEF Sound, Consistent
    <2> QED BY <1>2, <2>1, <2>4, RequestKept
  <1>4. CASE \E a \in Annotations :
               Request(d, [deps[d] EXCEPT !.ann = a, !.bare = FALSE])
    <2>1. PICK a \in Annotations :
            Request(d, [deps[d] EXCEPT !.ann = a, !.bare = FALSE])
      BY <1>4
    <2> DEFINE o == [deps[d] EXCEPT !.ann = a, !.bare = FALSE]
    <2>2. Sound(deps[d])
      BY <1>1, StoredFacts
    <2>3. /\ o \in DeploymentObjects /\ o.label = deps[d].label
          /\ o.agent = deps[d].agent /\ o.bare = FALSE
      BY <2>2 DEF Sound, DeploymentObjects
    <2>4. Sound(o)
      BY <2>2, <2>3 DEF Sound, Consistent
    <2> QED BY <1>2, <2>1, <2>4, RequestKept
  <1> QED BY <1>3, <1>4 DEF UserDeployment

LEMMA NoteRevisionKept ==
    ASSUME SidecarInv, NEW d \in Deployments, NoteRevision(d)
    PROVE  SidecarInv'
  <1>1. TypeOK
    BY DEF SidecarInv
  <1> DEFINE o == [deps[d] EXCEPT !.bare = FALSE]
  <1>2. Sound(deps[d])
    BY <1>1, StoredFacts
  <1>3. /\ o \in DeploymentObjects /\ o.label = deps[d].label
        /\ o.agent = deps[d].agent /\ o.bare = FALSE
    BY <1>2 DEF Sound, DeploymentObjects
  <1>4. Sound(o)
    BY <1>2, <1>3 DEF Sound, Consistent
  <1>5. edits' \in 0..MaxEdits
    BY <1>1 DEF NoteRevision, TypeOK
  <1> QED BY <1>4, <1>5, RequestKept DEF NoteRevision

LEMMA NothingSound ==
    Sound(NoDeployment)
  <1>1. "none" \in Annotations
    BY SidecarAssumption DEF Annotations
  <1>2. /\ NoDeployment \in DeploymentObjects /\ NoDeployment.label = "none"
        /\ NoDeployment.agent = NoAgent
    BY <1>1, NobodysAgents DEF NoDeployment, DeploymentObjects
  <1> QED BY <1>2, NobodysAgents DEF Sound, Consistent

(* A deployment is written: nobody's copy of it is fresh any more.         *)
LEMMA DepsWritten ==
    ASSUME SidecarInv, NEW d \in Deployments, NEW r, Sound(r),
           deps' = [deps EXCEPT ![d] = r],
           fresh' = [w \in Writers |-> fresh[w] \ {d}]
    PROVE  /\ deps' \in [Deployments -> DeploymentObjects]
           /\ \A e \in Deployments : Consistent(deps'[e])
           /\ fresh' \in [Writers -> SUBSET Deployments]
           /\ todo'["clean"] \subseteq todo["clean"] => CleanOK'
  <1>1. TypeOK
    BY DEF SidecarInv
  <1>2. /\ deps' \in [Deployments -> DeploymentObjects]
        /\ deps'[d] = r /\ \A e \in Deployments \ {d} : deps'[e] = deps[e]
    BY <1>1 DEF TypeOK, Sound
  <1>3. \A e \in Deployments : Consistent(deps'[e])
    <2> TAKE e \in Deployments
    <2>1. CASE e = d
      BY <1>2, <2>1 DEF Sound
    <2>2. CASE e # d
      BY <1>1, <1>2, <2>2 DEF TypeOK
    <2> QED BY <2>1, <2>2
  <1>4. /\ fresh' \in [Writers -> SUBSET Deployments]
        /\ fresh'["clean"] = fresh["clean"] \ {d} /\ fresh["clean"] \subseteq Deployments
    BY <1>1, WriterNames DEF TypeOK
  <1>5. todo'["clean"] \subseteq todo["clean"] => CleanOK'
    BY <1>2, <1>4 DEF SidecarInv, CleanOK
  <1> QED BY <1>2, <1>3, <1>4, <1>5

LEMMA UserDeleteKept ==
    ASSUME SidecarInv, NEW d \in Deployments, UserDelete(d)
    PROVE  SidecarInv'
  <1>1. TypeOK
    BY DEF SidecarInv
  <1>2. edits' \in 0..MaxEdits
    BY <1>1, EditCount DEF UserDelete
  <1>3. /\ deps' \in [Deployments -> DeploymentObjects]
        /\ \A e \in Deployments : Consistent(deps'[e])
        /\ fresh' \in [Writers -> SUBSET Deployments] /\ CleanOK'
    BY DepsWritten, NothingSound DEF UserDelete, Unworked
  <1>4. TypeOK'
    BY <1>1, <1>2, <1>3 DEF UserDelete, Unworked, caches, cluster, TypeOK, Consistent
  <1> QED BY <1>3, <1>4 DEF SidecarInv, UserDelete, Unworked, JobOK, Consistent

LEMMA UserStoreKept ==
    ASSUME SidecarInv, UserStore
    PROVE  SidecarInv'
  <1>1. TypeOK
    BY DEF SidecarInv
  <1>2. /\ out' = NoRequest /\ Sound(out'.obj)
        /\ out' \in [dep : Deployments \cup {None}, obj : DeploymentObjects]
    <2>1. NoRequest.obj = NoDeployment
      BY DEF NoRequest
    <2> QED BY <2>1, NothingSound DEF UserStore, NoRequest, Sound
  <1>3. Consistent(out.obj)'
    BY <1>2 DEF Sound, Consistent
  <1>4. CASE out.dep \notin fresh["user"]
    <2>1. UNCHANGED <<deps, fresh, ticked>>
      BY <1>4 DEF UserStore
    <2>2. TypeOK'
      BY <1>1, <1>2, <2>1 DEF UserStore, caches, cluster, TypeOK, Consistent
    <2> QED BY <1>3, <2>1, <2>2 DEF UserStore, SidecarInv, JobOK, CleanOK
  <1>5. CASE out.dep \in fresh["user"]
    <2>1. out.dep \in Deployments
      BY <1>1, <1>5, WriterNames DEF TypeOK
    <2>2. /\ deps' = [deps EXCEPT ![out.dep] = out.obj]
          /\ fresh' = [w \in Writers |-> fresh[w] \ {out.dep}]
          /\ ticked' = FALSE /\ UNCHANGED <<todo, job>>
      BY <1>5 DEF UserStore
    <2>3. Sound(out.obj)
      BY <1>1 DEF SidecarInv, TypeOK, Sound
    <2>4. /\ deps' \in [Deployments -> DeploymentObjects]
          /\ \A e \in Deployments : Consistent(deps'[e])
          /\ fresh' \in [Writers -> SUBSET Deployments] /\ CleanOK'
      BY <2>1, <2>2, <2>3, DepsWritten
    <2>5. TypeOK'
      BY <1>1, <1>2, <2>2, <2>4 DEF UserStore, caches, cluster, TypeOK, Consistent
    <2> QED BY <1>3, <2>2, <2>4, <2>5 DEF SidecarInv, JobOK
  <1> QED BY <1>4, <1>5

LEMMA CacheJaegerKept ==
    ASSUME SidecarInv, NEW i \in Instances, CacheJaeger(i)
    PROVE  SidecarInv'
  <1>1. TypeOK
    BY DEF SidecarInv
  <1>2. /\ jcache' \in [Instances -> 0..(MaxEdits + 1)]
        /\ queue' \in [Reconcilers -> SUBSET (Instances \cup Namespaces)]
    BY <1>1 DEF CacheJaeger, TypeOK
  <1>3. TypeOK'
    BY <1>1, <1>2 DEF CacheJaeger, cluster, TypeOK, Consistent
  <1> QED BY <1>3 DEF SidecarInv, CacheJaeger, Consistent, JobOK, CleanOK

LEMMA CacheNamespaceKept ==
    ASSUME SidecarInv, NEW n \in Namespaces, CacheNamespace(n)
    PROVE  SidecarInv'
  <1>1. TypeOK
    BY DEF SidecarInv
  <1>2. /\ nscache' \in [Namespaces -> Annotations]
        /\ queue' \in [Reconcilers -> SUBSET (Instances \cup Namespaces)]
    BY <1>1 DEF CacheNamespace, TypeOK
  <1>3. TypeOK'
    BY <1>1, <1>2 DEF CacheNamespace, cluster, TypeOK, Consistent
  <1> QED BY <1>3 DEF SidecarInv, CacheNamespace, Consistent, JobOK, CleanOK

LEMMA FullQueue ==
    ASSUME NEW S \in SUBSET Instances
    PROVE  [sync |-> S, namespace |-> Namespaces]
              \in [Reconcilers -> SUBSET (Instances \cup Namespaces)]
  BY DEF Reconcilers

LEMMA ResyncKept ==
    ASSUME SidecarInv, Resync
    PROVE  SidecarInv'
  <1>1. TypeOK
    BY DEF SidecarInv
  <1>2. Available \in SUBSET Instances
    BY DEF Available
  <1>3. queue' \in [Reconcilers -> SUBSET (Instances \cup Namespaces)]
    BY <1>2, FullQueue DEF Resync
  <1>4. TypeOK'
    BY <1>1, <1>3 DEF Resync, caches, cluster, TypeOK, Consistent
  <1> QED BY <1>4 DEF SidecarInv, Resync, Consistent, JobOK, CleanOK

LEMMA RestartKept ==
    ASSUME SidecarInv, Restart
    PROVE  SidecarInv'
  <1>1. TypeOK
    BY DEF SidecarInv
  <1>2. {i \in Instances : jaegers[i] # 0} \in SUBSET Instances
    OBVIOUS
  <1>3. queue' \in [Reconcilers -> SUBSET (Instances \cup Namespaces)]
    BY <1>2, FullQueue DEF Restart
  <1>4. faults' \in 0..MaxFaults
    BY <1>1, FaultCount DEF Restart
  <1>5. /\ todo' = [w \in Operator |-> {}]
        /\ job' = [w \in Reconcilers |-> None]
        /\ fresh' \in [Writers -> SUBSET Deployments]
    BY <1>1 DEF Restart, TypeOK
  <1>6. TypeOK'
    BY <1>1, <1>3, <1>4, <1>5 DEF Restart, cluster, TypeOK, Consistent
  <1>7. JobOK' /\ CleanOK'
    BY <1>5, WriterNames DEF JobOK, CleanOK
  <1> QED BY <1>6, <1>7 DEF SidecarInv, Restart, Consistent

(* A reconciler has listed, for the request r.                             *)
LEMMA BeginKept ==
    ASSUME SidecarInv, NEW w \in Reconcilers, NEW r \in Instances \cup Namespaces,
           NEW ds \in SUBSET Deployments, Begin(w, r, ds), faults' \in 0..MaxFaults,
           UNCHANGED <<caches, cluster, deps, out, ticked, edits>>
    PROVE  SidecarInv'
  <1>1. TypeOK /\ r # None
    BY SidecarAssumption DEF SidecarInv
  <1>2. /\ todo' \in [Operator -> SUBSET Deployments]
        /\ todo'[w] = ds /\ \A v \in Operator \ {w} : todo'[v] = todo[v]
        /\ fresh' \in [Writers -> SUBSET Deployments]
        /\ \A v \in Writers \ {w} : fresh'[v] = fresh[v]
    BY <1>1, WriterNames DEF Begin, Listed, TypeOK
  <1>3. /\ job' \in [Reconcilers -> Instances \cup Namespaces \cup {None}]
        /\ job'[w] = IF ds = {} THEN None ELSE r
        /\ \A v \in Reconcilers \ {w} : job'[v] = job[v]
    BY <1>1 DEF Begin, TypeOK
  <1>4. queue' \in [Reconcilers -> SUBSET (Instances \cup Namespaces)]
    BY <1>1 DEF Begin, TypeOK
  <1>5. TypeOK'
    BY <1>1, <1>2, <1>3, <1>4 DEF caches, cluster, TypeOK, Consistent
  <1>6. JobOK'
    BY <1>1, <1>2, <1>3, WriterNames DEF SidecarInv, JobOK
  <1>7. CleanOK'
    BY <1>2, WriterNames DEF SidecarInv, CleanOK
  <1> QED BY <1>5, <1>6, <1>7 DEF SidecarInv, Consistent

(* A list failed.                                                          *)
LEMMA FailedKept ==
    ASSUME SidecarInv, faults' \in 0..MaxFaults,
           UNCHANGED <<todo, fresh, job, queue>>,
           UNCHANGED <<caches, cluster, deps, out, ticked, edits>>
    PROVE  SidecarInv'
  <1>1. TypeOK
    BY DEF SidecarInv
  <1>2. TypeOK'
    BY <1>1 DEF caches, cluster, TypeOK, Consistent
  <1> QED BY <1>2 DEF SidecarInv, Consistent, JobOK, CleanOK

LEMMA SyncListKept ==
    ASSUME SidecarInv, NEW i \in Instances, SyncList(i)
    PROVE  SidecarInv'
  <1>1. faults' \in 0..MaxFaults /\ UNCHANGED <<caches, cluster, deps, out, ticked, edits>>
    BY FaultCount DEF SyncList, SidecarInv
  <1>2. \/ UNCHANGED <<todo, fresh, job, queue>>
        \/ \E ds \in SUBSET Deployments : Begin("sync", i, ds)
    <2>1. CASE Begin("sync", i, IF jaegers[i] = 0 THEN {}
                                ELSE {d \in Deployments : Synced(i, d)})
      BY <2>1
    <2>2. CASE Begin("sync", i, {d \in Deployments : Synced(i, d)
                                                     /\ deps[d].ann # "none"})
      BY <2>2
    <2> QED BY <2>1, <2>2 DEF SyncList
  <1>3. "sync" \in Reconcilers
    BY DEF Reconcilers
  <1> QED BY <1>1, <1>2, <1>3, BeginKept, FailedKept

LEMMA NamespaceListKept ==
    ASSUME SidecarInv, NEW n \in Namespaces, NamespaceList(n)
    PROVE  SidecarInv'
  <1>1. faults' \in 0..MaxFaults /\ UNCHANGED <<caches, cluster, deps, out, ticked, edits>>
    BY FaultCount DEF NamespaceList, SidecarInv
  <1>2. \/ UNCHANGED <<todo, fresh, job, queue>>
        \/ \E ds \in SUBSET Deployments : Begin("namespace", n, ds)
    <2>1. CASE Begin("namespace", n, {d \in Deployments : Verified(n, d)})
      BY <2>1
    <2> QED BY <2>1 DEF NamespaceList
  <1>3. "namespace" \in Reconcilers
    BY DEF Reconcilers
  <1> QED BY <1>1, <1>2, <1>3, BeginKept, FailedKept

LEMMA CleanListKept ==
    ASSUME SidecarInv, CleanList
    PROVE  SidecarInv'
  <1>1. TypeOK
    BY DEF SidecarInv
  <1>2. PICK ds \in SUBSET Labelled : Listed("clean", ds)
    <2>1. CASE Listed("clean", {d \in Labelled : ~Live(deps[d].label)})
      BY <2>1
    <2> QED BY <2>1 DEF CleanList
  <1>3. /\ todo' \in [Operator -> SUBSET Deployments]
        /\ todo'["clean"] = ds /\ \A v \in Operator \ {"clean"} : todo'[v] = todo[v]
        /\ fresh' \in [Writers -> SUBSET Deployments]
    BY <1>1, <1>2, WriterNames DEF Listed, Labelled, TypeOK
  <1>4. faults' \in 0..MaxFaults
    BY <1>1, FaultCount DEF CleanList
  <1>5. TypeOK'
    BY <1>1, <1>3, <1>4 DEF CleanList, caches, cluster, TypeOK, Consistent
  <1>6. JobOK'
    BY <1>3, WriterNames DEF CleanList, SidecarInv, JobOK
  <1>7. CleanOK'
    BY <1>3 DEF CleanList, CleanOK, Labelled
  <1> QED BY <1>5, <1>6, <1>7 DEF SidecarInv, CleanList, Consistent

(* What a writer of the operator may make of a deployment it has a fresh   *)
(* copy of.                                                                *)
LEMMA Written ==
    ASSUME SidecarInv, NEW w \in Operator, NEW d \in Deployments, Write(w, d)
    PROVE  \/ /\ d \in todo[w] /\ UNCHANGED <<deps, ticked>> /\ Refused(w, d)
           \/ /\ d \in todo[w] /\ d \in fresh[w]
              /\ \E r \in Answers(d, Content(w, d)) \cup FaultyAnswers(d, Content(w, d)) :
                    deps' = [deps EXCEPT ![d] = r]
              /\ fresh' = [v \in Writers |-> fresh[v] \ {d}]
              /\ ticked' = (ticked /\ w = "clean")
              /\ Stored(w, d)
  BY DEF Write

LEMMA ContentSound ==
    ASSUME TypeOK, NEW w, NEW d \in Deployments
    PROVE  Sound(Content(w, d))
  BY StoredFacts, CleanFacts DEF Content

LEMMA StoredKept ==
    ASSUME SidecarInv, NEW w \in Operator, NEW d \in Deployments, Stored(w, d),
           d \in todo[w], NEW r, Sound(r), deps' = [deps EXCEPT ![d] = r],
           fresh' = [v \in Writers |-> fresh[v] \ {d}],
           ticked' \in BOOLEAN, faults' \in 0..MaxFaults,
           UNCHANGED <<caches, cluster, out, edits>>
    PROVE  SidecarInv'
  <1>1. TypeOK
    BY DEF SidecarInv
  <1>2. /\ todo' \in [Operator -> SUBSET Deployments]
        /\ todo'[w] = todo[w] \ {d} /\ \A v \in Operator \ {w} : todo'[v] = todo[v]
    BY <1>1 DEF Stored, TypeOK
  <1>3. /\ job' \in [Reconcilers -> Instances \cup Namespaces \cup {None}]
        /\ \A v \in Reconcilers :
              job'[v] = IF v = w /\ todo[v] = {d} THEN None ELSE job[v]
    BY <1>1 DEF Stored, TypeOK
  <1>4. todo'["clean"] \subseteq todo["clean"]
    BY <1>2, WriterNames
  <1>5. /\ deps' \in [Deployments -> DeploymentObjects]
        /\ \A e \in Deployments : Consistent(deps'[e])
        /\ fresh' \in [Writers -> SUBSET Deployments] /\ CleanOK'
    BY <1>4, DepsWritten
  <1>6. TypeOK'
    BY <1>1, <1>2, <1>3, <1>5 DEF Stored, caches, cluster, TypeOK, Consistent
  <1>7. JobOK'
    BY <1>2, <1>3, WriterNames DEF SidecarInv, JobOK
  <1> QED BY <1>5, <1>6, <1>7 DEF SidecarInv, Consistent

LEMMA RefusedKept ==
    ASSUME SidecarInv, NEW w \in Operator, NEW d \in Deployments, Refused(w, d),
           d \in todo[w], faults' \in 0..MaxFaults,
           UNCHANGED <<caches, cluster, out, edits, deps, ticked>>
    PROVE  SidecarInv'
  <1>1. TypeOK
    BY DEF SidecarInv
  <1>2. /\ todo' \in [Operator -> SUBSET Deployments]
        /\ todo'[w] = IF w = "clean" THEN todo[w] \ {d} ELSE {}
        /\ \A v \in Operator \ {w} : todo'[v] = todo[v]
    BY <1>1 DEF Refused, TypeOK
  <1>3. /\ fresh' \in [Writers -> SUBSET Deployments]
        /\ fresh'["clean"] \subseteq fresh["clean"]
    BY <1>1, WriterNames DEF Refused, TypeOK
  <1>4. /\ job' \in [Reconcilers -> Instances \cup Namespaces \cup {None}]
        /\ \A v \in Reconcilers \ {w} : job'[v] = job[v]
    BY <1>1 DEF Refused, TypeOK
  <1>5. \A v \in Reconcilers : v = w => job[v] \in Instances \cup Namespaces
    BY <1>1 DEF SidecarInv, JobOK, TypeOK
  <1>6. queue' \in [Reconcilers -> SUBSET (Instances \cup Namespaces)]
    BY <1>1, <1>5 DEF Refused, TypeOK
  <1>7. TypeOK'
    BY <1>1, <1>2, <1>3, <1>4, <1>6 DEF caches, cluster, TypeOK, Consistent
  <1>8. JobOK'
    BY <1>2, <1>4, WriterNames DEF SidecarInv, JobOK
  <1>9. CleanOK'
    BY <1>2, <1>3, WriterNames DEF SidecarInv, CleanOK
  <1> QED BY <1>7, <1>8, <1>9 DEF SidecarInv, Consistent

LEMMA WriteKept ==
    ASSUME SidecarInv, NEW w \in Operator, NEW d \in Deployments, Write(w, d)
    PROVE  SidecarInv'
  <1>1. TypeOK /\ ticked \in BOOLEAN
    BY DEF SidecarInv, TypeOK
  <1>2. faults' \in 0..MaxFaults /\ UNCHANGED <<caches, cluster, out, edits>>
    BY <1>1, FaultCount DEF Write
  <1>3. CASE d \in todo[w] /\ UNCHANGED <<deps, ticked>> /\ Refused(w, d)
    BY <1>2, <1>3, RefusedKept
  <1>4. CASE /\ d \in todo[w]
             /\ \E r \in Answers(d, Content(w, d)) \cup FaultyAnswers(d, Content(w, d)) :
                    deps' = [deps EXCEPT ![d] = r]
             /\ fresh' = [v \in Writers |-> fresh[v] \ {d}]
             /\ ticked' = (ticked /\ w = "clean")
             /\ Stored(w, d)
    <2>1. PICK r \in Answers(d, Content(w, d)) \cup FaultyAnswers(d, Content(w, d)) :
             deps' = [deps EXCEPT ![d] = r]
      BY <1>4
    <2>2. Sound(r)
      BY <1>1, <2>1, ContentSound, AnswerFacts
    <2>3. ticked' \in BOOLEAN
      BY <1>1, <1>4
    <2> QED BY <1>2, <1>4, <2>1, <2>2, <2>3, StoredKept
  <1> QED BY <1>3, <1>4, Written

LEMMA SidecarStutter ==
    ASSUME SidecarInv, UNCHANGED vars
    PROVE  SidecarInv'
  BY DEF SidecarInv, TypeOK, Consistent, JobOK, CleanOK, vars

LEMMA SidecarInit ==
    Init => SidecarInv
  <1> SUFFICES ASSUME Init PROVE SidecarInv
    OBVIOUS
  <1>1. {0, 1} \subseteq 0..(MaxEdits + 1) /\ 0 \in 0..MaxEdits /\ 0 \in 0..MaxFaults
    BY SidecarAssumption
  <1>2. \A d \in Deployments : Sound(deps[d])
    <2> TAKE d \in Deployments
    <2>1. CASE deps[d] = NoDeployment
      BY <2>1, NothingSound
    <2>2. CASE deps[d] \in Manifests /\ deps[d].agent = NoAgent
      <3>1. deps[d] \in DeploymentObjects /\ deps[d].label = "none"
        BY <2>2 DEF Manifests
      <3> QED BY <2>2, <3>1, NobodysAgents DEF Sound, Consistent
    <2> QED BY <2>1, <2>2 DEF Init
  <1>3. deps \in [Deployments -> DeploymentObjects]
    <2>1. NoDeployment \in DeploymentObjects
      BY NothingSound DEF Sound
    <2> QED BY <2>1 DEF Init, Manifests
  <1>4. queue \in [Reconcilers -> SUBSET (Instances \cup Namespaces)]
    <2>1. {i \in Instances : jaegers[i] # 0} \in SUBSET Instances
      OBVIOUS
    <2> QED BY <2>1, FullQueue DEF Init
  <1>5. /\ out \in [dep : Deployments \cup {None}, obj : DeploymentObjects]
        /\ out.obj = NoDeployment
    BY NothingSound DEF Init, NoRequest, Sound
  <1>6. Consistent(out.obj)
    BY <1>5, NothingSound DEF Sound
  <1>7. /\ todo = [w \in Operator |-> {}] /\ fresh = [w \in Writers |-> {}]
        /\ job = [w \in Reconcilers |-> None]
    BY DEF Init
  <1>8. jaegers \in [Instances -> 0..(MaxEdits + 1)] /\ jcache = jaegers
    BY <1>1 DEF Init
  <1>9. TypeOK
    BY <1>1, <1>2, <1>3, <1>4, <1>5, <1>7, <1>8 DEF Init, TypeOK, Sound
  <1>10. JobOK /\ CleanOK
    BY <1>7, WriterNames DEF JobOK, CleanOK
  <1> QED BY <1>6, <1>9, <1>10 DEF SidecarInv

LEMMA SidecarStep ==
    SidecarInv /\ [Next]_vars => SidecarInv'
  <1> SUFFICES ASSUME SidecarInv, [Next]_vars PROVE SidecarInv'
    OBVIOUS
  <1>1. CASE User
    BY <1>1, UserJaegerKept, UserNamespaceKept, UserDeploymentKept, UserDeleteKept
       DEF User
  <1>2. CASE Cache
    BY <1>2, CacheJaegerKept, CacheNamespaceKept DEF Cache
  <1>3. CASE Sync \/ ReconcileNamespace \/ CleanList
    BY <1>3, SyncListKept, NamespaceListKept, CleanListKept DEF Sync, ReconcileNamespace
  <1> QED BY <1>1, <1>2, <1>3, UserStoreKept, NoteRevisionKept, ResyncKept, RestartKept,
             WriteKept, SidecarStutter DEF Next

LEMMA SidecarInvHolds ==
    Spec => []SidecarInv
  BY SidecarInit, SidecarStep, PTL DEF Spec

-----------------------------------------------------------------------------
(* The label and the container of a sidecar always belong together, and    *)
(* every variable keeps its type: whichever writes race.                   *)
THEOREM SidecarTypeCorrect ==
    Spec => []TypeOK
  <1>1. SidecarInv => TypeOK
    BY DEF SidecarInv
  <1> QED BY <1>1, SidecarInvHolds, PTL

(* No write of the operator replaces or removes a container jaeger-agent   *)
(* of the user's own.  Autoclean does not ask the webhook whose it is; that*)
(* a copy is written only when nobody wrote since is what protects the     *)
(* user there.                                                             *)
THEOREM OwnAgentUntouchedHolds ==
    Spec => OwnAgentUntouched
  <1>1. ASSUME SidecarInv, NEW w \in Operator, NEW d \in Deployments, Write(w, d),
               deps[d].agent = OwnAgent
        PROVE  deps'[d].agent = OwnAgent
    <2>1. TypeOK /\ Sound(deps[d])
      BY <1>1, StoredFacts DEF SidecarInv
    <2>2. deps[d].label = "none"
      BY <1>1, <2>1, NobodysAgents DEF Sound, Consistent
    <2>3. d \in todo[w] /\ d \in fresh[w] => Content(w, d) = deps[d]
      BY <1>1, <2>2 DEF SidecarInv, CleanOK, Content
    <2>4. CASE deps' = deps
      BY <1>1, <2>4
    <2>5. CASE /\ d \in todo[w] /\ d \in fresh[w]
               /\ \E r \in Answers(d, Content(w, d)) \cup FaultyAnswers(d, Content(w, d)) :
                    deps' = [deps EXCEPT ![d] = r]
      <3>1. PICK r \in Answers(d, deps[d]) \cup FaultyAnswers(d, deps[d]) :
              deps' = [deps EXCEPT ![d] = r]
        BY <2>3, <2>5
      <3>2. r = deps[d]
        BY <1>1, <2>1, <3>1, AnswerFacts
      <3> QED BY <1>1, <2>1, <3>1, <3>2 DEF TypeOK
    <2> QED BY <1>1, <2>4, <2>5, Written
  <1>2. SidecarInv /\ [Next]_vars =>
          [\A w \in Operator, d \in Deployments :
              Write(w, d) /\ deps[d].agent = OwnAgent
                => deps'[d].agent = OwnAgent]_vars
    BY <1>1
  <1> QED BY <1>2, SidecarInvHolds, PTL DEF Spec, OwnAgentUntouched

(* A write of a reconciler takes a sidecar away only when the deployment   *)
(* does not ask for it, and never gives the deployment to another instance,*)
(* whatever the caches of the webhook show.                                *)
THEOREM SidecarKeptHolds ==
    Spec => SidecarKept
  <1>1. ASSUME SidecarInv, NEW w \in Reconcilers, NEW d \in Deployments, Write(w, d),
               deps[d].label # "none"
        PROVE  \/ deps'[d].label = deps[d].label
               \/ deps'[d].label = "none" /\ ~Asks(deps[d].ann)
    <2>1. TypeOK /\ Sound(deps[d])
      BY <1>1, StoredFacts DEF SidecarInv
    <2>2. Content(w, d) = deps[d] /\ w \in Operator
      BY WriterNames DEF Content
    <2>3. CASE deps' = deps
      BY <1>1, <2>3
    <2>4. CASE \E r \in Answers(d, deps[d]) \cup FaultyAnswers(d, deps[d]) :
                 deps' = [deps EXCEPT ![d] = r]
      <3>1. PICK r \in Answers(d, deps[d]) \cup FaultyAnswers(d, deps[d]) :
              deps' = [deps EXCEPT ![d] = r]
        BY <2>4
      <3>2. deps'[d] = r
        BY <2>1, <3>1 DEF TypeOK
      <3> QED BY <1>1, <2>1, <3>1, <3>2, AnswerFacts
    <2> QED BY <1>1, <2>2, <2>3, <2>4, Written
  <1>2. SidecarInv /\ [Next]_vars =>
          [\A w \in Reconcilers, d \in Deployments :
              Write(w, d) /\ deps[d].label # "none"
                => \/ deps'[d].label = deps[d].label
                   \/ deps'[d].label = "none" /\ ~Asks(deps[d].ann)]_vars
    BY <1>1
  <1> QED BY <1>2, SidecarInvHolds, PTL DEF Spec, SidecarKept
=============================================================================
