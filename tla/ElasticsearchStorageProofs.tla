--------------------- MODULE ElasticsearchStorageProofs ---------------------
(***************************************************************************)
(* Proofs about ElasticsearchStorage, for any scenario, counts and bounds: *)
(* the secrets of an instance agree after a pass, a valid authority is     *)
(* kept, and the CR, the Elasticsearch object and the arguments of the     *)
(* deployments say the same number of nodes when everybody is done.        *)
(***************************************************************************)
EXTENDS ElasticsearchStorage, SequenceTheorems, TLAPS

Count(nodes) == OpenShiftElasticsearchNodeCount(nodes)
Master == "master-certs"

(* The certificates.  Every file is there; all come from one authority.    *)
Complete == \A f \in Files : files[f] # Missing
Valid == \A f \in Files : ~files[f].due
MadeBy(a) == \A f \in Files : files[f] # Missing => files[f].by = a
StoredBy(a) == \A s \in DOMAIN secrets : \A f \in keyFileNameMap(s) :
                   secrets[s][f].by = a

(* The files are complete and of one authority, or what there is of files  *)
(* and secrets is; an operator that stopped half way is the exception.     *)
AgreeOK == \/ torn
           \/ Complete /\ \E a \in Nat : MadeBy(a)
           \/ \E a \in Nat : MadeBy(a) /\ StoredBy(a)

(* A valid authority in the secret is the one in the files, if any.        *)
MasterOK ==
    Master \in DOMAIN secrets /\ ~secrets[Master]["ca.crt"].due =>
        files["ca.crt"] \in {Missing, secrets[Master]["ca.crt"]}

(* Who manages the certificates never changes.                             *)
ManagedOK ==
    /\ cr.useCertManagement => DOMAIN secrets = {}
    /\ op.pc # "idle" => op.inst.useCertManagement = cr.useCertManagement
    /\ ec.pc = "update" => ec.inst.useCertManagement = cr.useCertManagement

(* The pass: from complete files, over secrets that are written one by     *)
(* one, to secrets that agree.                                             *)
FilesOK ==
    op.pc \in {"secrets", "applySecrets"} /\ ~cr.useCertManagement =>
        Complete /\ (fresh => Valid)
WritesOK ==
    op.pc = "applySecrets" =>
        /\ cr.useCertManagement => op.create = {} /\ op.update = {}
        /\ fresh /\ ~cr.useCertManagement =>
             /\ SecretNames \subseteq DOMAIN secrets \cup op.create
             /\ \A s \in DOMAIN secrets \ (op.create \cup op.update) :
                   \A f \in keyFileNameMap(s) : secrets[s][f] = files[f]
SecretsDone ==
    /\ DOMAIN secrets = SecretNames
    /\ \A s \in SecretNames : \A f \in keyFileNameMap(s) : ~secrets[s][f].due
    /\ torn \/ \E a \in Nat : StoredBy(a)
DoneOK ==
    /\ \/ op.pc \in {"elasticsearches", "applyElasticsearches", "deployments", "store"}
       \/ op.pc = "idle" /\ "jaeger" \notin queued
    /\ fresh /\ ~cr.useCertManagement
    => SecretsDone

(* A key does not expire.                                                  *)
KeyOK ==
    /\ ~files["ca.key"].due
    /\ \A s \in DOMAIN secrets :
          "ca.key" \in keyFileNameMap(s) => ~secrets[s]["ca.key"].due

CertInv ==
    TypeOK /\ KeyOK /\ AgreeOK /\ MasterOK /\ ManagedOK /\ FilesOK /\ WritesOK /\ DoneOK

(* The number of nodes.  Somebody will look at the object again.           *)
Coming == "cached" \in stale \/ "es" \in queued
Agree == cr.count = Count(es.nodes) \/ Coming \/ ec.pc # "idle"

CacheOK == "cached" \notin stale => cached = es
EcOK == ec.pc # "idle" => ec.count = Count(es.nodes) \/ ~es.there \/ Coming
SharedOK == cr.doNotProvision /\ es.there /\ cr.count # 0 => Agree
AppliedOK ==
    op.pc \in {"idle", "deployments", "store"} /\ "jaeger" \notin queued
      /\ es.there /\ cr.count # 0 => Agree
PassOK ==
    op.pc # "idle" =>
        /\ op.inst = normalizeElasticsearch(op.orig)
        /\ "jaeger" \notin queued => op.orig = cr
ArgumentsOK ==
    /\ op.pc = "store" => deployed = injectArguments(op.inst)
    /\ op.pc = "idle" /\ "jaeger" \notin queued /\ cr.count # 0 =>
          deployed = injectArguments(cr)

CountInv == CacheOK /\ EcOK /\ SharedOK /\ AppliedOK /\ PassOK /\ ArgumentsOK

-----------------------------------------------------------------------------
(* The total of the nodes of one or two groups.                            *)
LEMMA CountOfNone ==
    ASSUME NEW nodes \in Seq(Nat), Len(nodes) = 0
    PROVE  Count(nodes) = 0
  <1> DEFINE Sum(g) == g = [i \in 0..Len(nodes) |->
                              IF i = 0 THEN 0 ELSE g[i - 1] + nodes[i]]
             h == [i \in 0..0 |-> 0]
  <1>1. Sum(h)
    OBVIOUS
  <1>2. Sum(CHOOSE g : Sum(g))
    BY <1>1
  <1>3. (CHOOSE g : Sum(g))[0] = 0
    BY <1>2
  <1> QED BY <1>3 DEF Count, OpenShiftElasticsearchNodeCount

LEMMA CountOfOne ==
    ASSUME NEW nodes \in Seq(Nat), Len(nodes) = 1
    PROVE  Count(nodes) = nodes[1]
  <1> DEFINE Sum(g) == g = [i \in 0..Len(nodes) |->
                              IF i = 0 THEN 0 ELSE g[i - 1] + nodes[i]]
             h == [i \in 0..1 |-> IF i = 0 THEN 0 ELSE nodes[1]]
  <1>0. nodes[1] \in Nat
    BY ElementOfSeq
  <1>1. Sum(h)
    BY <1>0
  <1>2. Sum(CHOOSE g : Sum(g))
    BY <1>1
  <1>3. (CHOOSE g : Sum(g))[1] = nodes[1]
    BY <1>0, <1>2
  <1> QED BY <1>3 DEF Count, OpenShiftElasticsearchNodeCount

LEMMA CountOfTwo ==
    ASSUME NEW nodes \in Seq(Nat), Len(nodes) = 2
    PROVE  Count(nodes) = nodes[1] + nodes[2]
  <1> DEFINE Sum(g) == g = [i \in 0..Len(nodes) |->
                              IF i = 0 THEN 0 ELSE g[i - 1] + nodes[i]]
             h == [i \in 0..2 |-> IF i = 0 THEN 0 ELSE
                                  IF i = 1 THEN nodes[1] ELSE nodes[1] + nodes[2]]
  <1>0. nodes[1] \in Nat /\ nodes[2] \in Nat
    <2>1. 1 \in 1..Len(nodes) /\ 2 \in 1..Len(nodes)
      OBVIOUS
    <2> QED BY <2>1, ElementOfSeq
  <1>1. Sum(h)
    BY <1>0
  <1>2. Sum(CHOOSE g : Sum(g))
    BY <1>1
  <1> DEFINE c == CHOOSE g : Sum(g)
  <1>3. c = [i \in 0..2 |-> IF i = 0 THEN 0 ELSE c[i - 1] + nodes[i]]
    BY <1>2
  <1>4. Count(nodes) = c[2]
    BY DEF Count, OpenShiftElasticsearchNodeCount
  <1> HIDE DEF c
  <1>5. c[0] = 0
    BY <1>3
  <1>6. c[1] = c[0] + nodes[1]
    BY <1>3
  <1>7. c[2] = c[1] + nodes[2]
    BY <1>3
  <1> QED BY <1>0, <1>4, <1>5, <1>6, <1>7

LEMMA CountType ==
    ASSUME NEW nodes \in Seq(Nat), Len(nodes) <= 2
    PROVE  Count(nodes) \in Nat
  <1>1. Len(nodes) = 0 \/ Len(nodes) = 1 \/ Len(nodes) = 2
    <2>1. Len(nodes) \in Nat
      BY LenProperties
    <2>2. \A n \in Nat : n <= 2 => n = 0 \/ n = 1 \/ n = 2
      OBVIOUS
    <2> QED BY <2>1, <2>2
  <1>2. CASE Len(nodes) = 0
    <2>1. Count(nodes) = 0
      BY <1>2, CountOfNone
    <2> QED BY <2>1
  <1>3. CASE Len(nodes) = 1
    <2>1. nodes[1] \in Nat
      BY <1>3, ElementOfSeq
    <2> QED BY <1>3, <2>1, CountOfOne
  <1>4. CASE Len(nodes) = 2
    <2>1. 1 \in 1..Len(nodes) /\ 2 \in 1..Len(nodes)
      BY <1>4
    <2>2. nodes[1] \in Nat /\ nodes[2] \in Nat
      BY <2>1, ElementOfSeq
    <2>3. Count(nodes) = nodes[1] + nodes[2]
      BY <1>4, CountOfTwo
    <2> QED BY <2>2, <2>3
  <1> QED BY <1>1, <1>2, <1>3, <1>4

LEMMA CountFacts ==
    ASSUME NEW o \in ESObjects
    PROVE  Count(o.nodes) \in Nat
  BY CountType DEF ESObjects

(* The object made for an instance has the nodes that it asks for.         *)
LEMMA ObjectFacts ==
    ASSUME NEW inst \in Sections
    PROVE  /\ Elasticsearch(inst) \in ESObjects
           /\ Elasticsearch(inst).there <=> ~inst.doNotProvision
           /\ ~inst.doNotProvision => Count(Elasticsearch(inst).nodes) = inst.count
  <1>1. inst.count \in Nat
    BY DEF Sections
  <1>2. /\ getNodes(inst) \in Seq(Nat) /\ Len(getNodes(inst)) <= 2
        /\ Count(getNodes(inst)) = inst.count
    <2>1. CASE inst.count <= 3
      <3>1. /\ getNodes(inst) \in Seq(Nat) /\ Len(getNodes(inst)) = 1
            /\ getNodes(inst)[1] = inst.count
        BY <1>1, <2>1 DEF getNodes
      <3> QED BY <3>1, CountOfOne
    <2>2. CASE ~(inst.count <= 3)
      <3>1. 3 \in Nat /\ inst.count - 3 \in Nat /\ 3 + (inst.count - 3) = inst.count
        BY <1>1, <2>2
      <3>2. getNodes(inst) = <<3, inst.count - 3>>
        BY <2>2 DEF getNodes
      <3>3. /\ getNodes(inst) \in Seq(Nat) /\ Len(getNodes(inst)) = 2
            /\ getNodes(inst)[1] = 3 /\ getNodes(inst)[2] = inst.count - 3
        BY <3>1, <3>2
      <3>4. Count(getNodes(inst)) = getNodes(inst)[1] + getNodes(inst)[2]
        BY <3>3, CountOfTwo
      <3> QED BY <3>1, <3>3, <3>4
    <2> QED BY <2>1, <2>2
  <1>3. NoObject \in ESObjects /\ NoObject.there = FALSE
    <2>1. <<>> \in Seq(Nat) /\ Len(<<>>) <= 2
      OBVIOUS
    <2> QED BY <2>1 DEF NoObject, ESObjects
  <1>4. CASE inst.doNotProvision
    BY <1>3, <1>4 DEF Elasticsearch
  <1>5. CASE ~inst.doNotProvision
    <2> DEFINE n == getNodes(inst)
    <2>1. Elasticsearch(inst) = [there |-> TRUE, ours |-> TRUE, nodes |-> n]
      BY <1>5 DEF Elasticsearch
    <2> HIDE DEF n
    <2>2. n \in Seq(Nat) /\ Len(n) <= 2 /\ Count(n) = inst.count
      BY <1>2 DEF n
    <2>3. /\ Elasticsearch(inst) \in ESObjects /\ Elasticsearch(inst).there = TRUE
          /\ Elasticsearch(inst).nodes = n
      BY <2>1, <2>2 DEF ESObjects
    <2> QED BY <1>5, <2>2, <2>3
  <1> QED BY <1>4, <1>5

LEMMA NothingThere ==
    /\ NoObject \in ESObjects /\ NoObject.there = FALSE
    /\ NoSection \in Sections
  <1>1. <<>> \in Seq(Nat) /\ Len(<<>>) <= 2
    OBVIOUS
  <1> QED BY <1>1 DEF NoObject, ESObjects, NoSection, Sections, Policies

LEMMA NormalizeFacts ==
    ASSUME NEW inst \in Sections
    PROVE  /\ normalizeElasticsearch(inst) \in Sections
           /\ normalizeElasticsearch(inst).count > 0
           /\ inst.count # 0 => normalizeElasticsearch(inst).count = inst.count
           /\ /\ inst.count # 0
              /\ normalizeElasticsearch(inst).policy = inst.policy
              => normalizeElasticsearch(inst) = inst
           /\ normalizeElasticsearch(inst).doNotProvision = inst.doNotProvision
           /\ normalizeElasticsearch(inst).useCertManagement = inst.useCertManagement
  <1> DEFINE c == IF inst.count = 0 THEN 3 ELSE inst.count
             p == IF inst.policy # "" THEN inst.policy
                  ELSE IF c = 1 THEN "ZeroRedundancy" ELSE "SingleRedundancy"
  <1>1. inst.count \in Nat /\ inst.policy \in Policies
    BY DEF Sections
  <1>2. c \in Nat /\ c > 0 /\ (inst.count # 0 => c = inst.count)
    BY <1>1
  <1>3. p \in Policies
    BY <1>1 DEF Policies
  <1>4. normalizeElasticsearch(inst) = [inst EXCEPT !.count = c, !.policy = p]
    BY DEF normalizeElasticsearch
  <1> HIDE DEF c, p
  <1> QED BY <1>2, <1>3, <1>4 DEF Sections

LEMMA ReplicaFacts ==
    ASSUME NEW inst \in Sections, inst.count > 0
    PROVE  injectArguments(inst) \in [shards : Nat, replicas : Nat]
  <1>1. inst.count \in Nat
    BY DEF Sections
  <1>2. inst.count - 1 \in Nat /\ (inst.count - 1) \div 2 \in Nat
    BY <1>1
  <1>3. calculateReplicaShards(inst.policy, inst.count) \in Nat
    BY <1>2 DEF calculateReplicaShards
  <1> HIDE DEF calculateReplicaShards
  <1> QED BY <1>1, <1>3 DEF injectArguments

-----------------------------------------------------------------------------
(* The certificates.                                                       *)
LEMMA NameFacts ==
    /\ SecretNames = {Master, "elasticsearch", "jaeger-elasticsearch", "curator"}
    /\ Files = {"ca.crt", "ca.key", "elasticsearch", "user.jaeger", "curator"}
    /\ keyFileNameMap(Master) = {"ca.crt", "ca.key"}
    /\ \A s \in SecretNames : keyFileNameMap(s) \subseteq Files
                              /\ "ca.crt" \in keyFileNameMap(s)
  <1>1. 1..4 = {1, 2, 3, 4}
    OBVIOUS
  <1>2. /\ Secrets[1] = Master /\ Secrets[2] = "elasticsearch"
        /\ Secrets[3] = "jaeger-elasticsearch" /\ Secrets[4] = "curator"
    BY DEF Secrets, Master
  <1>3. SecretNames = {Master, "elasticsearch", "jaeger-elasticsearch", "curator"}
    BY <1>1, <1>2 DEF SecretNames
  <1>4. /\ keyFileNameMap(Master) = {"ca.crt", "ca.key"}
        /\ keyFileNameMap("elasticsearch") = {"ca.crt", "elasticsearch"}
        /\ keyFileNameMap("jaeger-elasticsearch") = {"ca.crt", "user.jaeger"}
        /\ keyFileNameMap("curator") = {"ca.crt", "curator"}
    BY DEF keyFileNameMap, Master
  <1> QED BY <1>3, <1>4 DEF Files, Leaves

LEMMA CopyFacts ==
    /\ Missing \in Copies
    /\ EmptyDir \in [Files -> Copies] /\ \A f \in Files : EmptyDir[f] = Missing
    /\ \A c \in Copies : c # Missing => c.by \in Nat /\ c.by # 0
    /\ \A n \in Nat : n # 0 => /\ Issued(n) \in Copies /\ Issued(n) # Missing
                               /\ Issued(n).by = n /\ Issued(n).due = FALSE
  BY DEF Missing, Copies, EmptyDir, Issued

LEMMA ExpiredFacts ==
    ASSUME NEW c \in Copies
    PROVE  /\ Expired(c) \in Copies /\ Expired(c).by = c.by
           /\ Expired(c) = Missing <=> c = Missing
           /\ c # Missing => Expired(c).due
  <1>1. c \in [by : Nat, due : BOOLEAN] /\ (c.by = 0 => c.due = FALSE)
    BY DEF Copies
  <1>2. c.by \in Nat /\ c.due \in BOOLEAN /\ c = [by |-> c.by, due |-> c.due]
    BY <1>1
  <1>3. Expired(c) = [by |-> c.by, due |-> c.by # 0]
    BY <1>1 DEF Expired
  <1>4. CASE c.by = 0
    <2>1. Expired(c) = [by |-> 0, due |-> FALSE]
      BY <1>3, <1>4
    <2>2. c = Missing
      BY <1>1, <1>2, <1>4 DEF Missing
    <2> QED BY <2>1, <2>2 DEF Missing, Copies
  <1>5. CASE c.by # 0
    <2>1. Expired(c) = [by |-> c.by, due |-> TRUE]
      BY <1>3, <1>5
    <2>2. c # Missing
      BY <1>5 DEF Missing
    <2> QED BY <1>2, <1>5, <2>1, <2>2 DEF Missing, Copies
  <1> QED BY <1>4, <1>5

LEMMA MinFacts ==
    ASSUME NEW S \in SUBSET (1..4), S # {}
    PROVE  Min(S) \in S /\ (1 \in S => Min(S) = 1)
  <1>1. 1..4 = {1, 2, 3, 4}
    OBVIOUS
  <1>2. \E x \in S : \A y \in S : x =< y
    <2>1. CASE 1 \in S
      BY <1>1, <2>1
    <2>2. CASE 1 \notin S /\ 2 \in S
      BY <1>1, <2>2
    <2>3. CASE 1 \notin S /\ 2 \notin S /\ 3 \in S
      BY <1>1, <2>3
    <2>4. CASE S = {4}
      BY <2>4
    <2> QED BY <1>1, <2>1, <2>2, <2>3, <2>4
  <1>3. Min(S) \in S /\ \A y \in S : Min(S) =< y
    BY <1>2 DEF Min
  <1>4. \A n \in 1..4 : n =< 1 => n = 1
    OBVIOUS
  <1> QED BY <1>3, <1>4

(* Reading the secrets: what is there stays; the authority comes from the  *)
(* secret of the master.                                                   *)
LEMMA ExtractFacts ==
    ASSUME TypeOK
    PROVE  LET dir == extractSecretsToFile(files, secrets)
           IN  /\ dir \in [Files -> Copies]
               /\ \A f \in Files :
                     /\ files[f] # Missing => dir[f] = files[f]
                     /\ files[f] = Missing =>
                          \/ dir[f] = Missing
                          \/ \E s \in DOMAIN secrets :
                                f \in keyFileNameMap(s) /\ dir[f] = secrets[s][f]
               /\ Master \in DOMAIN secrets => \A f \in {"ca.crt", "ca.key"} :
                     files[f] = Missing => dir[f] = secrets[Master][f]
  <1> DEFINE dir == extractSecretsToFile(files, secrets)
             From(f) == {i \in 1..4 : /\ Secrets[i] \in DOMAIN secrets
                                      /\ f \in keyFileNameMap(Secrets[i])}
  <1>1. \A f \in Files :
          dir[f] = IF files[f] # Missing \/ From(f) = {} THEN files[f]
                   ELSE secrets[Secrets[Min(From(f))]][f]
    BY DEF extractSecretsToFile
  <1>2. \A f \in Files : From(f) # {} =>
          /\ Min(From(f)) \in From(f) /\ (1 \in From(f) => Min(From(f)) = 1)
    BY MinFacts
  <1>3. \A f \in Files :
          /\ files[f] # Missing => dir[f] = files[f]
          /\ files[f] = Missing =>
                \/ dir[f] = Missing
                \/ \E s \in DOMAIN secrets :
                      f \in keyFileNameMap(s) /\ dir[f] = secrets[s][f]
    BY <1>1, <1>2
  <1>4. /\ files \in [Files -> Copies]
        /\ \A s \in DOMAIN secrets : \A f \in keyFileNameMap(s) : secrets[s][f] \in Copies
    BY DEF TypeOK
  <1>5. dir \in [Files -> Copies]
    <2>1. \A f \in Files : dir[f] \in Copies
      BY <1>3, <1>4
    <2>2. dir = [f \in Files |-> dir[f]]
      BY DEF extractSecretsToFile
    <2> HIDE DEF dir
    <2> QED BY <2>1, <2>2
  <1>6. ASSUME Master \in DOMAIN secrets, NEW f \in {"ca.crt", "ca.key"},
               files[f] = Missing
        PROVE  dir[f] = secrets[Master][f]
    <2>1. Secrets[1] = Master /\ 1 \in 1..4 /\ f \in Files
      BY NameFacts DEF Secrets, Master
    <2>2. f \in keyFileNameMap(Master)
      BY NameFacts
    <2>3. 1 \in From(f)
      BY <1>6, <2>1, <2>2
    <2>4. Min(From(f)) = 1
      BY <1>2, <2>1, <2>3
    <2> QED BY <1>1, <1>6, <2>1, <2>3, <2>4
  <1> QED BY <1>3, <1>5, <1>6

(* The script: complete and valid files, of one authority if that was so   *)
(* before, or if it made a new one.                                        *)
LEMMA GenerationFacts ==
    ASSUME NEW dir \in [Files -> Copies], NEW a \in Nat, a # 0
    PROVE  LET out == cert_generation(dir, a)
           IN  /\ out \in [Files -> Copies]
               /\ \A f \in Files : out[f] # Missing
               /\ dir["ca.key"].due = FALSE => \A f \in Files : ~out[f].due
               /\ NeedsAuthority(dir) => \A f \in Files : out[f].by = a
               /\ ~NeedsAuthority(dir) =>
                    /\ out["ca.crt"] = dir["ca.crt"]
                    /\ \A b \in Nat : (\A f \in Files : dir[f] # Missing => dir[f].by = b)
                          => \A f \in Files : out[f].by = b
  <1> DEFINE g == cert_generation(dir, a)
             new == NeedsAuthority(dir)
             key == IF new THEN Issued(a) ELSE dir["ca.key"]
  <1>1. {"ca.crt", "ca.key"} \subseteq Files
    BY NameFacts
  <1>2. /\ g["ca.crt"] = IF new THEN Issued(a) ELSE dir["ca.crt"]
        /\ g["ca.key"] = key
        /\ \A f \in Files \ {"ca.crt", "ca.key"} :
              g[f] = IF new \/ dir[f] = Missing \/ dir[f].due
                     THEN Issued(key.by) ELSE dir[f]
        /\ g = [f \in Files |-> g[f]]
    BY <1>1 DEF cert_generation
  <1>3. ~new => /\ dir["ca.crt"] # Missing /\ dir["ca.key"] # Missing
                /\ ~dir["ca.crt"].due
    BY DEF NeedsAuthority
  <1>4. /\ Issued(a) \in Copies /\ Issued(a) # Missing /\ Issued(a).by = a
        /\ Issued(a).due = FALSE
    BY CopyFacts
  <1>5. key \in Copies /\ key # Missing /\ key.by \in Nat /\ key.by # 0
    BY <1>1, <1>3, <1>4, CopyFacts
  <1>6. /\ Issued(key.by) \in Copies /\ Issued(key.by) # Missing
        /\ Issued(key.by).by = key.by /\ Issued(key.by).due = FALSE
    BY <1>5, CopyFacts
  <1> HIDE DEF g, new
  <1>7. \A f \in Files : g[f] \in Copies /\ g[f] # Missing
    BY <1>1, <1>2, <1>3, <1>4, <1>5, <1>6
  <1>8. dir["ca.key"].due = FALSE => \A f \in Files : ~g[f].due
    BY <1>2, <1>3, <1>4, <1>6
  <1>9. new => \A f \in Files : g[f].by = a
    BY <1>2, <1>4, <1>6
  <1>10. ~new => \A b \in Nat : (\A f \in Files : dir[f] # Missing => dir[f].by = b)
                    => \A f \in Files : g[f].by = b
    BY <1>1, <1>2, <1>3, <1>6
  <1>11. g \in [Files -> Copies]
    BY <1>2, <1>7
  <1> QED BY <1>2, <1>7, <1>8, <1>9, <1>10, <1>11 DEF g, new

-----------------------------------------------------------------------------
(* Types.  Those of the certificates need the invariant below.             *)
Passes == [pc : {"idle", "certs", "secrets", "applySecrets", "elasticsearches",
                 "applyElasticsearches", "deployments", "store"},
           orig : Sections, inst : Sections, create : SUBSET SecretNames,
           update : SUBSET SecretNames, listed : BOOLEAN]
EsPasses == [pc : {"idle", "list", "update"}, count : Nat, inst : Sections]
ControlType ==
    /\ cr \in Sections
    /\ es \in ESObjects /\ cached \in ESObjects
    /\ op \in Passes
    /\ op.pc # "idle" => op.inst.count > 0
    /\ ec \in EsPasses
    /\ queued \subseteq {"jaeger", "es"}
    /\ stale \subseteq {"op.cr", "op.es", "ec.cr", "cached"}
    /\ deployed \in [shards : Nat, replicas : Nat]
    /\ issued \in Nat
    /\ fresh \in BOOLEAN /\ torn \in BOOLEAN
    /\ events \in 0..MaxEvents /\ faults \in 0..MaxFaults
CertType ==
    /\ DOMAIN secrets \subseteq SecretNames
    /\ secrets = [s \in DOMAIN secrets |->
                    [f \in keyFileNameMap(s) |-> secrets[s][f]]]
    /\ \A s \in DOMAIN secrets : \A f \in keyFileNameMap(s) :
           secrets[s][f] \in Copies /\ secrets[s][f] # Missing
    /\ files \in [Files -> Copies]

LEMMA TypeParts ==
    TypeOK <=> ControlType /\ CertType
  BY DEF TypeOK, ControlType, CertType, Passes, EsPasses

LEMMA TypePartsNext ==
    ControlType' /\ CertType' => TypeOK'
  BY DEF TypeOK, ControlType, CertType, Passes, EsPasses

LEMMA BoundsKept ==
    ASSUME ControlType, \/ Succeeds \/ Fails \/ \E k : Event(k)
    PROVE  events' \in 0..MaxEvents /\ faults' \in 0..MaxFaults
  <1>1. /\ events \in 0..MaxEvents /\ faults \in 0..MaxFaults
        /\ MaxEvents \in Nat /\ MaxFaults \in Nat
    BY StorageAssumption DEF ControlType
  <1>2. CASE Succeeds
    BY <1>1, <1>2 DEF Succeeds, bounds
  <1>3. CASE Fails
    BY <1>1, <1>3 DEF Fails
  <1>4. CASE \E k : Event(k)
    BY <1>1, <1>4 DEF Event
  <1> QED BY <1>2, <1>3, <1>4

(* What the webhook makes of a section.                                    *)
LEMMA AdmittedFacts ==
    ASSUME ControlType, NEW inst \in Sections
    PROVE  /\ Admitted(inst) \in Sections
           /\ Admitted(inst).policy = inst.policy
           /\ Admitted(inst).doNotProvision = inst.doNotProvision
           /\ Admitted(inst).useCertManagement = inst.useCertManagement
           /\ ~inst.doNotProvision => Admitted(inst) = inst
           /\ inst.doNotProvision => Admitted(inst).count = Count(cached.nodes)
  <1> DEFINE n == Count(cached.nodes)
  <1>1. n \in Nat
    BY CountFacts DEF ControlType
  <1>2. Admitted(inst) = IF ~inst.doNotProvision THEN inst
                         ELSE [inst EXCEPT !.count = n]
    BY DEF Admitted, Count
  <1> HIDE DEF n
  <1>3. CASE inst.doNotProvision
    <2>1. Admitted(inst) = [inst EXCEPT !.count = n]
      BY <1>2, <1>3
    <2> QED BY <1>1, <1>3, <2>1 DEF Sections, n
  <1>4. CASE ~inst.doNotProvision
    BY <1>2, <1>4
  <1> QED BY <1>3, <1>4

LEMMA WriteCRFacts ==
    ASSUME ControlType, NEW inst \in Sections, WriteCR(inst)
    PROVE  /\ cr' \in Sections
           /\ cr'.policy = inst.policy
           /\ cr'.doNotProvision = inst.doNotProvision
           /\ cr'.useCertManagement = inst.useCertManagement
           /\ \/ cr'.count = 0
              \/ ~inst.doNotProvision /\ cr' = inst
              \/ inst.doNotProvision /\ cr'.count = Count(cached.nodes)
           /\ stale \subseteq stale' /\ stale' \subseteq {"op.cr", "op.es", "ec.cr", "cached"}
           /\ "cached" \in stale' => "cached" \in stale
           /\ events' \in 0..MaxEvents /\ faults' \in 0..MaxFaults
  <1>1. CopiesOfCR \subseteq {"op.cr", "ec.cr"} /\ stale \subseteq {"op.cr", "op.es", "ec.cr", "cached"}
    BY DEF CopiesOfCR, ControlType
  <1>2. /\ stale' = stale \/ stale' = stale \cup CopiesOfCR
        /\ Succeeds \/ Fails
        /\ \/ cr' = Admitted(inst)
           \/ inst.doNotProvision /\ cr' = [inst EXCEPT !.count = 0]
    BY DEF WriteCR, Stored
  <1>3. CASE cr' = Admitted(inst)
    BY <1>1, <1>2, <1>3, AdmittedFacts, BoundsKept
  <1>4. CASE cr' = [inst EXCEPT !.count = 0]
    <2>1. /\ cr' \in Sections /\ cr'.policy = inst.policy
          /\ cr'.doNotProvision = inst.doNotProvision
          /\ cr'.useCertManagement = inst.useCertManagement
          /\ cr'.count = 0
      BY <1>4 DEF Sections
    <2> QED BY <1>1, <1>2, <2>1, BoundsKept
  <1> QED BY <1>2, <1>3, <1>4

LEMMA IdleType ==
    /\ Idle \in Passes /\ Idle.pc = "idle"
    /\ EsIdle \in EsPasses /\ EsIdle.pc = "idle"
  BY NothingThere DEF Idle, EsIdle, Passes, EsPasses


LEMMA GotoType ==
    ASSUME ControlType, op.pc # "idle",
           NEW p \in {"secrets", "elasticsearches", "deployments", "store"}, Goto(p)
    PROVE  /\ op' \in Passes /\ op'.pc = p /\ op'.inst = op.inst /\ op'.inst.count > 0
           /\ op'.orig = op.orig /\ op'.create = op.create /\ op'.update = op.update
  <1>1. op \in Passes /\ op.inst.count > 0
    BY DEF ControlType
  <1> QED BY <1>1 DEF Goto, Passes

LEMMA ReconcileGetType ==
    ASSUME ControlType, ReconcileGet
    PROVE  /\ ControlType'
           /\ op'.pc = "certs" /\ op'.orig = cr
           /\ op'.inst = normalizeElasticsearch(cr)
  <1> DEFINE n == normalizeElasticsearch(cr)
  <1>1. cr \in Sections
    BY DEF ControlType
  <1>2. n \in Sections /\ n.count > 0
    BY <1>1, NormalizeFacts
  <1>3. op' = [Idle EXCEPT !.pc = "certs", !.orig = cr, !.inst = n]
    BY DEF ReconcileGet
  <1> HIDE DEF n
  <1>4. op' \in Passes /\ op'.pc = "certs" /\ op'.orig = cr /\ op'.inst = n
    BY <1>1, <1>2, <1>3, IdleType DEF Passes
  <1> QED BY <1>2, <1>4 DEF ReconcileGet, ControlType, Outside, certs, bounds, n

LEMMA CreateCertsType ==
    ASSUME ControlType, CreateCerts
    PROVE  /\ ControlType' /\ op.pc = "certs" /\ queued \subseteq queued'
           /\ UNCHANGED <<cr, es, cached, ec, stale, deployed, secrets, fresh>>
           /\ \/ op'.pc = "secrets" /\ op'.inst = op.inst /\ op'.orig = op.orig
              \/ op' = Idle /\ "jaeger" \in queued'
  <1>1. /\ events' \in 0..MaxEvents /\ faults' \in 0..MaxFaults
    BY BoundsKept DEF CreateCerts
  <1>2. /\ op.pc = "certs"
        /\ \/ Goto("secrets") /\ UNCHANGED queued
           \/ Requeue
    BY DEF CreateCerts
  <1>3. issued' \in Nat /\ torn' \in BOOLEAN
    <2> DEFINE renewed == NeedsAuthority(extractSecretsToFile(files, secrets))
    <2>1. /\ issued' = issued \/ issued' = issued + 1
          /\ torn' = torn \/ torn' = (torn /\ ~renewed)
      BY DEF CreateCerts
    <2> HIDE DEF renewed
    <2>2. issued \in Nat /\ torn \in BOOLEAN
      BY DEF ControlType
    <2>3. issued' \in Nat
      BY <2>1, <2>2
    <2>4. torn' \in BOOLEAN
      BY <2>1, <2>2
    <2> QED BY <2>3, <2>4
  <1>4. UNCHANGED <<cr, es, cached, ec, stale, deployed, secrets, fresh>>
    BY DEF CreateCerts, Outside
  <1>5. /\ op' \in Passes /\ (op'.pc # "idle" => op'.inst.count > 0)
        /\ queued' \subseteq {"jaeger", "es"} /\ queued \subseteq queued'
        /\ \/ op'.pc = "secrets" /\ op'.inst = op.inst /\ op'.orig = op.orig
           \/ op' = Idle /\ "jaeger" \in queued'
    BY <1>2, GotoType, IdleType DEF Requeue, Return, ControlType
  <1> QED BY <1>1, <1>2, <1>3, <1>4, <1>5 DEF ControlType

LEMMA ListSecretsType ==
    ASSUME ControlType, DOMAIN secrets \subseteq SecretNames, ListSecrets
    PROVE  /\ ControlType'
           /\ op.pc = "secrets" /\ op'.pc = "applySecrets" /\ op'.inst = op.inst
           /\ op'.update = (IF op.inst.useCertManagement THEN {} ELSE SecretNames)
                              \cap DOMAIN secrets
           /\ op'.orig = op.orig
           /\ op'.create = (IF op.inst.useCertManagement THEN {} ELSE SecretNames)
                              \ DOMAIN secrets
  <1>1. op \in Passes /\ op.pc = "secrets" /\ op.inst.count > 0
    BY DEF ListSecrets, ControlType
  <1>2. /\ op' \in Passes /\ op'.pc = "applySecrets" /\ op'.inst = op.inst
        /\ op'.update = (IF op.inst.useCertManagement THEN {} ELSE SecretNames)
                           \cap DOMAIN secrets
        /\ op'.orig = op.orig
        /\ op'.create = (IF op.inst.useCertManagement THEN {} ELSE SecretNames)
                           \ DOMAIN secrets
    BY <1>1 DEF ListSecrets, Passes
  <1> QED BY <1>1, <1>2 DEF ListSecrets, ControlType, Outside, certs, bounds

(* A write of a secret: of one to be created first.                        *)
Write(s) ==
    /\ op.create # {} => s \in op.create
    /\ op.create = {} => s \in op.update /\ s \in DOMAIN secrets
    /\ secrets' = [n \in DOMAIN secrets \cup {s} |->
                      IF n = s THEN ExtractSecrets(files)[s] ELSE secrets[n]]
    /\ op'.pc = "applySecrets" /\ op'.inst = op.inst /\ op'.orig = op.orig
    /\ op'.create = op.create \ {s}
    /\ op'.update = IF op.create = {} THEN op.update \ {s} ELSE op.update
    /\ queued' = queued

LEMMA ApplySecretsType ==
    ASSUME ControlType, applySecrets
    PROVE  /\ ControlType' /\ op.pc = "applySecrets" /\ queued \subseteq queued'
           /\ UNCHANGED <<cr, es, cached, ec, stale, fresh, files, torn, deployed>>
           /\ \/ /\ op'.pc = "elasticsearches" /\ op'.inst = op.inst /\ op'.orig = op.orig
                 /\ op.create = {} /\ op.update = {} /\ UNCHANGED <<secrets, queued>>
              \/ op' = Idle /\ "jaeger" \in queued' /\ UNCHANGED secrets
              \/ \E s \in SecretNames : Write(s)
  <1>1. op.pc = "applySecrets" /\ op \in Passes /\ op.inst.count > 0
    BY DEF applySecrets, ControlType
  <1>2. /\ events' \in 0..MaxEvents /\ faults' \in 0..MaxFaults
    BY BoundsKept DEF applySecrets
  <1>3. UNCHANGED <<cr, es, cached, ec, stale, deployed, fresh, files, issued, torn>>
    BY DEF applySecrets, Outside
  <1> DEFINE group == IF op.create # {} THEN op.create ELSE op.update
             Step(s) == [op EXCEPT !.create = @ \ {s},
                                   !.update = IF op.create = {} THEN @ \ {s} ELSE @]
             New(s) == [n \in DOMAIN secrets \cup {s} |->
                          IF n = s THEN ExtractSecrets(files)[s] ELSE secrets[n]]
  <1>4. \/ group = {} /\ Goto("elasticsearches") /\ UNCHANGED <<secrets, queued>>
        \/ Requeue /\ UNCHANGED secrets
        \/ \E s \in group : /\ ~(op.create = {} /\ s \notin DOMAIN secrets)
                            /\ secrets' = New(s) /\ UNCHANGED queued
                            /\ op' = Step(s)
    BY DEF applySecrets
  <1>5. CASE group = {} /\ Goto("elasticsearches") /\ UNCHANGED <<secrets, queued>>
    <2>1. op.create = {} /\ op.update = {}
      BY <1>5
    <2>2. /\ op' \in Passes /\ op'.pc = "elasticsearches" /\ op'.inst = op.inst
          /\ op'.inst.count > 0 /\ op'.orig = op.orig
      BY <1>1, <1>5, GotoType
    <2> QED BY <1>1, <1>2, <1>3, <1>5, <2>1, <2>2 DEF ControlType
  <1>6. CASE Requeue /\ UNCHANGED secrets
    <2>1. op' = Idle /\ queued' = queued \cup {"jaeger"}
      BY <1>6 DEF Requeue, Return
    <2> QED BY <1>1, <1>2, <1>3, <1>6, <2>1, IdleType DEF ControlType
  <1>7. CASE \E s \in group : /\ ~(op.create = {} /\ s \notin DOMAIN secrets)
                              /\ secrets' = New(s) /\ UNCHANGED queued
                              /\ op' = Step(s)
    <2>1. PICK s \in group : /\ ~(op.create = {} /\ s \notin DOMAIN secrets)
                             /\ secrets' = New(s) /\ UNCHANGED queued
                             /\ op' = Step(s)
      BY <1>7
    <2>2. s \in SecretNames
      BY <1>1 DEF Passes
    <2>3. /\ op' \in Passes /\ op'.pc = "applySecrets" /\ op'.inst = op.inst
          /\ op'.orig = op.orig /\ op'.create = op.create \ {s}
          /\ op'.update = IF op.create = {} THEN op.update \ {s} ELSE op.update
      BY <1>1, <2>1 DEF Passes
    <2>4. Write(s)
      BY <2>1, <2>3 DEF Write
    <2> QED BY <1>1, <1>2, <1>3, <2>1, <2>2, <2>3, <2>4 DEF ControlType
  <1> QED BY <1>4, <1>5, <1>6, <1>7

LEMMA ListElasticsearchesType ==
    ASSUME ControlType, ListElasticsearches
    PROVE  /\ ControlType'
           /\ op.pc = "elasticsearches" /\ op'.pc = "applyElasticsearches"
           /\ op'.inst = op.inst /\ op'.orig = op.orig
           /\ "cached" \in stale' <=> "cached" \in stale
  <1>1. op \in Passes /\ op.pc = "elasticsearches" /\ op.inst.count > 0
        /\ es \in ESObjects
    BY DEF ListElasticsearches, ControlType
  <1>2. /\ op' \in Passes /\ op'.pc = "applyElasticsearches" /\ op'.inst = op.inst
        /\ op'.orig = op.orig
    BY <1>1 DEF ListElasticsearches, Passes, ESObjects
  <1> QED BY <1>1, <1>2 DEF ListElasticsearches, ControlType, Outside, certs, bounds

LEMMA WriteESFacts ==
    ASSUME ControlType, NEW object \in ESObjects, WriteES(object)
    PROVE  /\ es' = object /\ es' \in ESObjects
           /\ stale \subseteq stale' /\ stale' \subseteq {"op.cr", "op.es", "ec.cr", "cached"}
           /\ es' # es => "cached" \in stale'
           /\ es' = es => stale' = stale
  BY DEF WriteES, CopiesOfES, ControlType

LEMMA ApplyElasticsearchesType ==
    ASSUME ControlType, applyElasticsearches
    PROVE  /\ ControlType' /\ op.pc = "applyElasticsearches"
           /\ UNCHANGED <<cr, cached, ec, deployed, fresh, certs>>
           /\ stale \subseteq stale' /\ (es' # es => "cached" \in stale')
           /\ queued \subseteq queued'
           /\ \/ op' = Idle /\ "jaeger" \in queued'
              \/ /\ op'.pc = "deployments" /\ op'.inst = op.inst /\ op'.orig = op.orig
                 /\ queued' = queued
                 /\ \/ es'.there = FALSE
                    \/ ~op.inst.doNotProvision /\ Count(es'.nodes) = op.inst.count
                    \/ op.inst.doNotProvision /\ es' = es
  <1> DEFINE object == Elasticsearch(op.inst)
             Kept == UNCHANGED <<es, stale>>
             Done == Goto("deployments") /\ UNCHANGED queued
  <1>1. /\ op.pc = "applyElasticsearches" /\ op.inst \in Sections
        /\ stale \subseteq {"op.cr", "op.es", "ec.cr", "cached"} /\ es \in ESObjects
    BY DEF applyElasticsearches, ControlType, Passes
  <1>2. events' \in 0..MaxEvents /\ faults' \in 0..MaxFaults
    BY BoundsKept DEF applyElasticsearches
  <1>3. UNCHANGED <<cr, cached, ec, deployed, fresh, certs>>
    BY DEF applyElasticsearches
  <1>4. /\ object \in ESObjects /\ (object.there <=> ~op.inst.doNotProvision)
        /\ ~op.inst.doNotProvision => Count(object.nodes) = op.inst.count
    BY <1>1, ObjectFacts
  <1>5. \/ Requeue /\ (Kept \/ WriteES(object))
        \/ Done /\ ~object.there /\ (Kept \/ WriteES(NoObject))
        \/ Done /\ object.there /\ WriteES(object)
    BY DEF applyElasticsearches
  <1> HIDE DEF object
  <1>6. /\ es' \in ESObjects /\ stale \subseteq stale'
        /\ stale' \subseteq {"op.cr", "op.es", "ec.cr", "cached"}
        /\ es' # es => "cached" \in stale'
    BY <1>1, <1>4, <1>5, WriteESFacts, NothingThere
  <1>7. CASE Requeue
    <2>1. op' = Idle /\ queued' = queued \cup {"jaeger"}
      BY <1>7 DEF Requeue, Return
    <2> QED BY <1>1, <1>2, <1>3, <1>6, <2>1, IdleType DEF ControlType, certs
  <1>8. CASE Done /\ (\/ ~object.there /\ (Kept \/ WriteES(NoObject))
                      \/ object.there /\ WriteES(object))
    <2>1. /\ op' \in Passes /\ op'.pc = "deployments" /\ op'.inst = op.inst
          /\ op'.orig = op.orig /\ op'.inst.count > 0 /\ queued' = queued
      BY <1>1, <1>8, GotoType
    <2>2. \/ es'.there = FALSE
          \/ ~op.inst.doNotProvision /\ Count(es'.nodes) = op.inst.count
          \/ op.inst.doNotProvision /\ es' = es
      BY <1>4, <1>8, NothingThere DEF WriteES
    <2> QED BY <1>1, <1>2, <1>3, <1>6, <2>1, <2>2 DEF ControlType, certs
  <1> QED BY <1>5, <1>7, <1>8

LEMMA ApplyDeploymentsType ==
    ASSUME ControlType, applyDeployments
    PROVE  /\ ControlType' /\ op.pc = "deployments"
           /\ UNCHANGED <<cr, es, cached, ec, stale, fresh, certs>>
           /\ queued \subseteq queued'
           /\ \/ op' = Idle /\ "jaeger" \in queued'
              \/ /\ op'.pc = "store" /\ op'.inst = op.inst /\ op'.orig = op.orig
                 /\ queued' = queued /\ deployed' = injectArguments(op.inst)
  <1>1. op.pc = "deployments" /\ op.inst \in Sections /\ op.inst.count > 0
    BY DEF applyDeployments, ControlType, Passes
  <1>2. events' \in 0..MaxEvents /\ faults' \in 0..MaxFaults
    BY BoundsKept DEF applyDeployments
  <1>3. UNCHANGED <<cr, es, cached, ec, stale, fresh, certs>>
    BY DEF applyDeployments, Outside
  <1>4. CASE Requeue /\ UNCHANGED deployed
    <2>1. op' = Idle /\ queued' = queued \cup {"jaeger"}
      BY <1>4 DEF Requeue, Return
    <2> QED BY <1>1, <1>2, <1>3, <1>4, <2>1, IdleType DEF ControlType, certs
  <1>5. CASE deployed' = injectArguments(op.inst) /\ Goto("store") /\ UNCHANGED queued
    <2>1. /\ op' \in Passes /\ op'.pc = "store" /\ op'.inst = op.inst
          /\ op'.orig = op.orig /\ op'.inst.count > 0
      BY <1>1, <1>5, GotoType
    <2>2. deployed' \in [shards : Nat, replicas : Nat]
      BY <1>1, <1>5, ReplicaFacts
    <2> QED BY <1>1, <1>2, <1>3, <1>5, <2>1, <2>2 DEF ControlType, certs
  <1> QED BY <1>4, <1>5 DEF applyDeployments

(* A CR was written: the webhook had its say, an event is on its way.      *)
Written(inst) ==
    /\ cr'.policy = inst.policy
    /\ cr'.doNotProvision = inst.doNotProvision
    /\ cr'.useCertManagement = inst.useCertManagement
    /\ \/ cr'.count = 0
       \/ ~inst.doNotProvision /\ cr' = inst
       \/ inst.doNotProvision /\ cr'.count = Count(cached.nodes)
    /\ queued \subseteq queued'
    /\ cr' # cr => "jaeger" \in queued'

LEMMA StoreInstanceType ==
    ASSUME ControlType, StoreInstance
    PROVE  /\ ControlType' /\ op.pc = "store" /\ op' = Idle
           /\ UNCHANGED <<es, cached, ec, deployed, fresh, certs>>
           /\ "cached" \in stale' <=> "cached" \in stale
           /\ queued \subseteq queued'
           /\ \/ op.inst = op.orig /\ cr' = cr
              \/ cr' = cr /\ "jaeger" \in queued'
              \/ op.inst # op.orig /\ Written(op.inst)
  <1>1. op.pc = "store" /\ op.inst \in Sections /\ cr \in Sections
    BY DEF StoreInstance, ControlType, Passes
  <1>2. UNCHANGED <<es, cached, ec, deployed, fresh, certs>>
    BY DEF StoreInstance, Outside
  <1>3. CASE /\ Succeeds /\ UNCHANGED <<cr, stale>>
             /\ \/ op.inst = op.orig /\ Return /\ UNCHANGED queued
                \/ Requeue
    <2>1. /\ op' = Idle
          /\ \/ op.inst = op.orig /\ queued' = queued
             \/ queued' = queued \cup {"jaeger"}
      BY <1>3 DEF Requeue, Return
    <2>2. events' \in 0..MaxEvents /\ faults' \in 0..MaxFaults
      BY <1>3, BoundsKept
    <2> QED BY <1>1, <1>2, <1>3, <2>1, <2>2, IdleType DEF ControlType, certs
  <1>4. CASE /\ op.inst # op.orig /\ WriteCR(op.inst)
             /\ queued' = Enqueued(queued) /\ Return
    <2>1. /\ cr' \in Sections
          /\ cr'.policy = op.inst.policy
          /\ cr'.doNotProvision = op.inst.doNotProvision
          /\ cr'.useCertManagement = op.inst.useCertManagement
          /\ \/ cr'.count = 0
             \/ ~op.inst.doNotProvision /\ cr' = op.inst
             \/ op.inst.doNotProvision /\ cr'.count = Count(cached.nodes)
          /\ stale \subseteq stale'
          /\ stale' \subseteq {"op.cr", "op.es", "ec.cr", "cached"}
          /\ "cached" \in stale' => "cached" \in stale
          /\ events' \in 0..MaxEvents /\ faults' \in 0..MaxFaults
      BY <1>1, <1>4, WriteCRFacts
    <2>2. op' = Idle /\ queued' = IF cr' = cr THEN queued ELSE queued \cup {"jaeger"}
      BY <1>4 DEF Enqueued, Return
    <2>3. Written(op.inst)
      BY <2>1, <2>2 DEF Written
    <2>4. ControlType'
      BY <1>2, <2>1, <2>2, IdleType DEF ControlType, certs
    <2> QED BY <1>1, <1>2, <1>4, <2>1, <2>2, <2>3, <2>4
  <1> QED BY <1>3, <1>4 DEF StoreInstance

LEMMA EsGetType ==
    ASSUME ControlType, EsGet
    PROVE  /\ ControlType' /\ ec.pc = "idle"
           /\ UNCHANGED <<cr, stale, es, cached, op, deployed, fresh, certs>>
           /\ queued' = queued \ {"es"}
           /\ \/ ~es.there /\ ec' = ec
              \/ ec'.pc = "list" /\ ec'.count = Count(es.nodes)
  <1> DEFINE n == Count(es.nodes)
  <1>1. n \in Nat /\ ec \in EsPasses
    BY CountFacts DEF ControlType
  <1>2. ec' = IF ~es.there THEN ec ELSE [ec EXCEPT !.pc = "list", !.count = n]
    BY DEF EsGet, Count
  <1>3. /\ UNCHANGED <<cr, stale, es, cached, op, deployed, fresh, certs, bounds>>
        /\ queued' = queued \ {"es"} /\ ec.pc = "idle"
    BY DEF EsGet, Instance
  <1> HIDE DEF n
  <1>4. /\ ec' \in EsPasses
        /\ \/ ~es.there /\ ec' = ec
           \/ ec'.pc = "list" /\ ec'.count = n
    BY <1>1, <1>2 DEF EsPasses
  <1> QED BY <1>3, <1>4 DEF ControlType, certs, bounds, n

LEMMA EsListType ==
    ASSUME ControlType, EsList
    PROVE  /\ ControlType' /\ ec.pc = "list"
           /\ UNCHANGED <<cr, queued, es, cached, op, deployed, fresh, certs>>
           /\ "cached" \in stale' <=> "cached" \in stale
           /\ \/ ec' = EsIdle /\ cr.count = ec.count
              \/ ec'.pc = "update" /\ ec'.count = ec.count /\ ec'.inst = cr
  <1>1. cr \in Sections /\ ec \in EsPasses /\ ec.pc = "list"
    BY DEF EsList, ControlType
  <1>2. /\ UNCHANGED <<cr, queued, es, cached, op, deployed, fresh, certs, bounds>>
        /\ stale' = stale \ {"ec.cr"}
        /\ ec' = IF cr.count = ec.count THEN EsIdle
                 ELSE [ec EXCEPT !.pc = "update", !.inst = cr]
    BY DEF EsList, Instance
  <1>3. /\ ec' \in EsPasses
        /\ \/ ec' = EsIdle /\ cr.count = ec.count
           \/ ec'.pc = "update" /\ ec'.count = ec.count /\ ec'.inst = cr
    BY <1>1, <1>2, IdleType DEF EsPasses
  <1> QED BY <1>1, <1>2, <1>3 DEF ControlType, certs, bounds

LEMMA EsUpdateType ==
    ASSUME ControlType, EsUpdate
    PROVE  /\ ControlType' /\ ec.pc = "update" /\ ec' = EsIdle
           /\ UNCHANGED <<es, cached, op, deployed, fresh, certs>>
           /\ "cached" \in stale' <=> "cached" \in stale
           /\ queued \subseteq queued'
           /\ \/ cr' = cr /\ "es" \in queued'
              \/ Written([ec.inst EXCEPT !.count = ec.count])
  <1> DEFINE inst == [ec.inst EXCEPT !.count = ec.count]
  <1>1. ec.pc = "update" /\ ec.inst \in Sections /\ ec.count \in Nat /\ cr \in Sections
    BY DEF EsUpdate, ControlType, EsPasses
  <1>2. inst \in Sections
    BY <1>1 DEF Sections
  <1>3. UNCHANGED <<es, cached, op, deployed, fresh, certs>>
    BY DEF EsUpdate, Instance
  <1>4. \/ WriteCR(inst) /\ queued' = Enqueued(queued) /\ ec' = EsIdle
        \/ /\ Succeeds \/ Fails
           /\ ec' = EsIdle /\ queued' = queued \cup {"es"}
           /\ UNCHANGED <<cr, stale>>
    BY DEF EsUpdate
  <1> HIDE DEF inst
  <1>5. CASE WriteCR(inst) /\ queued' = Enqueued(queued) /\ ec' = EsIdle
    <2>1. /\ cr' \in Sections
          /\ cr'.policy = inst.policy
          /\ cr'.doNotProvision = inst.doNotProvision
          /\ cr'.useCertManagement = inst.useCertManagement
          /\ \/ cr'.count = 0
             \/ ~inst.doNotProvision /\ cr' = inst
             \/ inst.doNotProvision /\ cr'.count = Count(cached.nodes)
          /\ stale \subseteq stale'
          /\ stale' \subseteq {"op.cr", "op.es", "ec.cr", "cached"}
          /\ "cached" \in stale' => "cached" \in stale
          /\ events' \in 0..MaxEvents /\ faults' \in 0..MaxFaults
      BY <1>2, <1>5, WriteCRFacts
    <2>2. queued' = IF cr' = cr THEN queued ELSE queued \cup {"jaeger"}
      BY <1>5 DEF Enqueued
    <2>3. Written(inst)
      BY <2>1, <2>2 DEF Written
    <2>4. ControlType'
      BY <1>3, <1>5, <2>1, <2>2, IdleType DEF ControlType, certs
    <2> QED BY <1>1, <1>3, <1>5, <2>1, <2>2, <2>3, <2>4 DEF inst
  <1>6. CASE /\ Succeeds \/ Fails
             /\ ec' = EsIdle /\ queued' = queued \cup {"es"}
             /\ UNCHANGED <<cr, stale>>
    <2>1. events' \in 0..MaxEvents /\ faults' \in 0..MaxFaults
      BY <1>6, BoundsKept
    <2> QED BY <1>1, <1>3, <1>6, <2>1, IdleType DEF ControlType, certs
  <1> QED BY <1>4, <1>5, <1>6

LEMMA DeliverType ==
    ASSUME ControlType, Deliver
    PROVE  /\ ControlType'
           /\ UNCHANGED <<cr, es, op, ec, deployed, fresh, certs>>
           /\ cached' = es /\ "cached" \notin stale'
           /\ queued' = queued \cup {"es"}
  BY DEF Deliver, ControlType, certs, bounds

LEMMA UserEditsCRType ==
    ASSUME ControlType, UserEditsCR
    PROVE  /\ ControlType' /\ cr' # cr
           /\ UNCHANGED <<es, cached, ec, op, deployed, fresh, certs>>
           /\ "cached" \in stale' <=> "cached" \in stale
           /\ queued \subseteq queued' /\ "jaeger" \in queued'
           /\ cr'.useCertManagement = cr.useCertManagement
           /\ cr'.doNotProvision => cr'.count = Count(cached.nodes)
  <1>1. PICK count \in Counts, no \in BOOLEAN :
          LET inst == [cr EXCEPT !.count = count, !.doNotProvision = no]
          IN  Admitted(inst) # cr /\ Stored(Admitted(inst))
    BY DEF UserEditsCR
  <1> DEFINE inst == [cr EXCEPT !.count = count, !.doNotProvision = no]
  <1>2. inst \in Sections /\ inst.useCertManagement = cr.useCertManagement
    BY StorageAssumption DEF ControlType, Sections
  <1>3. Admitted(inst) # cr /\ Stored(Admitted(inst))
    BY <1>1
  <1> HIDE DEF inst
  <1>4. CopiesOfCR \subseteq {"op.cr", "ec.cr"}
    BY DEF CopiesOfCR
  <1>5. cr' = Admitted(inst) /\ cr' # cr /\ stale' = stale \cup CopiesOfCR
    BY <1>3 DEF Stored
  <1>6. queued' = queued \cup {"jaeger"}
    BY <1>5 DEF UserEditsCR, Enqueued
  <1>7. events' \in 0..MaxEvents /\ faults' \in 0..MaxFaults
    BY BoundsKept DEF UserEditsCR
  <1>8. UNCHANGED <<es, cached, ec, op, deployed, fresh, certs>>
    BY DEF UserEditsCR, Outside
  <1>9. /\ cr' \in Sections /\ cr'.useCertManagement = cr.useCertManagement
        /\ cr'.doNotProvision => cr'.count = Count(cached.nodes)
    BY <1>2, <1>5, AdmittedFacts
  <1>10. ControlType'
    BY <1>4, <1>5, <1>6, <1>7, <1>8, <1>9 DEF ControlType, certs
  <1> QED BY <1>4, <1>5, <1>6, <1>8, <1>9, <1>10

LEMMA UserEditsESType ==
    ASSUME ControlType, UserEditsES
    PROVE  /\ ControlType'
           /\ UNCHANGED <<cr, cached, op, ec, queued, deployed, fresh, certs>>
           /\ es' # es /\ "cached" \in stale'
  <1>1. PICK object \in {NoObject} \cup
            {[there |-> TRUE, ours |-> es.ours, nodes |-> <<n>>] : n \in Counts} :
          object # es /\ WriteES(object)
    BY DEF UserEditsES
  <1>2. object \in ESObjects
    <2>1. CASE object = NoObject
      BY <2>1, NothingThere
    <2>2. CASE object # NoObject
      <3>1. PICK n \in Counts : object = [there |-> TRUE, ours |-> es.ours, nodes |-> <<n>>]
        BY <2>2
      <3>2. n \in Nat /\ es.ours \in BOOLEAN
        BY StorageAssumption DEF ControlType, ESObjects
      <3>3. <<n>> \in Seq(Nat) /\ Len(<<n>>) <= 2
        BY <3>2
      <3> QED BY <3>1, <3>2, <3>3 DEF ESObjects
    <2> QED BY <2>1, <2>2
  <1>3. /\ es' = object /\ es' \in ESObjects
        /\ stale' \subseteq {"op.cr", "op.es", "ec.cr", "cached"}
        /\ es' # es => "cached" \in stale'
    BY <1>1, <1>2, WriteESFacts
  <1>4. events' \in 0..MaxEvents /\ faults' \in 0..MaxFaults
    BY BoundsKept DEF UserEditsES
  <1>5. UNCHANGED <<cr, cached, op, ec, queued, deployed, fresh, certs>>
    BY DEF UserEditsES
  <1> QED BY <1>1, <1>3, <1>4, <1>5 DEF ControlType, certs

LEMMA SurroundingsType ==
    ASSUME ControlType, SecretLost \/ Expire
    PROVE  /\ ControlType' /\ fresh' = FALSE
           /\ UNCHANGED <<cr, es, cached, ec, op, queued, stale, deployed, issued, torn>>
  <1>1. events' \in 0..MaxEvents /\ faults' \in 0..MaxFaults
    BY BoundsKept DEF SecretLost, Expire
  <1>2. /\ fresh' = FALSE
        /\ UNCHANGED <<cr, es, cached, ec, op, queued, stale, deployed, issued, torn>>
    BY DEF SecretLost, Expire, Outside
  <1> QED BY <1>1, <1>2 DEF ControlType

LEMMA ResyncType ==
    ASSUME ControlType, Resync
    PROVE  /\ ControlType' /\ queued' = queued \cup {"jaeger", "es"}
           /\ UNCHANGED <<cr, es, cached, ec, op, stale, deployed, fresh, certs>>
  BY DEF Resync, ControlType, Outside, certs, bounds

LEMMA CrashType ==
    ASSUME ControlType, Crash
    PROVE  /\ ControlType' /\ op' = Idle /\ ec' = EsIdle
           /\ files' = EmptyDir /\ torn' = (torn \/ ~OneAuthority)
           /\ cached' = es /\ queued' = {"jaeger", "es"} /\ stale' = {}
           /\ UNCHANGED <<cr, es, secrets, fresh>>
  <1>1. events' \in 0..MaxEvents /\ faults' \in 0..MaxFaults
    BY BoundsKept DEF Crash
  <1>2. /\ op' = Idle /\ ec' = EsIdle
        /\ files' = EmptyDir /\ torn' = (torn \/ ~OneAuthority)
        /\ cached' = es /\ queued' = {"jaeger", "es"} /\ stale' = {}
        /\ UNCHANGED <<cr, es, secrets, issued, deployed, fresh>>
    BY DEF Crash
  <1> DEFINE one == OneAuthority
  <1>3. torn' = (torn \/ ~one)
    BY <1>2
  <1> HIDE DEF one
  <1>4. torn' \in BOOLEAN
    BY <1>3
  <1> QED BY <1>1, <1>2, <1>4, IdleType DEF ControlType

LEMMA InitType ==
    ASSUME Init
    PROVE  TypeOK
  <1>1. /\ cr \in Sections /\ es \in ESObjects
    BY StorageAssumption DEF Init
  <1>2. events \in 0..MaxEvents /\ faults \in 0..MaxFaults
    BY StorageAssumption DEF Init
  <1>3. DOMAIN secrets = {} /\ secrets = [s \in {} |-> EmptyDir] /\ files = EmptyDir
    BY DEF Init
  <1>4. CertType
    <2>1. secrets = [s \in DOMAIN secrets |->
                       [f \in keyFileNameMap(s) |-> secrets[s][f]]]
      BY <1>3
    <2> QED BY <1>3, <2>1, CopyFacts DEF CertType
  <1>5. ControlType
    BY <1>1, <1>2, IdleType DEF Init, ControlType
  <1> QED BY <1>4, <1>5, TypeParts

LEMMA StutterType ==
    ASSUME ControlType, UNCHANGED vars
    PROVE  ControlType'
  BY DEF ControlType, vars, certs, bounds

-----------------------------------------------------------------------------
(* The number of nodes: every step keeps CountInv.                         *)
LEMMA CountInit ==
    ASSUME Init
    PROVE  CountInv
  BY IdleType DEF Init, CountInv, CacheOK, EcOK, SharedOK, AppliedOK, PassOK,
     ArgumentsOK, Agree, Coming

(* A step of the pass up to the Elasticsearch object.                      *)
LEMMA CountEarly ==
    ASSUME CountInv,
           UNCHANGED <<cr, es, cached, ec>>,
           "cached" \in stale' <=> "cached" \in stale,
           queued \subseteq queued',
           \/ op' = Idle /\ "jaeger" \in queued'
           \/ /\ op.pc # "idle" /\ op'.pc \notin {"idle", "deployments", "store"}
              /\ op'.inst = op.inst /\ op'.orig = op.orig
    PROVE  CountInv'
  <1>1. CacheOK' /\ EcOK' /\ SharedOK'
    BY DEF CountInv, CacheOK, EcOK, SharedOK, Agree, Coming
  <1>2. AppliedOK' /\ ArgumentsOK'
    BY IdleType DEF AppliedOK, ArgumentsOK
  <1>3. PassOK'
    BY IdleType DEF CountInv, PassOK
  <1> QED BY <1>1, <1>2, <1>3 DEF CountInv

LEMMA CountReconcileGet ==
    ASSUME TypeOK, CountInv, ReconcileGet
    PROVE  CountInv'
  <1>1. op'.pc = "certs" /\ op'.orig = cr /\ op'.inst = normalizeElasticsearch(cr)
    BY ReconcileGetType, TypeParts
  <1>2. /\ UNCHANGED <<cr, es, cached, ec>> /\ queued' = queued \ {"jaeger"}
        /\ stale' = stale \ {"op.cr"}
    BY DEF ReconcileGet, Outside
  <1>3. CacheOK' /\ EcOK' /\ SharedOK'
    BY <1>2 DEF CountInv, CacheOK, EcOK, SharedOK, Agree, Coming
  <1> QED BY <1>1, <1>2, <1>3 DEF CountInv, AppliedOK, PassOK, ArgumentsOK

LEMMA CountApplyElasticsearches ==
    ASSUME TypeOK, CountInv, applyElasticsearches
    PROVE  CountInv'
  <1>1. /\ op.pc = "applyElasticsearches"
        /\ UNCHANGED <<cr, cached, ec, deployed, fresh, certs>>
        /\ stale \subseteq stale' /\ (es' # es => "cached" \in stale')
        /\ queued \subseteq queued'
        /\ \/ op' = Idle /\ "jaeger" \in queued'
           \/ /\ op'.pc = "deployments" /\ op'.inst = op.inst /\ op'.orig = op.orig
              /\ queued' = queued
              /\ \/ es'.there = FALSE
                 \/ ~op.inst.doNotProvision /\ Count(es'.nodes) = op.inst.count
                 \/ op.inst.doNotProvision /\ es' = es
    BY ApplyElasticsearchesType, TypeParts
  <1>2. CacheOK' /\ EcOK' /\ SharedOK'
    BY <1>1 DEF CountInv, CacheOK, EcOK, SharedOK, Agree, Coming
  <1>3. PassOK' /\ ArgumentsOK'
    BY <1>1, IdleType DEF CountInv, PassOK, ArgumentsOK
  <1>4. CASE op' = Idle /\ "jaeger" \in queued'
    <2>1. AppliedOK'
      BY <1>4 DEF AppliedOK
    <2> QED BY <1>2, <1>3, <2>1 DEF CountInv
  <1>5. CASE "jaeger" \notin queued' /\ es'.there /\ cr'.count # 0
    <2>1. /\ op'.pc = "deployments" /\ "jaeger" \notin queued
      BY <1>1, <1>5
    <2>2. op.inst = normalizeElasticsearch(cr) /\ cr \in Sections
      BY <1>1, <2>1, TypeParts DEF CountInv, PassOK, ControlType
    <2>3. op.inst.count = cr.count /\ op.inst.doNotProvision = cr.doNotProvision
      BY <1>1, <1>5, <2>2, NormalizeFacts
    <2>4. Agree'
      <3>1. CASE Count(es'.nodes) = op.inst.count
        BY <1>1, <2>3, <3>1 DEF Agree
      <3>2. CASE op.inst.doNotProvision /\ es' = es
        BY <1>1, <1>5, <2>3, <3>2 DEF CountInv, SharedOK, Agree, Coming
      <3> QED BY <1>1, <1>5, <2>1, <3>1, <3>2, IdleType
    <2>5. AppliedOK'
      BY <2>4 DEF AppliedOK
    <2> QED BY <1>2, <1>3, <2>5 DEF CountInv
  <1>6. CASE ~("jaeger" \notin queued' /\ es'.there /\ cr'.count # 0)
    <2>1. AppliedOK'
      BY <1>6 DEF AppliedOK
    <2> QED BY <1>2, <1>3, <2>1 DEF CountInv
  <1> QED BY <1>5, <1>6

LEMMA CountApplyDeployments ==
    ASSUME TypeOK, CountInv, applyDeployments
    PROVE  CountInv'
  <1>1. /\ op.pc = "deployments"
        /\ UNCHANGED <<cr, es, cached, ec, stale, fresh, certs>>
        /\ queued \subseteq queued'
        /\ \/ op' = Idle /\ "jaeger" \in queued'
           \/ /\ op'.pc = "store" /\ op'.inst = op.inst /\ op'.orig = op.orig
              /\ queued' = queued /\ deployed' = injectArguments(op.inst)
    BY ApplyDeploymentsType, TypeParts
  <1>2. CacheOK' /\ EcOK' /\ SharedOK' /\ AppliedOK'
    BY <1>1 DEF CountInv, CacheOK, EcOK, SharedOK, AppliedOK, Agree, Coming
  <1>3. PassOK' /\ ArgumentsOK'
    BY <1>1, IdleType DEF CountInv, PassOK, ArgumentsOK
  <1> QED BY <1>2, <1>3 DEF CountInv

LEMMA CountStoreInstance ==
    ASSUME TypeOK, CountInv, StoreInstance
    PROVE  CountInv'
  <1>1. /\ op.pc = "store" /\ op' = Idle
        /\ UNCHANGED <<es, cached, ec, deployed, fresh, certs>>
        /\ "cached" \in stale' <=> "cached" \in stale
        /\ queued \subseteq queued'
        /\ \/ op.inst = op.orig /\ cr' = cr
           \/ cr' = cr /\ "jaeger" \in queued'
           \/ op.inst # op.orig /\ Written(op.inst)
    BY StoreInstanceType, TypeParts
  <1>2. op'.pc = "idle" /\ cr \in Sections
    BY <1>1, IdleType, TypeParts DEF ControlType
  <1>3. CacheOK' /\ EcOK' /\ PassOK'
    BY <1>1, <1>2 DEF CountInv, CacheOK, EcOK, PassOK, Coming
  <1>4. CASE cr' = cr
    <2>1. SharedOK' /\ AppliedOK'
      BY <1>1, <1>2, <1>4 DEF CountInv, SharedOK, AppliedOK, Agree, Coming
    <2>2. ASSUME "jaeger" \notin queued', cr'.count # 0
          PROVE  deployed' = injectArguments(cr')
      <3>1. op.orig = cr /\ op.inst = normalizeElasticsearch(cr)
        BY <1>1, <2>2 DEF CountInv, PassOK
      <3>2. op.inst = cr
        <4>1. CASE op.inst = op.orig
          BY <3>1, <4>1
        <4>2. CASE Written(op.inst)
          BY <1>2, <1>4, <2>2, <3>1, <4>2, NormalizeFacts DEF Written
        <4> QED BY <1>1, <2>2, <4>1, <4>2
      <3> QED BY <1>1, <1>4, <3>2 DEF CountInv, ArgumentsOK
    <2>3. ArgumentsOK'
      BY <1>2, <2>2 DEF ArgumentsOK
    <2> QED BY <1>3, <2>1, <2>3 DEF CountInv
  <1>5. CASE cr' # cr
    <2>1. Written(op.inst) /\ "jaeger" \in queued'
      BY <1>1, <1>5 DEF Written
    <2>2. AppliedOK' /\ ArgumentsOK'
      BY <1>2, <2>1 DEF AppliedOK, ArgumentsOK
    <2>3. SharedOK'
      BY <1>1, <2>1 DEF CountInv, CacheOK, SharedOK, Agree, Coming, Written
    <2> QED BY <1>3, <2>2, <2>3 DEF CountInv
  <1> QED BY <1>4, <1>5

LEMMA CountEsGet ==
    ASSUME TypeOK, CountInv, EsGet
    PROVE  CountInv'
  <1>1. /\ ec.pc = "idle"
        /\ UNCHANGED <<cr, stale, es, cached, op, deployed, fresh, certs>>
        /\ queued' = queued \ {"es"}
        /\ \/ ~es.there /\ ec' = ec
           \/ ec'.pc = "list" /\ ec'.count = Count(es.nodes)
    BY EsGetType, TypeParts
  <1>2. CacheOK' /\ EcOK' /\ SharedOK' /\ AppliedOK'
    BY <1>1 DEF CountInv, CacheOK, EcOK, SharedOK, AppliedOK, Agree
  <1>3. PassOK' /\ ArgumentsOK'
    BY <1>1 DEF CountInv, PassOK, ArgumentsOK
  <1> QED BY <1>2, <1>3 DEF CountInv

LEMMA CountEsList ==
    ASSUME TypeOK, CountInv, EsList
    PROVE  CountInv'
  <1>1. /\ ec.pc = "list"
        /\ UNCHANGED <<cr, queued, es, cached, op, deployed, fresh, certs>>
        /\ "cached" \in stale' <=> "cached" \in stale
        /\ \/ ec' = EsIdle /\ cr.count = ec.count
           \/ ec'.pc = "update" /\ ec'.count = ec.count /\ ec'.inst = cr
    BY EsListType, TypeParts
  <1>2. CacheOK' /\ EcOK' /\ SharedOK' /\ AppliedOK'
    BY <1>1, IdleType DEF CountInv, CacheOK, EcOK, SharedOK, AppliedOK, Agree, Coming
  <1>3. PassOK' /\ ArgumentsOK'
    BY <1>1 DEF CountInv, PassOK, ArgumentsOK
  <1> QED BY <1>2, <1>3 DEF CountInv

LEMMA CountEsUpdate ==
    ASSUME TypeOK, CountInv, EsUpdate
    PROVE  CountInv'
  <1> DEFINE inst == [ec.inst EXCEPT !.count = ec.count]
  <1>1. /\ ec.pc = "update" /\ ec' = EsIdle
        /\ UNCHANGED <<es, cached, op, deployed, fresh, certs>>
        /\ "cached" \in stale' <=> "cached" \in stale
        /\ queued \subseteq queued'
        /\ \/ cr' = cr /\ "es" \in queued'
           \/ Written(inst)
    BY EsUpdateType, TypeParts
  <1>2. inst.count = ec.count
    BY TypeParts DEF ControlType, EsPasses, Sections
  <1> HIDE DEF inst
  <1>3. cr' # cr => "jaeger" \in queued'
    BY <1>1 DEF Written
  <1>4. CacheOK' /\ EcOK'
    BY <1>1, IdleType DEF CountInv, CacheOK, EcOK
  <1>5. PassOK' /\ ArgumentsOK'
    BY <1>1, <1>3 DEF CountInv, PassOK, ArgumentsOK
  <1>6. es'.there /\ cr'.count # 0 => Agree'
    BY <1>1, <1>2 DEF CountInv, EcOK, CacheOK, Agree, Coming, Written
  <1>7. SharedOK' /\ AppliedOK'
    BY <1>6 DEF SharedOK, AppliedOK
  <1> QED BY <1>4, <1>5, <1>7 DEF CountInv

LEMMA CountSurroundings ==
    ASSUME TypeOK, CountInv,
           \/ Deliver \/ UserEditsCR \/ UserEditsES \/ SecretLost \/ Expire
           \/ Resync \/ Crash
    PROVE  CountInv'
  <1> USE TypeParts
  <1>1. CASE Deliver
    <2>1. /\ UNCHANGED <<cr, es, op, ec, deployed, fresh, certs>>
          /\ cached' = es /\ "cached" \notin stale' /\ queued' = queued \cup {"es"}
      BY <1>1, DeliverType
    <2>2. Coming'
      BY <2>1 DEF Coming
    <2> QED BY <2>1, <2>2 DEF CountInv, CacheOK, EcOK, SharedOK, AppliedOK, PassOK,
              ArgumentsOK, Agree
  <1>2. CASE UserEditsCR
    <2>1. /\ UNCHANGED <<es, cached, ec, op, deployed, fresh, certs>>
          /\ "cached" \in stale' <=> "cached" \in stale
          /\ queued \subseteq queued' /\ "jaeger" \in queued'
          /\ cr'.doNotProvision => cr'.count = Count(cached.nodes)
      BY <1>2, UserEditsCRType
    <2>2. CacheOK' /\ EcOK' /\ SharedOK'
      BY <2>1 DEF CountInv, CacheOK, EcOK, SharedOK, Agree, Coming
    <2> QED BY <2>1, <2>2 DEF CountInv, AppliedOK, PassOK, ArgumentsOK
  <1>3. CASE UserEditsES
    <2>1. /\ UNCHANGED <<cr, cached, op, ec, queued, deployed, fresh, certs>>
          /\ "cached" \in stale'
      BY <1>3, UserEditsESType
    <2>2. Coming'
      BY <2>1 DEF Coming
    <2> QED BY <2>1, <2>2 DEF CountInv, CacheOK, EcOK, SharedOK, AppliedOK, PassOK,
              ArgumentsOK, Agree
  <1>4. CASE SecretLost \/ Expire
    <2>1. UNCHANGED <<cr, es, cached, ec, op, queued, stale, deployed, issued, torn>>
      BY <1>4, SurroundingsType
    <2> QED BY <2>1 DEF CountInv, CacheOK, EcOK, SharedOK, AppliedOK, PassOK,
              ArgumentsOK, Agree, Coming
  <1>5. CASE Resync
    <2>1. /\ UNCHANGED <<cr, es, cached, ec, op, stale, deployed, fresh, certs>>
          /\ queued' = queued \cup {"jaeger", "es"}
      BY <1>5, ResyncType
    <2>2. Coming' /\ "jaeger" \in queued'
      BY <2>1 DEF Coming
    <2> QED BY <2>1, <2>2 DEF CountInv, CacheOK, EcOK, SharedOK, AppliedOK, PassOK,
              ArgumentsOK, Agree
  <1>6. CASE Crash
    <2>1. /\ op' = Idle /\ ec' = EsIdle /\ cached' = es /\ UNCHANGED es
          /\ queued' = {"jaeger", "es"}
      BY <1>6, CrashType
    <2>2. Coming' /\ "jaeger" \in queued' /\ op'.pc = "idle" /\ ec'.pc = "idle"
      BY <2>1, IdleType DEF Coming
    <2> QED BY <2>1, <2>2 DEF CountInv, CacheOK, EcOK, SharedOK, AppliedOK, PassOK,
              ArgumentsOK, Agree
  <1> QED BY <1>1, <1>2, <1>3, <1>4, <1>5, <1>6

LEMMA CountStep ==
    ASSUME TypeOK, CountInv, [Next]_vars
    PROVE  CountInv'
  <1>1. CASE ReconcileGet
    BY <1>1, CountReconcileGet
  <1>2. CASE CreateCerts
    BY <1>2, CreateCertsType, TypeParts, CountEarly
  <1>3. CASE ListSecrets
    <2>1. DOMAIN secrets \subseteq SecretNames
      BY TypeParts DEF CertType
    <2>2. /\ op.pc = "secrets" /\ op'.pc = "applySecrets" /\ op'.inst = op.inst
          /\ op'.orig = op.orig
      BY <1>3, <2>1, ListSecretsType, TypeParts
    <2>3. UNCHANGED <<cr, es, cached, ec, queued, stale>>
      BY <1>3 DEF ListSecrets, Outside
    <2> QED BY <2>2, <2>3, CountEarly
  <1>4. CASE applySecrets
    <2>1. /\ op.pc = "applySecrets" /\ queued \subseteq queued'
          /\ UNCHANGED <<cr, es, cached, ec, stale, fresh, files, torn, deployed>>
          /\ \/ /\ op'.pc = "elasticsearches" /\ op'.inst = op.inst
                /\ op'.orig = op.orig
             \/ op' = Idle /\ "jaeger" \in queued'
             \/ \E s \in SecretNames : Write(s)
      BY <1>4, ApplySecretsType, TypeParts
    <2>2. (\E s \in SecretNames : Write(s)) =>
             op'.pc = "applySecrets" /\ op'.inst = op.inst /\ op'.orig = op.orig
      BY DEF Write
    <2> QED BY <2>1, <2>2, CountEarly
  <1>5. CASE ListElasticsearches
    <2>1. /\ op.pc = "elasticsearches" /\ op'.pc = "applyElasticsearches"
          /\ op'.inst = op.inst /\ op'.orig = op.orig
          /\ "cached" \in stale' <=> "cached" \in stale
      BY <1>5, ListElasticsearchesType, TypeParts
    <2>2. UNCHANGED <<cr, es, cached, ec, queued>>
      BY <1>5 DEF ListElasticsearches, Outside
    <2> QED BY <2>1, <2>2, CountEarly
  <1>6. CASE applyElasticsearches
    BY <1>6, CountApplyElasticsearches
  <1>7. CASE applyDeployments
    BY <1>7, CountApplyDeployments
  <1>8. CASE StoreInstance
    BY <1>8, CountStoreInstance
  <1>9. CASE EsGet \/ EsList \/ EsUpdate
    BY <1>9, CountEsGet, CountEsList, CountEsUpdate
  <1>10. CASE UNCHANGED vars
    BY <1>10 DEF vars, CountInv, CacheOK, EcOK, SharedOK, AppliedOK, PassOK,
       ArgumentsOK, Agree, Coming
  <1> QED BY <1>1, <1>2, <1>3, <1>4, <1>5, <1>6, <1>7, <1>8, <1>9, <1>10,
        CountSurroundings DEF Next, Reconcile

-----------------------------------------------------------------------------
(* The certificates: every step keeps CertInv.                             *)
LEMMA SecretDomain ==
    ASSUME CertType, NEW s \in DOMAIN secrets
    PROVE  /\ DOMAIN secrets[s] = keyFileNameMap(s) /\ s \in SecretNames
           /\ keyFileNameMap(s) \subseteq Files
  <1>1. secrets[s] = [f \in keyFileNameMap(s) |-> secrets[s][f]]
    BY DEF CertType
  <1> QED BY <1>1, NameFacts DEF CertType

LEMMA CertInit ==
    ASSUME Init
    PROVE  CertInv
  <1>1. TypeOK /\ DOMAIN secrets = {} /\ files = EmptyDir /\ op.pc = "idle" /\ ec.pc = "idle"
    BY InitType, IdleType DEF Init
  <1>2. \A f \in Files : files[f] = Missing /\ files[f].due = FALSE
    BY <1>1, CopyFacts DEF Missing
  <1>3. KeyOK /\ MasterOK /\ ManagedOK /\ FilesOK /\ WritesOK
    BY <1>1, <1>2, NameFacts DEF KeyOK, MasterOK, ManagedOK, FilesOK, WritesOK
  <1>4. AgreeOK
    <2>1. MadeBy(0) /\ StoredBy(0) /\ 0 \in Nat
      BY <1>1, <1>2 DEF MadeBy, StoredBy
    <2> QED BY <2>1 DEF AgreeOK
  <1>5. DoneOK
    BY <1>1 DEF Init, DoneOK
  <1> QED BY <1>1, <1>3, <1>4, <1>5 DEF CertInv

Late == {"elasticsearches", "applyElasticsearches", "deployments", "store"}
(* What a step that leaves the certificates alone is to the pass: the first *)
(* one, one that fails, none of its steps, one after the secrets.           *)
Begun == op'.pc = "certs"
Gone == op' = Idle /\ "jaeger" \in queued'
Other == fresh' = fresh /\ op' = op /\ ("jaeger" \in queued => "jaeger" \in queued')
Later == fresh' = fresh /\ op.pc \in Late /\ op'.pc \in Late \cup {"idle"}

(* Such a step keeps the invariant.                                        *)
LEMMA CertKept ==
    ASSUME CertInv, ControlType',
           UNCHANGED <<secrets, files, torn>>,
           cr'.useCertManagement = cr.useCertManagement,
           op'.pc # "idle" => op'.inst.useCertManagement = cr'.useCertManagement,
           ec'.pc = "update" => ec'.inst.useCertManagement = cr'.useCertManagement,
           Begun \/ Gone \/ Other \/ Later
    PROVE  CertInv'
  <1>1. CertType'
    BY TypeParts DEF CertInv, CertType
  <1>2. TypeOK'
    BY <1>1, TypeParts DEF TypeOK, ControlType, CertType, Passes, EsPasses
  <1>3. KeyOK' /\ AgreeOK' /\ MasterOK'
    BY DEF CertInv, KeyOK, AgreeOK, MasterOK, Complete, MadeBy, StoredBy
  <1>4. ManagedOK'
    BY DEF CertInv, ManagedOK
  <1>5. SecretsDone' <=> SecretsDone
    BY DEF SecretsDone, StoredBy
  <1>6. CASE Begun \/ Gone
    <2>1. FilesOK' /\ WritesOK' /\ DoneOK'
      BY <1>6, IdleType DEF Begun, Gone, FilesOK, WritesOK, DoneOK
    <2> QED BY <1>2, <1>3, <1>4, <2>1 DEF CertInv
  <1>7. CASE Other
    <2>1. FilesOK' /\ WritesOK'
      BY <1>7 DEF Other, CertInv, FilesOK, WritesOK, Complete, Valid
    <2>2. DoneOK'
      BY <1>5, <1>7 DEF Other, CertInv, DoneOK
    <2> QED BY <1>2, <1>3, <1>4, <2>1, <2>2 DEF CertInv
  <1>8. CASE Later
    <2>1. FilesOK' /\ WritesOK'
      BY <1>8 DEF Later, Late, FilesOK, WritesOK
    <2>2. DoneOK'
      BY <1>5, <1>8 DEF Later, CertInv, DoneOK, Late
    <2> QED BY <1>2, <1>3, <1>4, <2>1, <2>2 DEF CertInv
  <1> QED BY <1>6, <1>7, <1>8

(* The directory after the secrets have been read.                         *)
LEMMA DirectoryFacts ==
    ASSUME CertInv
    PROVE  LET dir == extractSecretsToFile(files, secrets)
           IN  /\ dir \in [Files -> Copies] /\ dir["ca.key"].due = FALSE
               /\ \/ torn
                  \/ \E a \in Nat :
                        /\ \A f \in Files : dir[f] # Missing => dir[f].by = a
                        /\ StoredBy(a) \/ \A f \in Files : dir[f] # Missing
               /\ Master \in DOMAIN secrets /\ ~secrets[Master]["ca.crt"].due =>
                     dir["ca.crt"] = secrets[Master]["ca.crt"] /\ ~NeedsAuthority(dir)
  <1> DEFINE dir == extractSecretsToFile(files, secrets)
  <1>1. /\ dir \in [Files -> Copies]
        /\ \A f \in Files :
              /\ files[f] # Missing => dir[f] = files[f]
              /\ files[f] = Missing =>
                   \/ dir[f] = Missing
                   \/ \E s \in DOMAIN secrets :
                         f \in keyFileNameMap(s) /\ dir[f] = secrets[s][f]
        /\ Master \in DOMAIN secrets => \A f \in {"ca.crt", "ca.key"} :
              files[f] = Missing => dir[f] = secrets[Master][f]
    BY ExtractFacts DEF CertInv
  <1> HIDE DEF dir
  <1>2. /\ {"ca.crt", "ca.key"} \subseteq Files
        /\ keyFileNameMap(Master) = {"ca.crt", "ca.key"}
    BY NameFacts
  <1>3. \A s \in DOMAIN secrets : \A f \in keyFileNameMap(s) :
           secrets[s][f] \in Copies /\ secrets[s][f] # Missing
    BY TypeParts DEF CertInv, CertType
  <1>4. dir["ca.key"].due = FALSE
    <2>1. Missing.due = FALSE
      BY DEF Missing
    <2>2. dir["ca.key"].due \in BOOLEAN
      BY <1>1, <1>2 DEF Copies
    <2>3. ~dir["ca.key"].due
      <3>1. CASE files["ca.key"] # Missing
        BY <1>1, <1>2, <3>1 DEF CertInv, KeyOK
      <3>2. CASE dir["ca.key"] = Missing
        BY <2>1, <3>2
      <3>3. CASE \E s \in DOMAIN secrets :
                    "ca.key" \in keyFileNameMap(s) /\ dir["ca.key"] = secrets[s]["ca.key"]
        BY <3>3 DEF CertInv, KeyOK
      <3> QED BY <1>1, <1>2, <3>1, <3>2, <3>3
    <2> QED BY <2>2, <2>3
  <1>5. \/ torn
        \/ \E a \in Nat :
              /\ \A f \in Files : dir[f] # Missing => dir[f].by = a
              /\ StoredBy(a) \/ \A f \in Files : dir[f] # Missing
    <2>1. CASE Complete /\ \E a \in Nat : MadeBy(a)
      <3>1. PICK a \in Nat : MadeBy(a)
        BY <2>1
      <3>2. \A f \in Files : dir[f] = files[f] /\ dir[f] # Missing
        BY <1>1, <2>1 DEF Complete
      <3> QED BY <3>1, <3>2 DEF MadeBy
    <2>2. CASE \E a \in Nat : MadeBy(a) /\ StoredBy(a)
      <3>1. PICK a \in Nat : MadeBy(a) /\ StoredBy(a)
        BY <2>2
      <3>2. \A f \in Files : dir[f] # Missing => dir[f].by = a
        BY <1>1, <3>1 DEF MadeBy, StoredBy
      <3> QED BY <3>1, <3>2
    <2> QED BY <2>1, <2>2 DEF CertInv, AgreeOK
  <1>6. ASSUME Master \in DOMAIN secrets, ~secrets[Master]["ca.crt"].due
        PROVE  dir["ca.crt"] = secrets[Master]["ca.crt"] /\ ~NeedsAuthority(dir)
    <2>1. files["ca.crt"] \in {Missing, secrets[Master]["ca.crt"]}
      BY <1>6 DEF CertInv, MasterOK
    <2>2. dir["ca.crt"] = secrets[Master]["ca.crt"]
      BY <1>1, <1>2, <1>6, <2>1
    <2>3. dir["ca.crt"] # Missing /\ dir["ca.key"] # Missing
      BY <1>1, <1>2, <1>3, <1>6, <2>2
    <2> QED BY <1>6, <2>2, <2>3 DEF NeedsAuthority
  <1> QED BY <1>1, <1>4, <1>5, <1>6 DEF dir

LEMMA CertCreateCerts ==
    ASSUME CertInv, CreateCerts
    PROVE  CertInv'
  <1> DEFINE dir == extractSecretsToFile(files, secrets)
             new == NeedsAuthority(dir)
             out == cert_generation(dir, issued + 1)
  <1>1. /\ ControlType' /\ op.pc = "certs" /\ queued \subseteq queued'
        /\ UNCHANGED <<cr, es, cached, ec, stale, deployed, secrets, fresh>>
        /\ \/ op'.pc = "secrets" /\ op'.inst = op.inst /\ op'.orig = op.orig
           \/ op' = Idle /\ "jaeger" \in queued'
    BY CreateCertsType, TypeParts DEF CertInv
  <1>2. /\ dir \in [Files -> Copies] /\ dir["ca.key"].due = FALSE
        /\ \/ torn
           \/ \E a \in Nat :
                 /\ \A f \in Files : dir[f] # Missing => dir[f].by = a
                 /\ StoredBy(a) \/ \A f \in Files : dir[f] # Missing
        /\ Master \in DOMAIN secrets /\ ~secrets[Master]["ca.crt"].due =>
              dir["ca.crt"] = secrets[Master]["ca.crt"] /\ ~new
    BY DirectoryFacts
  <1>3. issued + 1 \in Nat /\ issued + 1 # 0
    BY TypeParts DEF CertInv, ControlType
  <1>4. /\ out \in [Files -> Copies]
        /\ \A f \in Files : out[f] # Missing
        /\ dir["ca.key"].due = FALSE => \A f \in Files : ~out[f].due
        /\ new => \A f \in Files : out[f].by = issued + 1
        /\ ~new => /\ out["ca.crt"] = dir["ca.crt"]
                   /\ \A b \in Nat : (\A f \in Files : dir[f] # Missing => dir[f].by = b)
                         => \A f \in Files : out[f].by = b
    <2> DEFINE a == issued + 1
    <2>1. dir \in [Files -> Copies] /\ a \in Nat /\ a # 0
      BY <1>2, <1>3
    <2> HIDE DEF dir, a
    <2>2. LET g == cert_generation(dir, a)
          IN  /\ g \in [Files -> Copies]
              /\ \A f \in Files : g[f] # Missing
              /\ dir["ca.key"].due = FALSE => \A f \in Files : ~g[f].due
              /\ NeedsAuthority(dir) => \A f \in Files : g[f].by = a
              /\ ~NeedsAuthority(dir) =>
                   /\ g["ca.crt"] = dir["ca.crt"]
                   /\ \A b \in Nat : (\A f \in Files : dir[f] # Missing => dir[f].by = b)
                         => \A f \in Files : g[f].by = b
      BY <2>1, GenerationFacts
    <2> QED BY <2>2 DEF a
  <1>5. \/ /\ op.inst.useCertManagement /\ Goto("secrets")
           /\ UNCHANGED <<files, torn>>
        \/ /\ ~op.inst.useCertManagement /\ Goto("secrets")
           /\ files' = out /\ torn' = (torn /\ ~new)
        \/ files' \in {files, dir} /\ Requeue /\ UNCHANGED torn
    BY DEF CreateCerts
  <1> HIDE DEF dir, new, out
  <1>6. /\ cr.useCertManagement = op.inst.useCertManagement
        /\ "ca.crt" \in Files /\ "ca.key" \in Files
    BY <1>1, NameFacts DEF CertInv, ManagedOK
  <1>7. ManagedOK' /\ WritesOK' /\ DoneOK'
    BY <1>1, IdleType DEF CertInv, ManagedOK, WritesOK, DoneOK
  <1>8. CertType /\ KeyOK /\ AgreeOK /\ MasterOK
    BY TypeParts DEF CertInv
  <1>9. CASE files' = files /\ torn' = torn /\ (op' = Idle \/ op.inst.useCertManagement)
    <2>1. CertType' /\ KeyOK' /\ AgreeOK' /\ MasterOK'
      BY <1>1, <1>8, <1>9 DEF CertType, KeyOK, AgreeOK, MasterOK, Complete, MadeBy, StoredBy
    <2>2. FilesOK'
      BY <1>1, <1>6, <1>9, IdleType DEF FilesOK
    <2> QED BY <1>1, <1>7, <2>1, <2>2, TypePartsNext DEF CertInv
  <1>10. CASE files' = out /\ torn' = (torn /\ ~new) /\ op'.pc = "secrets"
    <2>1. CertType'
      BY <1>1, <1>4, <1>8, <1>10 DEF CertType
    <2>2. Complete' /\ Valid'
      BY <1>2, <1>4, <1>10 DEF Complete, Valid
    <2>3. KeyOK'
      BY <1>1, <1>6, <1>8, <2>2 DEF KeyOK, Valid
    <2>4. AgreeOK'
      <3>1. torn' \/ \E a \in Nat : \A f \in Files : out[f].by = a
        <4>1. CASE new
          BY <1>3, <1>4, <4>1
        <4>2. CASE ~new
          BY <1>2, <1>4, <1>10, <4>2
        <4> QED BY <4>1, <4>2
      <3> QED BY <1>10, <2>2, <3>1 DEF AgreeOK, MadeBy
    <2>5. MasterOK'
      BY <1>1, <1>2, <1>4, <1>10 DEF MasterOK
    <2>6. FilesOK'
      BY <2>2 DEF FilesOK
    <2> QED BY <1>1, <1>7, <2>1, <2>3, <2>4, <2>5, <2>6, TypePartsNext DEF CertInv
  <1>11. CASE files' = dir /\ torn' = torn /\ op' = Idle
    <2>1. CertType'
      BY <1>1, <1>2, <1>8, <1>11 DEF CertType
    <2>2. KeyOK'
      <3>1. ~dir["ca.key"].due
        BY <1>2
      <3> QED BY <1>1, <1>8, <1>11, <3>1 DEF KeyOK
    <2>3. AgreeOK'
      <3>1. CASE torn
        BY <1>11, <3>1 DEF AgreeOK
      <3>2. CASE ~torn
        <4>1. PICK a \in Nat :
                /\ \A f \in Files : dir[f] # Missing => dir[f].by = a
                /\ StoredBy(a) \/ \A f \in Files : dir[f] # Missing
          BY <1>2, <3>2
        <4>2. MadeBy(a)'
          BY <1>11, <4>1 DEF MadeBy
        <4>3. StoredBy(a)' \/ Complete'
          BY <1>1, <1>11, <4>1 DEF StoredBy, Complete
        <4> QED BY <4>2, <4>3 DEF AgreeOK
      <3> QED BY <3>1, <3>2
    <2>4. MasterOK'
      BY <1>1, <1>2, <1>11 DEF MasterOK
    <2>5. FilesOK'
      BY <1>11, IdleType DEF FilesOK
    <2> QED BY <1>1, <1>7, <2>1, <2>2, <2>3, <2>4, <2>5, TypePartsNext DEF CertInv
  <1>12. /\ Requeue => op' = Idle
         /\ Goto("secrets") => op'.pc = "secrets"
    <2>1. Requeue => op' = Idle
      BY DEF Requeue, Return
    <2>2. Goto("secrets") => op'.pc = "secrets"
      BY <1>1, TypeParts, GotoType DEF CertInv
    <2> QED BY <2>1, <2>2
  <1> QED BY <1>5, <1>9, <1>10, <1>11, <1>12

LEMMA CertListSecrets ==
    ASSUME CertInv, ListSecrets
    PROVE  CertInv'
  <1>1. CertType /\ ControlType /\ DOMAIN secrets \subseteq SecretNames
    BY TypeParts DEF CertInv, CertType
  <1>2. /\ ControlType'
        /\ op.pc = "secrets" /\ op'.pc = "applySecrets" /\ op'.inst = op.inst
        /\ op'.update = (IF op.inst.useCertManagement THEN {} ELSE SecretNames)
                           \cap DOMAIN secrets
        /\ op'.create = (IF op.inst.useCertManagement THEN {} ELSE SecretNames)
                           \ DOMAIN secrets
    BY <1>1, ListSecretsType
  <1>3. UNCHANGED <<cr, ec, fresh, secrets, files, torn>>
    BY DEF ListSecrets, Outside, certs
  <1>4. CertType'
    BY <1>1, <1>3 DEF CertType
  <1>5. KeyOK' /\ AgreeOK' /\ MasterOK'
    BY <1>3 DEF CertInv, KeyOK, AgreeOK, MasterOK, Complete, MadeBy, StoredBy
  <1>6. ManagedOK' /\ op.inst.useCertManagement = cr.useCertManagement
    BY <1>2, <1>3 DEF CertInv, ManagedOK
  <1>7. FilesOK'
    BY <1>2, <1>3 DEF CertInv, FilesOK, Complete, Valid
  <1>8. WritesOK'
    <2>1. cr.useCertManagement => DOMAIN secrets = {}
      BY DEF CertInv, ManagedOK
    <2>2. op'.update = DOMAIN secrets
      BY <1>1, <1>2, <1>6, <2>1
    <2> QED BY <1>2, <1>3, <1>6, <2>1, <2>2 DEF WritesOK
  <1>9. DoneOK'
    BY <1>2 DEF DoneOK
  <1> QED BY <1>2, <1>4, <1>5, <1>6, <1>7, <1>8, <1>9, TypePartsNext DEF CertInv

(* A secret is written from complete files.                                *)
LEMMA WriteFacts ==
    ASSUME CertInv, op.pc = "applySecrets", NEW s \in SecretNames, Write(s)
    PROVE  /\ ~cr.useCertManagement /\ Complete
           /\ DOMAIN secrets' = DOMAIN secrets \cup {s}
           /\ secrets'[s] = [f \in keyFileNameMap(s) |-> files[f]]
           /\ \A n \in DOMAIN secrets : n # s => secrets'[n] = secrets[n]
  <1>1. s \in op.create \cup op.update
    BY DEF Write
  <1>2. ~cr.useCertManagement
    BY <1>1 DEF CertInv, WritesOK
  <1>3. Complete
    BY <1>2 DEF CertInv, FilesOK
  <1>4. ExtractSecrets(files)[s] = [f \in keyFileNameMap(s) |-> files[f]]
    BY DEF ExtractSecrets
  <1> DEFINE content == ExtractSecrets(files)[s]
  <1>5. secrets' = [n \in DOMAIN secrets \cup {s} |-> IF n = s THEN content ELSE secrets[n]]
    BY DEF Write
  <1>6. content = [f \in keyFileNameMap(s) |-> files[f]]
    BY <1>4
  <1> HIDE DEF content
  <1>7. /\ DOMAIN secrets' = DOMAIN secrets \cup {s}
        /\ secrets'[s] = content
        /\ \A n \in DOMAIN secrets : n # s => secrets'[n] = secrets[n]
    BY <1>5
  <1> QED BY <1>2, <1>3, <1>6, <1>7

LEMMA CertApplySecrets ==
    ASSUME CertInv, applySecrets
    PROVE  CertInv'
  <1>1. ControlType /\ CertType
    BY TypeParts DEF CertInv
  <1>2. /\ ControlType' /\ op.pc = "applySecrets" /\ queued \subseteq queued'
        /\ UNCHANGED <<cr, es, cached, ec, stale, fresh, files, torn, deployed>>
        /\ \/ /\ op'.pc = "elasticsearches" /\ op'.inst = op.inst /\ op'.orig = op.orig
              /\ op.create = {} /\ op.update = {} /\ UNCHANGED <<secrets, queued>>
           \/ op' = Idle /\ "jaeger" \in queued' /\ UNCHANGED secrets
           \/ \E s \in SecretNames : Write(s)
    BY <1>1, ApplySecretsType
  <1>3. CASE op' = Idle /\ "jaeger" \in queued' /\ UNCHANGED secrets
    <2>1. Gone
      BY <1>3 DEF Gone
    <2>2. ec'.pc = "update" => ec'.inst.useCertManagement = cr'.useCertManagement
      BY <1>2 DEF CertInv, ManagedOK
    <2> QED BY <1>2, <1>3, <2>1, <2>2, IdleType, CertKept
  <1>4. CASE /\ op'.pc = "elasticsearches" /\ op'.inst = op.inst
             /\ op.create = {} /\ op.update = {} /\ UNCHANGED secrets
    <2>1. CertType' /\ KeyOK' /\ AgreeOK' /\ MasterOK'
      BY <1>1, <1>2, <1>4 DEF CertInv, CertType, KeyOK, AgreeOK, MasterOK, Complete,
         MadeBy, StoredBy
    <2>2. ManagedOK' /\ FilesOK' /\ WritesOK'
      BY <1>2, <1>4 DEF CertInv, ManagedOK, FilesOK, WritesOK
    <2>3. ASSUME fresh, ~cr.useCertManagement
          PROVE  SecretsDone
      <3>1. /\ DOMAIN secrets = SecretNames
            /\ \A s \in SecretNames : \A f \in keyFileNameMap(s) : secrets[s][f] = files[f]
        BY <1>1, <1>2, <1>4, <2>3 DEF CertInv, WritesOK, CertType
      <3>2. Complete /\ Valid
        BY <1>2, <2>3 DEF CertInv, FilesOK
      <3>3. \A s \in SecretNames : keyFileNameMap(s) \subseteq Files
        BY NameFacts
      <3>4. \A s \in SecretNames : \A f \in keyFileNameMap(s) : ~secrets[s][f].due
        BY <3>1, <3>2, <3>3 DEF Valid
      <3>5. \A a \in Nat : MadeBy(a) => StoredBy(a)
        BY <3>1, <3>2, <3>3 DEF MadeBy, StoredBy, Complete
      <3>6. torn \/ \E a \in Nat : StoredBy(a)
        BY <3>5 DEF CertInv, AgreeOK
      <3> QED BY <3>1, <3>4, <3>6 DEF SecretsDone
    <2>4. DoneOK'
      <3>1. SecretsDone => SecretsDone'
        BY <1>2, <1>4 DEF SecretsDone, StoredBy
      <3> QED BY <1>2, <2>3, <3>1 DEF DoneOK
    <2> QED BY <1>2, <2>1, <2>2, <2>4, TypePartsNext DEF CertInv
  <1>5. ASSUME NEW s \in SecretNames, Write(s)
        PROVE  CertInv'
    <2>1. /\ ~cr.useCertManagement /\ Complete
          /\ DOMAIN secrets' = DOMAIN secrets \cup {s}
          /\ secrets'[s] = [f \in keyFileNameMap(s) |-> files[f]]
          /\ \A n \in DOMAIN secrets : n # s => secrets'[n] = secrets[n]
      BY <1>2, <1>5, WriteFacts
    <2>2. keyFileNameMap(s) \subseteq Files
      BY NameFacts
    <2>3. \A f \in keyFileNameMap(s) : secrets'[s][f] = files[f] /\ files[f] # Missing
      BY <2>1, <2>2 DEF Complete
    <2>4. CertType'
      <3>1. \A n \in DOMAIN secrets' :
               secrets'[n] = [f \in keyFileNameMap(n) |-> secrets'[n][f]]
        <4>1. secrets'[s] = [f \in keyFileNameMap(s) |-> secrets'[s][f]]
          BY <2>1
        <4>2. \A n \in DOMAIN secrets : secrets[n] = [f \in keyFileNameMap(n) |-> secrets[n][f]]
          BY <1>1 DEF CertType
        <4> QED BY <2>1, <4>1, <4>2
      <3>2. secrets' = [n \in DOMAIN secrets' |-> secrets'[n]]
        BY <1>5 DEF Write
      <3>3. secrets' = [n \in DOMAIN secrets' |->
                          [f \in keyFileNameMap(n) |-> secrets'[n][f]]]
        BY <3>1, <3>2
      <3>4. \A n \in DOMAIN secrets' : \A f \in keyFileNameMap(n) :
               secrets'[n][f] \in Copies /\ secrets'[n][f] # Missing
        BY <1>1, <2>1, <2>2, <2>3 DEF CertType
      <3> QED BY <1>1, <1>2, <2>1, <3>3, <3>4 DEF CertType
    <2>5. KeyOK'
      BY <1>2, <2>1, <2>3 DEF CertInv, KeyOK
    <2>6. AgreeOK'
      <3>1. ASSUME NEW a \in Nat, MadeBy(a), StoredBy(a)
            PROVE  StoredBy(a)'
        <4>1. \A f \in keyFileNameMap(s) : secrets'[s][f].by = a
          BY <2>2, <2>3, <3>1 DEF MadeBy
        <4> QED BY <2>1, <3>1, <4>1 DEF StoredBy
      <3>2. torn' = torn /\ (Complete' <=> Complete) /\ \A a \in Nat : MadeBy(a)' <=> MadeBy(a)
        BY <1>2 DEF Complete, MadeBy
      <3> QED BY <3>1, <3>2 DEF CertInv, AgreeOK
    <2>7. MasterOK'
      BY <1>2, <2>1, <2>3, NameFacts DEF CertInv, MasterOK
    <2>8. ManagedOK' /\ FilesOK' /\ DoneOK'
      <3>1. op'.pc = "applySecrets" /\ op'.inst = op.inst
        BY <1>5 DEF Write
      <3>2. FilesOK'
        BY <1>2, <3>1 DEF CertInv, FilesOK, Complete, Valid
      <3> QED BY <1>2, <2>1, <3>1, <3>2 DEF CertInv, ManagedOK, DoneOK
    <2>9. WritesOK'
      <3>1. /\ op'.create = op.create \ {s}
            /\ op'.update = IF op.create = {} THEN op.update \ {s} ELSE op.update
        BY <1>5 DEF Write
      <3>2. ASSUME fresh
            PROVE  /\ SecretNames \subseteq DOMAIN secrets' \cup op'.create
                   /\ \A n \in DOMAIN secrets' \ (op'.create \cup op'.update) :
                         \A f \in keyFileNameMap(n) : secrets'[n][f] = files'[f]
        BY <1>2, <2>1, <2>3, <3>1, <3>2 DEF CertInv, WritesOK
      <3> QED BY <1>2, <2>1, <3>2 DEF WritesOK
    <2> QED BY <1>2, <2>4, <2>5, <2>6, <2>7, <2>8, <2>9, TypePartsNext DEF CertInv
  <1> QED BY <1>2, <1>3, <1>4, <1>5

(* Secrets go, certificates expire: who signed what stays as it is.        *)
LEMMA CertSecretLost ==
    ASSUME CertInv, SecretLost
    PROVE  CertInv'
  <1>1. ControlType /\ CertType
    BY TypeParts DEF CertInv
  <1>2. /\ ControlType' /\ fresh' = FALSE
        /\ UNCHANGED <<cr, es, cached, ec, op, queued, stale, deployed, issued, torn>>
    BY <1>1, SurroundingsType
  <1>3. files' = files
    BY DEF SecretLost
  <1>4. PICK s \in DOMAIN secrets : secrets' = [n \in DOMAIN secrets \ {s} |-> secrets[n]]
    BY DEF SecretLost
  <1>5. /\ DOMAIN secrets' = DOMAIN secrets \ {s}
        /\ \A n \in DOMAIN secrets' : secrets'[n] = secrets[n]
    BY <1>4
  <1>6. CertType'
    <2>1. \A n \in DOMAIN secrets : secrets[n] = [f \in keyFileNameMap(n) |-> secrets[n][f]]
      BY <1>1 DEF CertType
    <2>2. secrets' = [n \in DOMAIN secrets' |->
                        [f \in keyFileNameMap(n) |-> secrets'[n][f]]]
      BY <1>4, <1>5, <2>1
    <2> QED BY <1>1, <1>3, <1>5, <2>2 DEF CertType
  <1>7. KeyOK' /\ MasterOK' /\ ManagedOK'
    BY <1>2, <1>3, <1>5 DEF CertInv, KeyOK, MasterOK, ManagedOK
  <1>8. AgreeOK'
    BY <1>2, <1>3, <1>5 DEF CertInv, AgreeOK, Complete, MadeBy, StoredBy
  <1>9. FilesOK' /\ WritesOK' /\ DoneOK'
    BY <1>2, <1>3 DEF CertInv, FilesOK, WritesOK, DoneOK, Complete
  <1> QED BY <1>2, <1>6, <1>7, <1>8, <1>9, TypePartsNext DEF CertInv

LEMMA ExpireFacts ==
    ASSUME CertType, Expire
    PROVE  \E f \in Files \ {"ca.key"} :
             /\ files' \in [Files -> Copies]
             /\ \A g \in Files :
                   /\ g # f => files'[g] = files[g]
                   /\ files'[g].by = files[g].by
                   /\ files'[g] = Missing <=> files[g] = Missing
             /\ DOMAIN secrets' = DOMAIN secrets
             /\ secrets' = [s \in DOMAIN secrets' |->
                              [g \in keyFileNameMap(s) |-> secrets'[s][g]]]
             /\ \A s \in DOMAIN secrets : \A g \in keyFileNameMap(s) :
                   /\ g # f => secrets'[s][g] = secrets[s][g]
                   /\ g = f => secrets'[s][g].due
                   /\ secrets'[s][g].by = secrets[s][g].by
                   /\ secrets'[s][g] \in Copies /\ secrets'[s][g] # Missing
  <1>1. PICK f \in Files \ {"ca.key"} :
          /\ files' = [files EXCEPT ![f] = Expired(files[f])]
          /\ secrets' = [s \in DOMAIN secrets |->
                           [g \in DOMAIN secrets[s] |->
                              IF g = f THEN Expired(secrets[s][g])
                              ELSE secrets[s][g]]]
    BY DEF Expire
  <1>2. \A s \in DOMAIN secrets : DOMAIN secrets[s] = keyFileNameMap(s)
    BY SecretDomain
  <1>3. \A c \in Copies : /\ Expired(c) \in Copies /\ Expired(c).by = c.by
                          /\ Expired(c) = Missing <=> c = Missing
                          /\ c # Missing => Expired(c).due
    BY ExpiredFacts
  <1>4. files \in [Files -> Copies]
    BY DEF CertType
  <1>5. /\ files' \in [Files -> Copies]
        /\ \A g \in Files :
              /\ g # f => files'[g] = files[g]
              /\ files'[g].by = files[g].by
              /\ files'[g] = Missing <=> files[g] = Missing
    BY <1>1, <1>3, <1>4
  <1>6. /\ DOMAIN secrets' = DOMAIN secrets
        /\ \A s \in DOMAIN secrets :
              secrets'[s] = [g \in keyFileNameMap(s) |->
                               IF g = f THEN Expired(secrets[s][g]) ELSE secrets[s][g]]
    BY <1>1, <1>2
  <1>7. \A s \in DOMAIN secrets : \A g \in keyFileNameMap(s) :
           secrets[s][g] \in Copies /\ secrets[s][g] # Missing
    BY DEF CertType
  <1>8. \A s \in DOMAIN secrets : \A g \in keyFileNameMap(s) :
           /\ g # f => secrets'[s][g] = secrets[s][g]
           /\ g = f => secrets'[s][g].due
           /\ secrets'[s][g].by = secrets[s][g].by
           /\ secrets'[s][g] \in Copies /\ secrets'[s][g] # Missing
    BY <1>3, <1>6, <1>7
  <1>9. secrets' = [s \in DOMAIN secrets' |->
                      [g \in keyFileNameMap(s) |-> secrets'[s][g]]]
    <2>1. \A s \in DOMAIN secrets' :
             secrets'[s] = [g \in keyFileNameMap(s) |-> secrets'[s][g]]
      BY <1>6
    <2>2. secrets' = [s \in DOMAIN secrets' |-> secrets'[s]]
      BY <1>1
    <2> QED BY <2>1, <2>2
  <1> QED BY <1>5, <1>6, <1>8, <1>9

LEMMA CertExpire ==
    ASSUME CertInv, Expire
    PROVE  CertInv'
  <1>1. ControlType /\ CertType
    BY TypeParts DEF CertInv
  <1>2. /\ ControlType' /\ fresh' = FALSE
        /\ UNCHANGED <<cr, es, cached, ec, op, queued, stale, deployed, issued, torn>>
    BY <1>1, SurroundingsType
  <1>3. PICK f \in Files \ {"ca.key"} :
             /\ files' \in [Files -> Copies]
             /\ \A g \in Files :
                   /\ g # f => files'[g] = files[g]
                   /\ files'[g].by = files[g].by
                   /\ files'[g] = Missing <=> files[g] = Missing
             /\ DOMAIN secrets' = DOMAIN secrets
             /\ secrets' = [s \in DOMAIN secrets' |->
                              [g \in keyFileNameMap(s) |-> secrets'[s][g]]]
             /\ \A s \in DOMAIN secrets : \A g \in keyFileNameMap(s) :
                   /\ g # f => secrets'[s][g] = secrets[s][g]
                   /\ g = f => secrets'[s][g].due
                   /\ secrets'[s][g].by = secrets[s][g].by
                   /\ secrets'[s][g] \in Copies /\ secrets'[s][g] # Missing
    BY <1>1, ExpireFacts
  <1>4. CertType'
    BY <1>1, <1>3 DEF CertType
  <1>5. KeyOK' /\ MasterOK'
    BY <1>3, NameFacts DEF CertInv, KeyOK, MasterOK
  <1>6. Complete' <=> Complete
    BY <1>3 DEF Complete
  <1>7. AgreeOK'
    <2>1. \A a \in Nat : (MadeBy(a)' <=> MadeBy(a)) /\ (StoredBy(a)' <=> StoredBy(a))
      BY <1>3 DEF MadeBy, StoredBy
    <2> QED BY <1>2, <1>6, <2>1 DEF CertInv, AgreeOK
  <1>8. ManagedOK' /\ FilesOK' /\ WritesOK' /\ DoneOK'
    BY <1>2, <1>3, <1>6 DEF CertInv, ManagedOK, FilesOK, WritesOK, DoneOK
  <1> QED BY <1>2, <1>4, <1>5, <1>7, <1>8, TypePartsNext DEF CertInv

(* The secrets that say one authority, as a sentence about any two of them *)
(* and as one about an authority.                                          *)
LEMMA OneAuthorityFacts ==
    ASSUME CertType
    PROVE  OneAuthority <=> \E a \in Nat : StoredBy(a)
  <1>1. \A s \in DOMAIN secrets : DOMAIN secrets[s] = keyFileNameMap(s)
    BY SecretDomain
  <1>2. ASSUME OneAuthority
        PROVE  \E a \in Nat : StoredBy(a)
    <2>1. CASE DOMAIN secrets = {}
      BY <2>1 DEF StoredBy
    <2>2. CASE DOMAIN secrets # {}
      <3>1. PICK s \in DOMAIN secrets : TRUE
        BY <2>2
      <3>2. "ca.crt" \in keyFileNameMap(s) /\ secrets[s]["ca.crt"].by \in Nat
        BY NameFacts, CopyFacts DEF CertType
      <3>3. StoredBy(secrets[s]["ca.crt"].by)
        BY <1>1, <1>2, <3>2 DEF OneAuthority, StoredBy
      <3> QED BY <3>2, <3>3
    <2> QED BY <2>1, <2>2
  <1>3. ASSUME NEW a \in Nat, StoredBy(a)
        PROVE  OneAuthority
    BY <1>1, <1>3 DEF OneAuthority, StoredBy
  <1> QED BY <1>2, <1>3

LEMMA CertCrash ==
    ASSUME CertInv, Crash
    PROVE  CertInv'
  <1>1. ControlType /\ CertType
    BY TypeParts DEF CertInv
  <1>2. /\ ControlType' /\ op' = Idle /\ ec' = EsIdle
        /\ files' = EmptyDir /\ torn' = (torn \/ ~OneAuthority)
        /\ queued' = {"jaeger", "es"} /\ UNCHANGED <<cr, secrets, fresh>>
    BY <1>1, CrashType
  <1>3. /\ files' \in [Files -> Copies] /\ op'.pc = "idle" /\ ec'.pc = "idle"
        /\ \A f \in Files : files'[f] = Missing /\ ~files'[f].due
    BY <1>2, IdleType, CopyFacts DEF Missing
  <1>4. CertType'
    BY <1>1, <1>2, <1>3 DEF CertType
  <1>5. KeyOK' /\ MasterOK' /\ ManagedOK'
    BY <1>2, <1>3, NameFacts DEF CertInv, KeyOK, MasterOK, ManagedOK
  <1>6. AgreeOK'
    <2>1. CASE torn \/ ~OneAuthority
      BY <1>2, <2>1 DEF AgreeOK
    <2>2. CASE OneAuthority
      <3>1. PICK a \in Nat : StoredBy(a)
        BY <1>1, <2>2, OneAuthorityFacts
      <3>2. StoredBy(a)' /\ MadeBy(a)'
        BY <1>2, <1>3, <3>1 DEF StoredBy, MadeBy
      <3> QED BY <3>2 DEF AgreeOK
    <2> QED BY <2>1, <2>2
  <1>7. FilesOK' /\ WritesOK' /\ DoneOK'
    BY <1>2, <1>3 DEF FilesOK, WritesOK, DoneOK
  <1> QED BY <1>2, <1>4, <1>5, <1>6, <1>7, TypePartsNext DEF CertInv

LEMMA CertStep ==
    ASSUME CertInv, [Next]_vars
    PROVE  CertInv'
  <1>1. ControlType /\ ManagedOK /\ cr \in Sections
    BY TypeParts DEF CertInv, ControlType
  <1>2. CASE ReconcileGet
    <2>1. /\ ControlType' /\ op'.pc = "certs"
          /\ op'.inst = normalizeElasticsearch(cr)
      BY <1>1, <1>2, ReconcileGetType
    <2>2. UNCHANGED <<cr, ec, secrets, files, torn>>
      BY <1>2 DEF ReconcileGet, Outside, certs
    <2>3. op'.inst.useCertManagement = cr'.useCertManagement
      BY <1>1, <2>1, <2>2, NormalizeFacts
    <2>4. ec'.pc = "update" => ec'.inst.useCertManagement = cr'.useCertManagement
      BY <1>1, <2>2 DEF ManagedOK
    <2> QED BY <2>1, <2>2, <2>3, <2>4, CertKept DEF Begun
  <1>3. CASE ListElasticsearches
    <2>1. /\ ControlType'
          /\ op.pc = "elasticsearches" /\ op'.pc = "applyElasticsearches"
          /\ op'.inst = op.inst
      BY <1>1, <1>3, ListElasticsearchesType
    <2>2. UNCHANGED <<cr, ec, secrets, files, torn, fresh>>
      BY <1>3 DEF ListElasticsearches, Outside, certs
    <2>3. Later
      BY <2>1, <2>2 DEF Later, Late
    <2> QED BY <1>1, <2>1, <2>2, <2>3, CertKept DEF ManagedOK
  <1>4. CASE applyElasticsearches
    <2>1. /\ ControlType' /\ op.pc = "applyElasticsearches"
          /\ UNCHANGED <<cr, ec, secrets, files, torn, fresh>>
          /\ \/ op' = Idle /\ "jaeger" \in queued'
             \/ op'.pc = "deployments" /\ op'.inst = op.inst
      BY <1>1, <1>4, ApplyElasticsearchesType DEF certs
    <2>2. Gone \/ Later
      BY <2>1 DEF Gone, Later, Late
    <2> QED BY <1>1, <2>1, <2>2, IdleType, CertKept DEF ManagedOK
  <1>5. CASE applyDeployments
    <2>1. /\ ControlType' /\ op.pc = "deployments"
          /\ UNCHANGED <<cr, ec, secrets, files, torn, fresh>>
          /\ \/ op' = Idle /\ "jaeger" \in queued'
             \/ op'.pc = "store" /\ op'.inst = op.inst
      BY <1>1, <1>5, ApplyDeploymentsType DEF certs
    <2>2. Gone \/ Later
      BY <2>1 DEF Gone, Later, Late
    <2> QED BY <1>1, <2>1, <2>2, IdleType, CertKept DEF ManagedOK
  <1>6. CASE StoreInstance
    <2>1. /\ ControlType' /\ op.pc = "store" /\ op' = Idle
          /\ UNCHANGED <<ec, secrets, files, torn, fresh>>
          /\ \/ cr' = cr
             \/ Written(op.inst)
      BY <1>1, <1>6, StoreInstanceType DEF certs
    <2>2. cr'.useCertManagement = cr.useCertManagement
      BY <1>1, <2>1 DEF Written, ManagedOK
    <2>3. Later
      BY <2>1, IdleType DEF Later, Late
    <2> QED BY <1>1, <2>1, <2>2, <2>3, IdleType, CertKept DEF ManagedOK
  <1>7. CASE EsGet
    <2>1. /\ ControlType' /\ ec.pc = "idle"
          /\ UNCHANGED <<cr, op, secrets, files, torn, fresh>>
          /\ queued' = queued \ {"es"}
          /\ ec' = ec \/ ec'.pc = "list"
      BY <1>1, <1>7, EsGetType DEF certs
    <2>2. Other
      BY <2>1 DEF Other
    <2> QED BY <1>1, <2>1, <2>2, CertKept DEF ManagedOK
  <1>8. CASE EsList
    <2>1. /\ ControlType'
          /\ UNCHANGED <<cr, queued, op, secrets, files, torn, fresh>>
          /\ ec' = EsIdle \/ ec'.inst = cr
      BY <1>1, <1>8, EsListType DEF certs
    <2>2. Other
      BY <2>1 DEF Other
    <2> QED BY <1>1, <2>1, <2>2, IdleType, CertKept DEF ManagedOK
  <1>9. CASE EsUpdate
    <2> DEFINE inst == [ec.inst EXCEPT !.count = ec.count]
    <2>1. /\ ControlType' /\ ec.pc = "update" /\ ec' = EsIdle
          /\ UNCHANGED <<op, secrets, files, torn, fresh>>
          /\ queued \subseteq queued'
          /\ cr' = cr \/ Written(inst)
      BY <1>1, <1>9, EsUpdateType DEF certs
    <2>2. inst.useCertManagement = cr.useCertManagement
      BY <1>1, <2>1 DEF ManagedOK, ControlType, EsPasses, Sections
    <2> HIDE DEF inst
    <2>3. cr'.useCertManagement = cr.useCertManagement
      BY <2>1, <2>2 DEF Written
    <2>4. Other
      BY <2>1 DEF Other
    <2> QED BY <1>1, <2>1, <2>3, <2>4, IdleType, CertKept DEF ManagedOK
  <1>10. CASE Deliver \/ UserEditsCR \/ UserEditsES \/ Resync \/ UNCHANGED vars
    <2>1. /\ ControlType' /\ UNCHANGED <<op, ec, secrets, files, torn, fresh>>
          /\ queued \subseteq queued'
          /\ cr'.useCertManagement = cr.useCertManagement
      <3>1. CASE Deliver
        BY <1>1, <3>1, DeliverType DEF certs
      <3>2. CASE UserEditsCR
        BY <1>1, <3>2, UserEditsCRType DEF certs
      <3>3. CASE UserEditsES
        BY <1>1, <3>3, UserEditsESType DEF certs
      <3>4. CASE Resync
        BY <1>1, <3>4, ResyncType DEF certs
      <3>5. CASE UNCHANGED vars
        BY <1>1, <3>5, StutterType DEF vars, certs
      <3> QED BY <1>10, <3>1, <3>2, <3>3, <3>4, <3>5
    <2>2. Other
      BY <2>1 DEF Other
    <2> QED BY <1>1, <2>1, <2>2, CertKept DEF ManagedOK
  <1> QED BY <1>2, <1>3, <1>4, <1>5, <1>6, <1>7, <1>8, <1>9, <1>10,
        CertCreateCerts, CertListSecrets, CertApplySecrets, CertSecretLost,
        CertExpire, CertCrash DEF Next, Reconcile

(* A step keeps a valid authority whose secret is there.                   *)
LEMMA AuthorityStep ==
    ASSUME CertInv, [Next]_vars,
           Master \in DOMAIN secrets, Master \in DOMAIN secrets',
           ~secrets[Master]["ca.crt"].due
    PROVE  secrets'[Master]["ca.crt"].by = secrets[Master]["ca.crt"].by
  <1>1. ControlType /\ CertType /\ "ca.crt" \in keyFileNameMap(Master) /\ "ca.crt" \in Files
    BY TypeParts, NameFacts DEF CertInv
  <1>2. CASE applySecrets
    <2>1. /\ op.pc = "applySecrets"
          /\ secrets' = secrets \/ \E s \in SecretNames : Write(s)
      BY <1>1, <1>2, ApplySecretsType
    <2>2. ASSUME NEW s \in SecretNames, Write(s)
          PROVE  secrets'[Master]["ca.crt"].by = secrets[Master]["ca.crt"].by
      <3>1. /\ Complete /\ secrets'[s] = [f \in keyFileNameMap(s) |-> files[f]]
            /\ \A n \in DOMAIN secrets : n # s => secrets'[n] = secrets[n]
        BY <2>1, <2>2, WriteFacts
      <3>2. files["ca.crt"] = secrets[Master]["ca.crt"]
        BY <1>1, <3>1 DEF CertInv, MasterOK, Complete
      <3> QED BY <1>1, <3>1, <3>2
    <2> QED BY <2>1, <2>2
  <1>3. CASE SecretLost
    <2>1. \A n \in DOMAIN secrets' : secrets'[n] = secrets[n]
      BY <1>3 DEF SecretLost
    <2> QED BY <2>1
  <1>4. CASE Expire
    <2>1. \A s \in DOMAIN secrets : \A g \in keyFileNameMap(s) :
             secrets'[s][g].by = secrets[s][g].by
      BY <1>1, <1>4, ExpireFacts
    <2> QED BY <1>1, <2>1
  <1>5. CASE ~(applySecrets \/ SecretLost \/ Expire)
    <2>1. secrets' = secrets
      BY <1>5 DEF Next, Reconcile, ReconcileGet, CreateCerts, ListSecrets,
         ListElasticsearches, applyElasticsearches, applyDeployments, StoreInstance,
         EsGet, EsList, EsUpdate, Instance, Deliver, UserEditsCR, UserEditsES, Resync,
         Crash, vars, certs
    <2> QED BY <2>1
  <1> QED BY <1>2, <1>3, <1>4, <1>5

-----------------------------------------------------------------------------
LEMMA CertInvariance == Spec => []CertInv
  <1>1. Init => CertInv
    BY CertInit
  <1>2. CertInv /\ [Next]_vars => CertInv'
    BY CertStep
  <1> QED BY <1>1, <1>2, PTL DEF Spec

(* Every variable of the storage keeps its type: a pass never works with   *)
(* an empty count, whatever the webhook and the Elasticsearch controller   *)
(* wrote (normalizeElasticsearch), and no secret holds an empty file.      *)
THEOREM StorageTypeCorrect == Spec => []TypeOK
  <1>1. CertInv => TypeOK
    BY DEF CertInv
  <1> QED BY <1>1, CertInvariance, PTL

(* After a pass without a loss or an expiry since its start, the four      *)
(* secrets are complete, valid and of one authority, whatever was lost,    *)
(* expired or failed before: CreateCerts, cert_generation.sh, the secrets. *)
THEOREM SecretsAgreeHolds == Spec => []SecretsAgree
  <1>1. CertInv => SecretsAgree
    <2> SUFFICES ASSUME CertInv, op.pc = "idle", "jaeger" \notin queued, fresh,
                        ~cr.useCertManagement
                 PROVE  /\ DOMAIN secrets = SecretNames
                        /\ \A s \in SecretNames : \A f \in DOMAIN secrets[s] :
                               ~secrets[s][f].due
                        /\ OneAuthority \/ torn
      BY DEF SecretsAgree
    <2>1. CertType
      BY TypeParts DEF CertInv
    <2>2. SecretsDone
      BY DEF CertInv, DoneOK
    <2>3. \A s \in SecretNames : DOMAIN secrets[s] = keyFileNameMap(s)
      BY <2>1, <2>2, SecretDomain DEF SecretsDone
    <2> QED BY <2>1, <2>2, <2>3, OneAuthorityFacts DEF SecretsDone
  <1> QED BY <1>1, CertInvariance, PTL

(* A valid authority is never replaced while its secret is there: neither  *)
(* a new container nor the loss of another secret makes the certificates   *)
(* that pods have mounted worthless (extractSecretsToFile).                *)
THEOREM AuthorityKeptHolds == Spec => AuthorityKept
  <1> DEFINE Kept == LET master == "master-certs"
                     IN  master \in DOMAIN secrets \cap DOMAIN secrets'
                           /\ ~secrets[master]["ca.crt"].due =>
                             secrets'[master]["ca.crt"].by = secrets[master]["ca.crt"].by
  <1>1. CertInv /\ [Next]_vars => [Kept]_vars
    BY AuthorityStep DEF Master
  <1> QED BY <1>1, CertInvariance, PTL DEF Spec, AuthorityKept

(* When both queues are empty and no event is on its way, the CR, the      *)
(* Elasticsearch object and the arguments of the deployments say the same  *)
(* number of nodes: whichever of the pass, the Elasticsearch controller,   *)
(* the webhook and the users wrote it last.                                *)
THEOREM NodeCountsAgreeHolds == Spec => []NodeCountsAgree
  <1>1. Init => CountInv
    BY CountInit
  <1>2. TypeOK /\ CountInv /\ [Next]_vars => CountInv'
    BY CountStep
  <1>3. CountInv => NodeCountsAgree
    BY DEF CountInv, AppliedOK, ArgumentsOK, Agree, Coming, NodeCountsAgree, Count
  <1> QED BY <1>1, <1>2, <1>3, StorageTypeCorrect, PTL DEF Spec
=============================================================================
