---------------------------- MODULE Certificates ----------------------------
(***************************************************************************)
(* The certificates of a self-provisioned Elasticsearch: what CreateCerts  *)
(* and scripts/cert_generation.sh make of the files of an instance, and    *)
(* which file goes into which secret (pkg/storage/elasticsearch_secrets).  *)
(*                                                                         *)
(* A file is known by the authority it comes from and by whether it is due *)
(* for renewal (it expired, or it lacks the names of the namespace).  The  *)
(* three pairs of the nodes of Elasticsearch, which share a secret, are    *)
(* one file here.                                                          *)
(***************************************************************************)
EXTENDS Naturals, FiniteSetsExt

Leaves == {"elasticsearch", "user.jaeger", "curator"}
Files == {"ca.crt", "ca.key"} \cup Leaves

Missing == [by |-> 0, due |-> FALSE]
Issued(authority) == [by |-> authority, due |-> FALSE]
Expired(file) == [file EXCEPT !.due = file.by # 0]
(* What there may be under the name of a file: nothing is due that is not  *)
(* there.                                                                  *)
Copies == {c \in [by : Nat, due : BOOLEAN] : c.by = 0 => ~c.due}
EmptyDir == [f \in Files |-> Missing]

(* masterSecret, esSecret, jaegerSecret and curatorSecret, in the order in *)
(* which CreateCerts takes them.                                           *)
Secrets == <<"master-certs", "elasticsearch", "jaeger-elasticsearch",
             "curator">>
SecretNames == {Secrets[i] : i \in 1..4}
keyFileNameMap(secret) ==
    CASE secret = "master-certs" -> {"ca.crt", "ca.key"}
      [] secret = "elasticsearch" -> {"ca.crt", "elasticsearch"}
      [] secret = "jaeger-elasticsearch" -> {"ca.crt", "user.jaeger"}
      [] secret = "curator" -> {"ca.crt", "curator"}

(* Mutant: a new process does not look at the secrets.                     *)
extractNothing(dir, stored) == dir

(* A file that is there stays ("we prefer what is on FS to revert users    *)
(* editing secrets"); another one is taken from the first secret that has  *)
(* it.  stored maps the names of the secrets there are to their content.   *)
extractSecretsToFile(dir, stored) ==
    [f \in Files |->
        LET from == {i \in 1..4 : /\ Secrets[i] \in DOMAIN stored
                                  /\ f \in keyFileNameMap(Secrets[i])}
        IN  IF dir[f] # Missing \/ from = {} THEN dir[f]
            ELSE stored[Secrets[Min(from)]][f]]

(* generate_signing_ca: is a new authority needed?                         *)
NeedsAuthority(dir) ==
    \/ Missing \in {dir["ca.crt"], dir["ca.key"]}
    \/ dir["ca.crt"].due

(* Mutant: a new authority does not set REGENERATE_NEEDED.                 *)
generateMissing(dir, authority) ==
    LET new == NeedsAuthority(dir)
        ca == IF new THEN Issued(authority) ELSE dir["ca.crt"]
        key == IF new THEN Issued(authority) ELSE dir["ca.key"]
    IN  [f \in Files |->
            CASE f = "ca.crt" -> ca
              [] f = "ca.key" -> key
              [] OTHER -> IF dir[f] = Missing \/ dir[f].due
                          THEN Issued(key.by) ELSE dir[f]]

(* The script: the authority, then every certificate that is missing or    *)
(* due, and all of them after a new authority.                             *)
cert_generation(dir, authority) ==
    LET new == NeedsAuthority(dir)
        ca == IF new THEN Issued(authority) ELSE dir["ca.crt"]
        key == IF new THEN Issued(authority) ELSE dir["ca.key"]
        Regenerated(f) == new \/ dir[f] = Missing \/ dir[f].due
    IN  [f \in Files |->
            CASE f = "ca.crt" -> ca
              [] f = "ca.key" -> key
              [] OTHER -> IF Regenerated(f) THEN Issued(key.by) ELSE dir[f]]

ExtractSecrets(dir) ==
    [s \in SecretNames |-> [f \in keyFileNameMap(s) |-> dir[f]]]
=============================================================================
