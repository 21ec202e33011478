------------------------- MODULE ConfigurationProofs ------------------------
(***************************************************************************)
(* Proofs about Configuration: the types, and its three safety properties, *)
(* for any set of CRs, of clusters and command lines, any version and any  *)
(* number of faults and events.                                            *)
(*                                                                         *)
(* First what the operators of UpgradeRoutines, Strategy and Configuration *)
(* do to an instance (the routines, the webhook, the patch, the edits,     *)
(* normalize, the provisioning of Kafka), then one inductive invariant for *)
(* each property: TypeOK, ChoicesInv, FlagsInv and QuietInv.               *)
(***************************************************************************)
EXTENDS Configuration, TLAPS

-----------------------------------------------------------------------------
(* Options: sets of records with one record for each flag.                 *)

Options == {opts \in SUBSET Option : OneEach(opts)}
(* The flags that two sets of options agree on, but for some.              *)
Untouched(opts, new, but) ==
    \A f : f \notin but => Named(new, f) = Named(opts, f)

(* The flags of options are texts; a flag has options when it is a name.   *)
LEMMA OptionNames ==
    ASSUME NEW opts \in SUBSET Option, NEW f
    PROVE  /\ Names(opts) \subseteq STRING
           /\ f \in Names(opts) <=> Named(opts, f) # {}
           /\ f \in Names(opts) <=> Texts(opts, f) # {}
BY DEF Names, Named, Texts, Option

(* Options that are removed are gone, the others stay.                     *)
LEMMA WithoutOptions ==
    ASSUME NEW opts \in Options, NEW flags_
    PROVE  /\ Without(opts, flags_) \in Options
           /\ \A f \in flags_ : Named(Without(opts, flags_), f) = {}
           /\ \A f : f \notin flags_ =>
                 Named(Without(opts, flags_), f) = Named(opts, f)
BY DEF Without, Options, OneEach, Named

(* Options that are set replace those of the same name.                    *)
LEMMA PutOptions ==
    ASSUME NEW opts \in Options, NEW new \in Options
    PROVE  /\ Put(opts, new) \in Options
           /\ \A f \in Names(new) : Named(Put(opts, new), f) = Named(new, f)
           /\ \A f : f \notin Names(new) =>
                 Named(Put(opts, new), f) = Named(opts, f)
           /\ Names(Put(opts, new)) = Names(opts) \cup Names(new)
<1>1. Put(opts, new) \in SUBSET Option
  BY DEF Put, Without, Options
<1>2. OneEach(Put(opts, new))
  BY DEF Put, Without, Options, OneEach, Names
<1>3. \A f \in Names(new) : Named(Put(opts, new), f) = Named(new, f)
  BY DEF Put, Without, Named, Names
<1>4. \A f : f \notin Names(new) =>
                 Named(Put(opts, new), f) = Named(opts, f)
  BY DEF Put, Without, Named, Names
<1>5. Names(Put(opts, new)) = Names(opts) \cup Names(new)
  BY DEF Put, Without, Names
<1> QED
  BY <1>1, <1>2, <1>3, <1>4, <1>5 DEF Options

(* A single option.                                                        *)
LEMMA OptOptions ==
    ASSUME NEW f \in STRING, NEW t \in STRING
    PROVE  /\ Opt(f, t) \in Option
           /\ {Opt(f, t)} \in Options
           /\ Names({Opt(f, t)}) = {f}
BY DEF Opt, Option, Options, OneEach, Names

(* A table of deprecated flags: no flag is on both sides, no new name      *)
(* twice.                                                                  *)
Renaming(renamed) ==
    /\ \A r \in renamed : r[2] \in STRING
    /\ \A r, q \in renamed : r[2] # q[1]
    /\ \A r, q \in renamed : r[2] = q[2] /\ r[2] # NoFlag => r = q
Targets(renamed) == {r[2] : r \in renamed}
Moved(opts, renamed) ==
    UNION {{Rename(o, r[2]) : o \in Named(opts, r[1])} :
              r \in {r \in renamed : r[2] # NoFlag}}

(* What is moved carries the new names, each once.                         *)
LEMMA MovedOptions ==
    ASSUME NEW opts \in Options, NEW renamed, Renaming(renamed)
    PROVE  /\ Moved(opts, renamed) \in Options
           /\ \A n : n \in Moved(opts, renamed) <=>
                 \E r \in renamed : \E o \in opts :
                    r[2] # NoFlag /\ o.flag = r[1] /\ n = Rename(o, r[2])
           /\ Names(Moved(opts, renamed)) =
                {f \in Targets(renamed) : f # NoFlag /\
                    \E r \in renamed : r[2] = f /\ r[1] \in Names(opts)}
<1>1. \A n : n \in Moved(opts, renamed) <=>
                 \E r \in renamed : \E o \in opts :
                    r[2] # NoFlag /\ o.flag = r[1] /\ n = Rename(o, r[2])
  <2>1. ASSUME NEW n \in Moved(opts, renamed)
        PROVE  \E r \in renamed : \E o \in opts :
                    r[2] # NoFlag /\ o.flag = r[1] /\ n = Rename(o, r[2])
    <3>1. PICK r \in {r \in renamed : r[2] # NoFlag} :
             n \in {Rename(o, r[2]) : o \in Named(opts, r[1])}
      BY DEF Moved
    <3>2. PICK o \in Named(opts, r[1]) : n = Rename(o, r[2])
      BY <3>1
    <3> QED
      BY <3>2 DEF Named
  <2>2. ASSUME NEW r \in renamed, NEW o \in opts, r[2] # NoFlag, o.flag = r[1]
        PROVE  Rename(o, r[2]) \in Moved(opts, renamed)
    <3>1. Rename(o, r[2]) \in {Rename(p, r[2]) : p \in Named(opts, r[1])}
      BY <2>2 DEF Named
    <3> QED
      BY <3>1, <2>2 DEF Moved
  <2> QED
    BY <2>1, <2>2
<1>2. \A o \in opts, f \in STRING : /\ Rename(o, f) \in Option
                                    /\ Rename(o, f).flag = f
                                    /\ Rename(o, f).text = o.text
  BY DEF Rename, Options, Option
<1>3. \A r \in renamed : r[2] \in STRING
  BY DEF Renaming
<1>4. Moved(opts, renamed) \in SUBSET Option
  <2> SUFFICES ASSUME NEW n \in Moved(opts, renamed)
               PROVE  n \in Option
    OBVIOUS
  <2>1. PICK r \in renamed, o \in opts : n = Rename(o, r[2])
    BY <1>1
  <2> QED
    BY <2>1, <1>2, <1>3
<1>5. OneEach(Moved(opts, renamed))
  <2> SUFFICES ASSUME NEW n \in Moved(opts, renamed),
                      NEW m \in Moved(opts, renamed), n.flag = m.flag
               PROVE  n = m
    BY DEF OneEach
  <2>1. PICK r \in renamed, o \in opts :
                    r[2] # NoFlag /\ o.flag = r[1] /\ n = Rename(o, r[2])
    BY <1>1
  <2>2. PICK q \in renamed, p \in opts :
                    q[2] # NoFlag /\ p.flag = q[1] /\ m = Rename(p, q[2])
    BY <1>1
  <2>3. r = q
    <3>1. n.flag = r[2] /\ m.flag = q[2]
      BY <1>2, <1>3, <2>1, <2>2
    <3> QED
      BY <3>1, <2>1 DEF Renaming
  <2> QED
    BY <2>1, <2>2, <2>3 DEF Options, OneEach
<1>6. Names(Moved(opts, renamed)) =
                {f \in Targets(renamed) : f # NoFlag /\
                    \E r \in renamed : r[2] = f /\ r[1] \in Names(opts)}
  <2>1. ASSUME NEW f \in Names(Moved(opts, renamed))
        PROVE  f \in Targets(renamed) /\ f # NoFlag /\
                    \E r \in renamed : r[2] = f /\ r[1] \in Names(opts)
    <3>1. PICK n \in Moved(opts, renamed) : f = n.flag
      BY DEF Names
    <3>2. PICK r \in renamed, o \in opts :
                    r[2] # NoFlag /\ o.flag = r[1] /\ n = Rename(o, r[2])
      BY <1>1
    <3> QED
      BY <3>1, <3>2, <1>2, <1>3 DEF Targets, Names
  <2>2. ASSUME NEW r \in renamed, r[2] # NoFlag, r[1] \in Names(opts)
        PROVE  r[2] \in Names(Moved(opts, renamed))
    <3>1. PICK o \in opts : o.flag = r[1]
      BY <2>2 DEF Names
    <3> QED
      BY <1>1, <1>2, <1>3, <2>2, <3>1 DEF Names
  <2> QED
    BY <2>1, <2>2
<1> QED
  BY <1>1, <1>4, <1>5, <1>6 DEF Options

(* migrateDeprecatedOptions: the deprecated flags are gone, the new ones   *)
(* have their texts, and no other flag is touched.                         *)
LEMMA MigrateOptions ==
    ASSUME NEW opts \in Options, NEW renamed, Renaming(renamed)
    PROVE  LET new == migrateDeprecatedOptions(opts, renamed)
           IN  /\ new \in Options
               /\ Untouched(opts, new,
                            Deprecated(renamed) \cup Targets(renamed))
               /\ \A f \in Deprecated(renamed) : Texts(new, f) = {}
               /\ \A r \in renamed : r[2] # NoFlag =>
                    Texts(new, r[2]) = IF Texts(opts, r[1]) # {}
                                       THEN Texts(opts, r[1])
                                       ELSE Texts(opts, r[2])
<1> DEFINE new == migrateDeprecatedOptions(opts, renamed)
           rest == Without(opts, Deprecated(renamed))
           moved == Moved(opts, renamed)
<1>0. new = Put(rest, moved)
  BY DEF migrateDeprecatedOptions, Moved
<1>1. /\ rest \in Options
      /\ \A f \in Deprecated(renamed) : Named(rest, f) = {}
      /\ \A f : f \notin Deprecated(renamed) => Named(rest, f) = Named(opts, f)
  BY WithoutOptions
<1>2. /\ moved \in Options
      /\ \A n : n \in moved <=>
                 \E r \in renamed : \E o \in opts :
                    r[2] # NoFlag /\ o.flag = r[1] /\ n = Rename(o, r[2])
      /\ Names(moved) =
                {f \in Targets(renamed) : f # NoFlag /\
                    \E r \in renamed : r[2] = f /\ r[1] \in Names(opts)}
  BY MovedOptions
<1>3. /\ new \in Options
      /\ \A f \in Names(moved) : Named(new, f) = Named(moved, f)
      /\ \A f : f \notin Names(moved) => Named(new, f) = Named(rest, f)
  <2> HIDE DEF new, rest, moved
  <2>1. rest \in Options /\ moved \in Options
    BY <1>1, <1>2
  <2>2. /\ Put(rest, moved) \in Options
        /\ \A f \in Names(moved) : Named(Put(rest, moved), f) = Named(moved, f)
        /\ \A f : f \notin Names(moved) =>
              Named(Put(rest, moved), f) = Named(rest, f)
    BY <2>1, PutOptions
  <2> QED
    BY <1>0, <2>2
<1> HIDE DEF new, rest, moved
<1>4. Untouched(opts, new, Deprecated(renamed) \cup Targets(renamed))
  BY <1>1, <1>2, <1>3 DEF Untouched
<1>5. \A f \in Deprecated(renamed) : Texts(new, f) = {}
  <2> SUFFICES ASSUME NEW r \in renamed
               PROVE  Named(new, r[1]) = {}
    BY DEF Deprecated, Texts
  <2>1. r[1] \in Deprecated(renamed)
    BY DEF Deprecated
  <2>2. r[1] \notin Targets(renamed)
    BY DEF Renaming, Targets
  <2> QED
    BY <1>1, <1>2, <1>3, <2>1, <2>2
<1>6. ASSUME NEW r \in renamed, r[2] # NoFlag
      PROVE  Texts(new, r[2]) = IF Texts(opts, r[1]) # {}
                                THEN Texts(opts, r[1])
                                ELSE Texts(opts, r[2])
  <2>1. CASE r[1] \in Names(opts)
    <3>1. Texts(opts, r[1]) # {}
      BY <2>1 DEF Texts, Named, Names
    <3>2. Named(new, r[2]) = Named(moved, r[2])
      BY <2>1, <1>2, <1>3, <1>6 DEF Targets
    <3>3. \A o \in opts, f \in STRING : /\ Rename(o, f).flag = f
                                        /\ Rename(o, f).text = o.text
      BY DEF Rename, Options, Option
    <3>4. \A q \in renamed : q[2] \in STRING
      BY DEF Renaming
    <3>5. Texts(moved, r[2]) \subseteq Texts(opts, r[1])
      <4> SUFFICES ASSUME NEW n \in moved, n.flag = r[2]
                   PROVE  n.text \in Texts(opts, r[1])
        BY DEF Texts, Named
      <4>1. PICK q \in renamed, o \in opts :
                    q[2] # NoFlag /\ o.flag = q[1] /\ n = Rename(o, q[2])
        BY <1>2
      <4>2. q = r
        <5>1. q[2] = r[2]
          BY <3>3, <3>4, <4>1
        <5> QED
          BY <5>1, <1>6 DEF Renaming
      <4> QED
        BY <3>3, <3>4, <4>1, <4>2 DEF Texts, Named
    <3>6. Texts(opts, r[1]) \subseteq Texts(moved, r[2])
      <4> SUFFICES ASSUME NEW o \in opts, o.flag = r[1]
                   PROVE  o.text \in Texts(moved, r[2])
        BY DEF Texts, Named
      <4>1. Rename(o, r[2]) \in moved
        BY <1>2, <1>6
      <4> QED
        BY <4>1, <3>3, <3>4 DEF Texts, Named
    <3> QED
      BY <3>1, <3>2, <3>5, <3>6 DEF Texts
  <2>2. CASE r[1] \notin Names(opts)
    <3>1. Texts(opts, r[1]) = {}
      BY <2>2 DEF Texts, Named, Names
    <3>2. r[2] \notin Names(moved)
      BY <1>2, <1>6, <2>2 DEF Renaming
    <3>3. r[2] \notin Deprecated(renamed)
      BY DEF Renaming, Deprecated
    <3> QED
      BY <3>1, <3>2, <3>3, <1>1, <1>3 DEF Texts
  <2> QED
    BY <2>1, <2>2
<1> QED
  BY <1>3, <1>4, <1>5, <1>6 DEF new

-----------------------------------------------------------------------------
(* Instances and the routines.                                             *)

(* Instances that differ in their options only.                            *)
OnlyOpts(spec, new) ==
    new \in Instance /\ new = [spec EXCEPT !.opts = new.opts]

(* The options of an instance are options; they may be replaced by others. *)
LEMMA InstanceOpts ==
    ASSUME NEW spec \in Instance
    PROVE  /\ \A s \in Sections : spec.opts[s] \in Options
           /\ \A opts \in [Sections -> Options] :
                /\ OnlyOpts(spec, [spec EXCEPT !.opts = opts])
                /\ [spec EXCEPT !.opts = opts].opts = opts
<1>1. \A s \in Sections : spec.opts[s] \in Options
  BY DEF Instance, Options
<1>2. ASSUME NEW opts \in [Sections -> Options]
      PROVE  /\ OnlyOpts(spec, [spec EXCEPT !.opts = opts])
             /\ [spec EXCEPT !.opts = opts].opts = opts
  <2>1. opts \in [Sections -> SUBSET Option]
    BY DEF Options
  <2>2. \A s \in Sections : OneEach(opts[s])
    BY DEF Options
  <2>3. [spec EXCEPT !.opts = opts] \in Instance
    BY <2>1, <2>2 DEF Instance
  <2> QED
    BY <2>3 DEF OnlyOpts, Instance
<1> QED
  BY <1>1, <1>2

(* Instances that differ in their options only, and in how they are        *)
(* written.                                                                *)
OnlyOptions(spec, new) ==
    /\ new \in Instance
    /\ new = [spec EXCEPT !.opts = new.opts, !.nested = new.nested]

(* Sections that are written anew have no nested flags.                    *)
LEMMA FlatNested ==
    ASSUME NEW nested \in [Sections -> SUBSET STRING], NEW sections_
    PROVE  /\ Flat(nested, sections_) \in [Sections -> SUBSET STRING]
           /\ \A s \in Sections \ sections_ :
                 Flat(nested, sections_)[s] = nested[s]
BY DEF Flat

(* The flag f becomes g.                                                   *)
Moves(opts, new, f, g) ==
    /\ Texts(new, f) = {}
    /\ Texts(new, g) = IF Texts(opts, f) # {} THEN Texts(opts, f)
                       ELSE Texts(opts, g)

(* migrateAllDeprecatedOptions.                                            *)
LEMMA MigrateAll ==
    ASSUME NEW spec \in Instance, NEW renamed, Renaming(renamed)
    PROVE  LET new == migrateAllDeprecatedOptions(spec, renamed)
           IN  /\ OnlyOpts(spec, new)
               /\ \A s \in Sections :
                    Untouched(spec.opts[s], new.opts[s],
                              Deprecated(renamed) \cup Targets(renamed))
               /\ \A s \in Sections \ {"ingress"} : \A r \in renamed :
                    r[2] # NoFlag =>
                       Moves(spec.opts[s], new.opts[s], r[1], r[2])
<1> DEFINE new == migrateAllDeprecatedOptions(spec, renamed)
           opts == [s \in Sections |->
                      IF s = "ingress" THEN spec.opts[s]
                      ELSE migrateDeprecatedOptions(spec.opts[s], renamed)]
<1>1. new = [spec EXCEPT !.opts = opts]
  BY DEF migrateAllDeprecatedOptions, Instance
<1>2. \A s \in Sections : spec.opts[s] \in Options
  BY InstanceOpts
<1>3. opts \in [Sections -> Options]
  BY <1>2, MigrateOptions
<1>4. OnlyOpts(spec, new) /\ new.opts = opts
  BY <1>1, <1>3, InstanceOpts
<1>5. ASSUME NEW s \in Sections
      PROVE  /\ Untouched(spec.opts[s], new.opts[s],
                          Deprecated(renamed) \cup Targets(renamed))
             /\ s # "ingress" => \A r \in renamed : r[2] # NoFlag =>
                    Moves(spec.opts[s], new.opts[s], r[1], r[2])
  <2>1. CASE s = "ingress"
    BY <1>4, <2>1 DEF Untouched
  <2>2. CASE s # "ingress"
    <3>1. new.opts[s] = migrateDeprecatedOptions(spec.opts[s], renamed)
      BY <1>4, <2>2
    <3>2. \A r \in renamed : r[1] \in Deprecated(renamed)
      BY DEF Deprecated
    <3> DEFINE old == spec.opts[s]
               mig == migrateDeprecatedOptions(old, renamed)
    <3>3. old \in Options
      BY <1>2
    <3>4. /\ Untouched(old, mig, Deprecated(renamed) \cup Targets(renamed))
          /\ \A f \in Deprecated(renamed) : Texts(mig, f) = {}
          /\ \A r \in renamed : r[2] # NoFlag =>
                    Texts(mig, r[2]) = IF Texts(old, r[1]) # {}
                                       THEN Texts(old, r[1])
                                       ELSE Texts(old, r[2])
      <4> HIDE DEF old
      <4> QED
        BY <3>3, MigrateOptions
    <3>5. new.opts[s] = mig
      BY <3>1
    <3> HIDE DEF old, mig, new
    <3>6. \A r \in renamed : r[2] # NoFlag => Moves(old, mig, r[1], r[2])
      BY <3>2, <3>4 DEF Moves
    <3> QED
      BY <3>4, <3>5, <3>6, <2>2 DEF old
  <2> QED
    BY <2>1, <2>2
<1> QED
  BY <1>4, <1>5

(* The tables of the routines are renamings.                               *)
LEMMA RenamingTables ==
    /\ Renaming(flags1_15_0)
    /\ Renaming(tlsFlags1_17_0)
    /\ Renaming(collectorDeprecatedFlags)
    /\ Renaming(flags1_20_0)
    /\ Renaming({<<"jaeger.tags", "collector.tags">>})
    /\ Renaming({<<"jaeger.tags", "agent.tags">>})
    /\ Renaming({<<"downsampling.hashsalt", NoFlag>>,
                <<"downsampling.ratio", NoFlag>>})
<1>1. Renaming(flags1_15_0)
  BY StringsAssumption DEF Renaming, flags1_15_0, NoFlag
<1>2. Renaming(tlsFlags1_17_0)
  BY StringsAssumption DEF Renaming, tlsFlags1_17_0, NoFlag
<1>3. Renaming(collectorDeprecatedFlags)
  BY StringsAssumption DEF Renaming, collectorDeprecatedFlags, NoFlag
<1>4. Renaming(flags1_20_0)
  BY StringsAssumption DEF Renaming, flags1_20_0, NoFlag
<1>5. /\ Renaming({<<"jaeger.tags", "collector.tags">>})
      /\ Renaming({<<"jaeger.tags", "agent.tags">>})
  BY StringsAssumption DEF Renaming, NoFlag
<1>6. Renaming({<<"downsampling.hashsalt", NoFlag>>,
                <<"downsampling.ratio", NoFlag>>})
  BY StringsAssumption DEF Renaming, NoFlag
<1> QED
  BY <1>1, <1>2, <1>3, <1>4, <1>5, <1>6

(* The flags the properties are about: those that FlagsMigrated names, one *)
(* that a value passes through, and two that no routine knows.             *)
Watched ==
    {"collector.grpc.tls.client.ca", "collector.grpc.tls.client-ca",
     "health-check-http-port", "admin-http-port", "admin.http.host-port",
     "es.tls", "es.tls.enabled", "collector.port",
     "collector.tchan-server.host-port", "es.max-num-spans",
     "es.max-doc-count", "query.port", "query.grpc-server.host-port",
     "query.http-server.host-port", "jaeger.tags", "agent.tags",
     "collector.tags", "es.server-urls", "kafka.producer.brokers"}
(* A routine that touches no watched flag but these, in any section.       *)
Leaves(spec, new, but) ==
    /\ OnlyOpts(spec, new)
    /\ \A s \in Sections : \A f \in Watched \ but :
          Named(new.opts[s], f) = Named(spec.opts[s], f)

(* upgrade1_15_0: of the watched flags it touches those of the TLS client  *)
(* and of the health check, and moves them in every section.               *)
LEMMA Upgrade15 ==
    ASSUME NEW spec \in Instance
    PROVE  LET new == upgrade1_15_0(spec)
           IN  /\ Leaves(spec, new, {"collector.grpc.tls.client.ca",
                    "collector.grpc.tls.client-ca", "health-check-http-port",
                    "admin-http-port"})
               /\ \A s \in Sections \ {"ingress"} :
                    /\ Moves(spec.opts[s], new.opts[s],
                             "collector.grpc.tls.client.ca",
                             "collector.grpc.tls.client-ca")
                    /\ Moves(spec.opts[s], new.opts[s],
                             "health-check-http-port", "admin-http-port")
<1> DEFINE new == upgrade1_15_0(spec)
           touched == Deprecated(flags1_15_0) \cup Targets(flags1_15_0)
<1>1. new = migrateAllDeprecatedOptions(spec, flags1_15_0)
  BY DEF upgrade1_15_0
<1>2. /\ OnlyOpts(spec, new)
      /\ \A s \in Sections : Untouched(spec.opts[s], new.opts[s], touched)
      /\ \A s \in Sections \ {"ingress"} : \A r \in flags1_15_0 :
            r[2] # NoFlag => Moves(spec.opts[s], new.opts[s], r[1], r[2])
  BY <1>1, MigrateAll, RenamingTables
<1>3. touched \cap Watched =
        {"collector.grpc.tls.client.ca", "collector.grpc.tls.client-ca",
         "health-check-http-port", "admin-http-port"}
  BY DEF Deprecated, Targets, flags1_15_0, Watched, NoFlag
<1>4. /\ <<"collector.grpc.tls.client.ca", "collector.grpc.tls.client-ca">>
            \in flags1_15_0
      /\ <<"health-check-http-port", "admin-http-port">> \in flags1_15_0
      /\ "admin-http-port" # NoFlag /\ "collector.grpc.tls.client-ca" # NoFlag
  BY DEF flags1_15_0, NoFlag
<1> HIDE DEF new, touched
<1>5. ASSUME NEW s \in Sections \ {"ingress"}
      PROVE  /\ Moves(spec.opts[s], new.opts[s],
                      "collector.grpc.tls.client.ca",
                      "collector.grpc.tls.client-ca")
             /\ Moves(spec.opts[s], new.opts[s],
                      "health-check-http-port", "admin-http-port")
  BY <1>2, <1>4
<1> QED
  BY <1>2, <1>3, <1>5 DEF Leaves, Untouched, new

(* upgrade1_20_0 moves the number of spans of Elasticsearch.               *)
LEMMA Upgrade20 ==
    ASSUME NEW spec \in Instance
    PROVE  LET new == upgrade1_20_0(spec)
           IN  /\ Leaves(spec, new, {"es.max-num-spans", "es.max-doc-count"})
               /\ \A s \in Sections \ {"ingress"} :
                    Moves(spec.opts[s], new.opts[s],
                          "es.max-num-spans", "es.max-doc-count")
<1> DEFINE new == upgrade1_20_0(spec)
           touched == Deprecated(flags1_20_0) \cup Targets(flags1_20_0)
<1>1. new = migrateAllDeprecatedOptions(spec, flags1_20_0)
  BY DEF upgrade1_20_0
<1>2. /\ OnlyOpts(spec, new)
      /\ \A s \in Sections : Untouched(spec.opts[s], new.opts[s], touched)
      /\ \A s \in Sections \ {"ingress"} : \A r \in flags1_20_0 :
            r[2] # NoFlag => Moves(spec.opts[s], new.opts[s], r[1], r[2])
  BY <1>1, MigrateAll, RenamingTables
<1>3. touched \cap Watched = {"es.max-num-spans", "es.max-doc-count"}
  BY DEF Deprecated, Targets, flags1_20_0, Watched
<1>4. /\ <<"es.max-num-spans", "es.max-doc-count">> \in flags1_20_0
      /\ "es.max-doc-count" # NoFlag
  BY DEF flags1_20_0, NoFlag
<1> HIDE DEF new, touched
<1>5. ASSUME NEW s \in Sections \ {"ingress"}
      PROVE  Moves(spec.opts[s], new.opts[s],
                   "es.max-num-spans", "es.max-doc-count")
  BY <1>2, <1>4
<1> QED
  BY <1>2, <1>3, <1>5 DEF Leaves, Untouched, new

(* upgrade1_17_0MigrateKafkaTLS adds flags of Kafka only.                  *)
LEMMA KafkaTLS ==
    ASSUME NEW opts \in Options
    PROVE  LET new == upgrade1_17_0MigrateKafkaTLS(opts)
           IN  /\ new \in Options
               /\ Untouched(opts, new, {"kafka.consumer.tls.enabled",
                                        "kafka.producer.tls.enabled"})
<1> DEFINE tls(auth, enabled) == {Opt(enabled, "true") :
                                    o \in {o \in Named(opts, auth) :
                                             o.text = "tls"}}
           set == tls("kafka.consumer.authentication",
                      "kafka.consumer.tls.enabled")
                  \cup tls("kafka.producer.authentication",
                           "kafka.producer.tls.enabled")
           both == {Opt("kafka.consumer.tls.enabled", "true"),
                    Opt("kafka.producer.tls.enabled", "true")}
<1>1. upgrade1_17_0MigrateKafkaTLS(opts) = Put(opts, set)
  BY DEF upgrade1_17_0MigrateKafkaTLS
<1>2. set \subseteq both
  OBVIOUS
<1>3. /\ Opt("kafka.consumer.tls.enabled", "true") \in Option
      /\ Opt("kafka.consumer.tls.enabled", "true").flag
            = "kafka.consumer.tls.enabled"
      /\ Opt("kafka.producer.tls.enabled", "true") \in Option
      /\ Opt("kafka.producer.tls.enabled", "true").flag
            = "kafka.producer.tls.enabled"
  BY StringsAssumption DEF Opt, Option
<1> HIDE DEF set
<1>4. set \in Options /\ Names(set) \subseteq {"kafka.consumer.tls.enabled",
                                               "kafka.producer.tls.enabled"}
  BY <1>2, <1>3 DEF Options, OneEach, Names
<1>5. /\ Put(opts, set) \in Options
      /\ \A f : f \notin Names(set) =>
            Named(Put(opts, set), f) = Named(opts, f)
  BY <1>4, PutOptions
<1> QED
  BY <1>1, <1>4, <1>5 DEF Untouched

(* upgrade1_17_0 moves the flag of the TLS of Elasticsearch over a value   *)
(* that the webhook may have put under the new name.                       *)
LEMMA Upgrade17 ==
    ASSUME NEW spec \in Instance
    PROVE  LET new == upgrade1_17_0(spec)
           IN  /\ Leaves(spec, new, {"es.tls", "es.tls.enabled"})
               /\ \A s \in Sections \ {"ingress"} :
                    Moves(spec.opts[s], new.opts[s],
                          "es.tls", "es.tls.enabled")
<1> DEFINE new == upgrade1_17_0(spec)
           j == migrateAllDeprecatedOptions(spec, tlsFlags1_17_0)
           kafka == {"collector", "ingester", "storage"}
           opts == [s \in Sections |->
                      IF s \in kafka
                      THEN upgrade1_17_0MigrateKafkaTLS(j.opts[s])
                      ELSE j.opts[s]]
           touched == Deprecated(tlsFlags1_17_0) \cup Targets(tlsFlags1_17_0)
<1>1. /\ OnlyOpts(spec, j)
      /\ \A s \in Sections : Untouched(spec.opts[s], j.opts[s], touched)
      /\ \A s \in Sections \ {"ingress"} : \A r \in tlsFlags1_17_0 :
            r[2] # NoFlag => Moves(spec.opts[s], j.opts[s], r[1], r[2])
  BY MigrateAll, RenamingTables
<1>2. new = [j EXCEPT !.opts["collector"] = upgrade1_17_0MigrateKafkaTLS(@),
                      !.opts["ingester"] = upgrade1_17_0MigrateKafkaTLS(@),
                      !.opts["storage"] = upgrade1_17_0MigrateKafkaTLS(@)]
  BY DEF upgrade1_17_0
<1> HIDE DEF j, new, touched
<1>3. j \in Instance /\ DOMAIN j.opts = Sections
  BY <1>1 DEF OnlyOpts, Instance
<1>4. new = [j EXCEPT !.opts = opts]
  <2>1. opts = [j.opts EXCEPT
                 !["collector"] = upgrade1_17_0MigrateKafkaTLS(@),
                 !["ingester"] = upgrade1_17_0MigrateKafkaTLS(@),
                 !["storage"] = upgrade1_17_0MigrateKafkaTLS(@)]
    BY <1>3 DEF Sections, Instance
  <2> HIDE DEF opts
  <2> QED
    BY <1>2, <1>3, <2>1 DEF Instance, Sections
<1>5. \A s \in Sections : j.opts[s] \in Options
  BY <1>3, InstanceOpts
<1>6. \A s \in Sections :
        /\ opts[s] \in Options
        /\ Untouched(j.opts[s], opts[s], {"kafka.consumer.tls.enabled",
                                          "kafka.producer.tls.enabled"})
  BY <1>5, KafkaTLS DEF Untouched
<1>7. opts \in [Sections -> Options]
  BY <1>6
<1> HIDE DEF opts
<1>8. OnlyOpts(j, new) /\ new.opts = opts
  BY <1>3, <1>4, <1>7, InstanceOpts
<1>9. OnlyOpts(spec, new)
  BY <1>1, <1>8 DEF OnlyOpts, Instance
<1>10. touched \cap Watched = {"es.tls", "es.tls.enabled"}
  BY DEF Deprecated, Targets, tlsFlags1_17_0, Watched, touched
<1>11. {"kafka.consumer.tls.enabled", "kafka.producer.tls.enabled"}
         \cap Watched = {}
  BY DEF Watched
<1>12. <<"es.tls", "es.tls.enabled">> \in tlsFlags1_17_0
        /\ "es.tls.enabled" # NoFlag
  BY DEF tlsFlags1_17_0, NoFlag
<1>13. \A s \in Sections : \A f \in Watched :
          Named(new.opts[s], f) = Named(j.opts[s], f)
  BY <1>6, <1>8, <1>11 DEF Untouched
<1>14. \A s \in Sections : \A f \in Watched \ {"es.tls", "es.tls.enabled"} :
          Named(j.opts[s], f) = Named(spec.opts[s], f)
  BY <1>1, <1>10 DEF Untouched
<1>15. ASSUME NEW s \in Sections \ {"ingress"}
       PROVE  Moves(spec.opts[s], new.opts[s], "es.tls", "es.tls.enabled")
  <2>1. Moves(spec.opts[s], j.opts[s], "es.tls", "es.tls.enabled")
    BY <1>1, <1>12
  <2>2. /\ Named(new.opts[s], "es.tls") = Named(j.opts[s], "es.tls")
        /\ Named(new.opts[s], "es.tls.enabled")
              = Named(j.opts[s], "es.tls.enabled")
    BY <1>13 DEF Watched
  <2> QED
    BY <2>1, <2>2 DEF Moves, Texts
<1> QED
  BY <1>9, <1>13, <1>14, <1>15 DEF Leaves, new

(* The colons that are written in front of the ports of the collector      *)
(* leave the texts as they are.                                            *)
LEMMA CollectorPorts ==
    ASSUME NEW opts \in Options
    PROVE  LET new == transformCollectorPorts(opts)
           IN  /\ new \in Options
               /\ Untouched(opts, new, Targets(collectorDeprecatedFlags))
               /\ \A f : Texts(new, f) = Texts(opts, f)
<1> DEFINE new == transformCollectorPorts(opts)
           Port(o) == IF o.flag \in Targets(collectorDeprecatedFlags)
                      THEN Colon(o) ELSE o
<1>1. new = {Port(o) : o \in opts}
  BY DEF transformCollectorPorts, Targets
<1>2. ASSUME NEW o \in opts
      PROVE  /\ Port(o) \in Option
             /\ Port(o).flag = o.flag
             /\ Port(o).text = o.text
             /\ o.flag \notin Targets(collectorDeprecatedFlags) => Port(o) = o
  <2>1. o \in Option
    BY DEF Options
  <2>2. /\ Colon(o) \in Option
        /\ Colon(o).flag = o.flag
        /\ Colon(o).text = o.text
    BY <2>1 DEF Colon, Option
  <2> QED
    BY <2>1, <2>2
<1> HIDE DEF new, Port
<1>3. new \in Options
  <2>1. new \in SUBSET Option
    BY <1>1, <1>2
  <2>2. OneEach(new)
    BY <1>1, <1>2 DEF OneEach, Options
  <2> QED
    BY <2>1, <2>2 DEF Options
<1>4. Untouched(opts, new, Targets(collectorDeprecatedFlags))
  <2> SUFFICES ASSUME NEW f, f \notin Targets(collectorDeprecatedFlags)
               PROVE  Named(new, f) = Named(opts, f)
    BY DEF Untouched
  <2>1. Named(new, f) \subseteq Named(opts, f)
    BY <1>1, <1>2 DEF Named
  <2>2. Named(opts, f) \subseteq Named(new, f)
    BY <1>1, <1>2 DEF Named
  <2> QED
    BY <2>1, <2>2
<1>5. ASSUME NEW f
      PROVE  Texts(new, f) = Texts(opts, f)
  <2>1. ASSUME NEW n \in new, n.flag = f
        PROVE  n.text \in Texts(opts, f)
    BY <1>1, <1>2, <2>1 DEF Texts, Named
  <2>2. ASSUME NEW o \in opts, o.flag = f
        PROVE  o.text \in Texts(new, f)
    <3>1. Port(o) \in Named(new, f) /\ Port(o).text = o.text
      BY <1>1, <1>2, <2>2 DEF Named
    <3> QED
      BY <3>1 DEF Texts
  <2> QED
    BY <2>1, <2>2 DEF Texts, Named
<1> QED
  BY <1>3, <1>4, <1>5 DEF new

(* upgrade1_18_0 moves the ports of the collector, among them the one that *)
(* upgrade1_15_0 has moved before.                                         *)
LEMMA Upgrade18 ==
    ASSUME NEW spec \in Instance
    PROVE  LET new == upgrade1_18_0(spec)
           IN  /\ OnlyOpts(spec, new)
               /\ \A s \in Sections \ {"collector"} : \A f \in Watched :
                    Named(new.opts[s], f) = Named(spec.opts[s], f)
               /\ Leaves(spec, new, {"collector.port",
                    "collector.tchan-server.host-port", "admin-http-port",
                    "admin.http.host-port"})
               /\ Moves(spec.opts["collector"], new.opts["collector"],
                        "collector.port", "collector.tchan-server.host-port")
               /\ Moves(spec.opts["collector"], new.opts["collector"],
                        "admin-http-port", "admin.http.host-port")
<1> DEFINE new == upgrade1_18_0(spec)
           old == spec.opts["collector"]
           mig == migrateDeprecatedOptions(old, collectorDeprecatedFlags)
           ports == transformCollectorPorts(mig)
           agent == Without(spec.opts["agent"], agentDeprecatedFlags)
           opts == [spec.opts EXCEPT !["collector"] = ports,
                                     !["agent"] = agent]
           touched == Deprecated(collectorDeprecatedFlags)
                        \cup Targets(collectorDeprecatedFlags)
<1>1. spec.opts \in [Sections -> Options] /\ old \in Options
      /\ spec.opts["agent"] \in Options
  BY InstanceOpts DEF Instance, Sections
<1>2. new = [spec EXCEPT !.opts = opts]
  BY DEF upgrade1_18_0, migrateCollectorOptions, migrateAgentOptions,
         Instance, Sections
<1> HIDE DEF old
<1>3. /\ mig \in Options
      /\ Untouched(old, mig, touched)
      /\ \A f \in Deprecated(collectorDeprecatedFlags) : Texts(mig, f) = {}
      /\ \A r \in collectorDeprecatedFlags : r[2] # NoFlag =>
           Texts(mig, r[2]) = IF Texts(old, r[1]) # {} THEN Texts(old, r[1])
                              ELSE Texts(old, r[2])
  BY <1>1, MigrateOptions, RenamingTables
<1> HIDE DEF mig
<1>4. /\ ports \in Options
      /\ Untouched(mig, ports, Targets(collectorDeprecatedFlags))
      /\ \A f : Texts(ports, f) = Texts(mig, f)
  BY <1>3, CollectorPorts
<1>5. /\ agent \in Options
      /\ \A f : f \notin agentDeprecatedFlags =>
            Named(agent, f) = Named(spec.opts["agent"], f)
  BY <1>1, WithoutOptions
<1> HIDE DEF ports, agent, touched
<1>6. opts \in [Sections -> Options]
  BY <1>1, <1>4, <1>5
<1>7. /\ opts["collector"] = ports
      /\ opts["agent"] = agent
      /\ \A s \in Sections \ {"collector", "agent"} : opts[s] = spec.opts[s]
  BY <1>1 DEF Sections
<1> HIDE DEF opts
<1>8. OnlyOpts(spec, new) /\ new.opts = opts
  BY <1>2, <1>6, InstanceOpts
<1>9. touched \cap Watched =
        {"collector.port", "collector.tchan-server.host-port",
         "admin-http-port", "admin.http.host-port"}
  BY DEF touched, Deprecated, Targets, collectorDeprecatedFlags, Watched
<1>10. agentDeprecatedFlags \cap Watched = {}
  BY DEF agentDeprecatedFlags, Watched
<1>11. \A f \in Watched \ {"collector.port",
          "collector.tchan-server.host-port", "admin-http-port",
          "admin.http.host-port"} : Named(ports, f) = Named(old, f)
  BY <1>3, <1>4, <1>9 DEF Untouched, touched
<1>12. \A f \in Watched : Named(agent, f) = Named(spec.opts["agent"], f)
  BY <1>5, <1>10
<1>13. \A s \in Sections \ {"collector"} : \A f \in Watched :
          Named(new.opts[s], f) = Named(spec.opts[s], f)
  BY <1>7, <1>8, <1>12
<1>14. Leaves(spec, new, {"collector.port",
          "collector.tchan-server.host-port", "admin-http-port",
          "admin.http.host-port"})
  BY <1>7, <1>8, <1>11, <1>13 DEF Leaves, old
<1>15. /\ "collector.port" \in Deprecated(collectorDeprecatedFlags)
       /\ "admin-http-port" \in Deprecated(collectorDeprecatedFlags)
       /\ <<"collector.port", "collector.tchan-server.host-port">>
             \in collectorDeprecatedFlags
       /\ <<"admin-http-port", "admin.http.host-port">>
             \in collectorDeprecatedFlags
       /\ "collector.tchan-server.host-port" # NoFlag
       /\ "admin.http.host-port" # NoFlag
  BY DEF Deprecated, collectorDeprecatedFlags, NoFlag
<1>16. /\ Moves(old, mig, "collector.port", "collector.tchan-server.host-port")
       /\ Moves(old, mig, "admin-http-port", "admin.http.host-port")
  BY <1>3, <1>15 DEF Moves
<1>17. /\ Moves(old, ports, "collector.port",
                "collector.tchan-server.host-port")
       /\ Moves(old, ports, "admin-http-port", "admin.http.host-port")
  BY <1>4, <1>16 DEF Moves
<1> QED
  BY <1>7, <1>8, <1>13, <1>14, <1>17 DEF new, old

(* updateCassandraVerifyHostFlagv1_22_0 touches two flags of Cassandra.    *)
LEMMA CassandraVerifyHost ==
    ASSUME NEW opts \in Options
    PROVE  LET new == updateCassandraVerifyHostFlagv1_22_0(opts)
           IN  /\ new \in Options
               /\ Untouched(opts, new, {"cassandra.tls.verify-host",
                                        "cassandra.tls.skip-host-verify"})
<1> DEFINE old == "cassandra.tls.verify-host"
           skip == {Opt("cassandra.tls.skip-host-verify", "true") :
                      o \in {o \in Named(opts, old) : o.text # "true"}}
           rest == Without(opts, {old})
<1>1. updateCassandraVerifyHostFlagv1_22_0(opts) = Put(rest, skip)
  BY DEF updateCassandraVerifyHostFlagv1_22_0
<1>2. skip \subseteq {Opt("cassandra.tls.skip-host-verify", "true")}
  OBVIOUS
<1>3. /\ Opt("cassandra.tls.skip-host-verify", "true") \in Option
      /\ Opt("cassandra.tls.skip-host-verify", "true").flag
            = "cassandra.tls.skip-host-verify"
  BY StringsAssumption DEF Opt, Option
<1> HIDE DEF skip
<1>4. skip \in Options /\ Names(skip) \subseteq
                            {"cassandra.tls.skip-host-verify"}
  BY <1>2, <1>3 DEF Options, OneEach, Names
<1>5. /\ rest \in Options
      /\ \A f : f \notin {old} => Named(rest, f) = Named(opts, f)
  BY WithoutOptions
<1> HIDE DEF rest
<1>6. /\ Put(rest, skip) \in Options
      /\ \A f : f \notin Names(skip) =>
            Named(Put(rest, skip), f) = Named(rest, f)
  BY <1>4, <1>5, PutOptions
<1> QED
  BY <1>1, <1>4, <1>5, <1>6 DEF Untouched

(* migrateQueryHostPortFlagsv1_22_0: each server of the query keeps the    *)
(* value of its own, or takes over that of the port.                       *)
LEMMA QueryPorts ==
    ASSUME NEW opts \in Options
    PROVE  LET new == migrateQueryHostPortFlagsv1_22_0(opts)
           IN  /\ new \in Options
               /\ Untouched(opts, new, {"query.port", "query.host-port"}
                                          \cup queryServers)
               /\ Texts(new, "query.port") = {}
               /\ \A f \in queryServers :
                    /\ Texts(opts, f) # {} => Texts(new, f) = Texts(opts, f)
                    /\ Texts(opts, f) = {} /\ Texts(opts, "query.port") # {} =>
                         Texts(new, f) = Texts(opts, "query.port")
<1> DEFINE new == migrateQueryHostPortFlagsv1_22_0(opts)
           port == {Colon(o) : o \in Named(opts, "query.port")}
           used == IF port # {} THEN port ELSE Named(opts, "query.host-port")
           both == {Rename(o, server) : o \in used, server \in queryServers}
           rest == Without(opts, {"query.port", "query.host-port"})
<1>1. new = Put(both, rest)
  BY DEF migrateQueryHostPortFlagsv1_22_0
<1>2. queryServers \subseteq STRING
      /\ \A f \in queryServers : f \notin {"query.port", "query.host-port"}
  BY StringsAssumption DEF queryServers
<1>3. \A o \in opts : /\ Colon(o) \in Option
                      /\ Colon(o).text = o.text
                      /\ Colon(o).flag = o.flag
  <2> SUFFICES ASSUME NEW o \in Option
               PROVE  /\ Colon(o) \in Option
                      /\ Colon(o).text = o.text
                      /\ Colon(o).flag = o.flag
    BY DEF Options
  <2> QED
    BY DEF Colon, Option
<1>4. /\ used \subseteq Option
      /\ \A o, p \in used : o = p
      /\ Texts(opts, "query.port") # {} =>
            {o.text : o \in used} = Texts(opts, "query.port")
  <2>1. port \subseteq Option /\ \A o, p \in port : o = p
    BY <1>3 DEF Named, Options, OneEach
  <2>2. /\ Named(opts, "query.host-port") \subseteq Option
        /\ \A o, p \in Named(opts, "query.host-port") : o = p
    BY DEF Named, Options, OneEach
  <2>3. {o.text : o \in port} = Texts(opts, "query.port")
    BY <1>3 DEF Texts, Named
  <2> HIDE DEF port
  <2>4. Texts(opts, "query.port") # {} => port # {}
    BY <2>3
  <2> QED
    BY <2>1, <2>2, <2>3, <2>4
<1> HIDE DEF used
<1>5. \A o \in used, f \in queryServers : /\ Rename(o, f) \in Option
                                          /\ Rename(o, f).flag = f
                                          /\ Rename(o, f).text = o.text
  <2> SUFFICES ASSUME NEW o \in Option, NEW f \in STRING
               PROVE  /\ Rename(o, f) \in Option
                      /\ Rename(o, f).flag = f
                      /\ Rename(o, f).text = o.text
    BY <1>2, <1>4
  <2> QED
    BY DEF Rename, Option
<1>6. both \in Options /\ Names(both) \subseteq queryServers
  <2>1. both \subseteq Option /\ Names(both) \subseteq queryServers
    BY <1>5 DEF Names
  <2>2. OneEach(both)
    BY <1>4, <1>5 DEF OneEach
  <2> QED
    BY <2>1, <2>2 DEF Options
<1>7. \A f \in queryServers : Texts(opts, "query.port") # {} =>
         Texts(both, f) = Texts(opts, "query.port")
  <2>0. /\ \A o \in used, g \in queryServers : Rename(o, g) \in both
        /\ \A n \in both : \E o \in used, g \in queryServers : n = Rename(o, g)
    OBVIOUS
  <2> HIDE DEF both
  <2>1. ASSUME NEW f \in queryServers, NEW n \in Named(both, f)
        PROVE  \E o \in used : n.text = o.text
    BY <1>5, <2>0 DEF Named
  <2>2. ASSUME NEW f \in queryServers, NEW o \in used
        PROVE  \E n \in Named(both, f) : n.text = o.text
    BY <1>5, <2>0 DEF Named
  <2>3. \A f \in queryServers : Texts(both, f) = {o.text : o \in used}
    BY <2>1, <2>2 DEF Texts
  <2> QED
    BY <2>3, <1>4
<1>8. /\ rest \in Options
      /\ \A f \in {"query.port", "query.host-port"} : Named(rest, f) = {}
      /\ \A f : f \notin {"query.port", "query.host-port"} =>
            Named(rest, f) = Named(opts, f)
  BY WithoutOptions
<1> HIDE DEF both, rest
<1>9. /\ Put(both, rest) \in Options
      /\ \A f \in Names(rest) : Named(Put(both, rest), f) = Named(rest, f)
      /\ \A f : f \notin Names(rest) =>
            Named(Put(both, rest), f) = Named(both, f)
  BY <1>6, <1>8, PutOptions
<1>10. \A f : /\ f \notin Names(both) => Named(both, f) = {}
              /\ f \notin Names(rest) => Named(rest, f) = {}
  BY DEF Names, Named
<1>11. \A f : f \notin queryServers => Named(new, f) = Named(rest, f)
  BY <1>1, <1>6, <1>9, <1>10
<1>12. Untouched(opts, new, {"query.port", "query.host-port"}
                              \cup queryServers)
  BY <1>8, <1>11 DEF Untouched
<1>13. Texts(new, "query.port") = {}
  BY <1>2, <1>8, <1>11 DEF Texts
<1>14. ASSUME NEW f \in queryServers
       PROVE  /\ Texts(opts, f) # {} => Texts(new, f) = Texts(opts, f)
              /\ Texts(opts, f) = {} /\ Texts(opts, "query.port") # {} =>
                   Texts(new, f) = Texts(opts, "query.port")
  <2>1. Named(rest, f) = Named(opts, f)
    BY <1>2, <1>8
  <2>2. CASE f \in Names(rest)
    <3>1. Texts(new, f) = Texts(opts, f)
      BY <1>1, <1>9, <2>1, <2>2 DEF Texts
    <3>2. Texts(opts, f) # {}
      <4>1. Named(rest, f) # {}
        BY <2>2 DEF Named, Names
      <4> QED
        BY <4>1, <2>1 DEF Texts
    <3> QED
      BY <3>1, <3>2
  <2>3. CASE f \notin Names(rest)
    <3>1. Texts(opts, f) = {}
      BY <1>10, <2>1, <2>3 DEF Texts
    <3>2. Texts(new, f) = Texts(both, f)
      BY <1>1, <1>9, <2>3 DEF Texts
    <3> QED
      BY <3>1, <3>2, <1>7
  <2> QED
    BY <2>2, <2>3
<1> QED
  BY <1>1, <1>9, <1>12, <1>13, <1>14 DEF new

(* A table of one flag that is moved, or of flags that are removed.        *)
LEMMA MigrateTags ==
    ASSUME NEW opts \in Options, NEW f \in {"collector.tags", "agent.tags"}
    PROVE  LET new == migrateDeprecatedOptions(opts, {<<"jaeger.tags", f>>})
           IN  /\ new \in Options
               /\ Untouched(opts, new, {"jaeger.tags", f})
               /\ Moves(opts, new, "jaeger.tags", f)
<1> DEFINE table == {<<"jaeger.tags", f>>}
           new == migrateDeprecatedOptions(opts, table)
<1>1. Renaming(table)
  BY RenamingTables
<1>2. Deprecated(table) = {"jaeger.tags"} /\ Targets(table) = {f}
  BY DEF Deprecated, Targets
<1>3. \A r \in table : r[1] = "jaeger.tags" /\ r[2] = f
  OBVIOUS
<1>4. <<"jaeger.tags", f>> \in table /\ f # NoFlag
  BY DEF NoFlag
<1> HIDE DEF table
<1>5. /\ new \in Options
      /\ Untouched(opts, new, Deprecated(table) \cup Targets(table))
      /\ \A g \in Deprecated(table) : Texts(new, g) = {}
      /\ \A r \in table : r[2] # NoFlag =>
            Texts(new, r[2]) = IF Texts(opts, r[1]) # {} THEN Texts(opts, r[1])
                               ELSE Texts(opts, r[2])
  BY <1>1, MigrateOptions
<1> HIDE DEF new
<1>6. Untouched(opts, new, {"jaeger.tags", f})
  BY <1>2, <1>5 DEF Untouched
<1>7. Moves(opts, new, "jaeger.tags", f)
  BY <1>2, <1>3, <1>4, <1>5 DEF Moves
<1> QED
  BY <1>5, <1>6, <1>7 DEF new, table

(* upgrade1_22_0 moves the tags, and the port of the query.                *)
LEMMA Upgrade22 ==
    ASSUME NEW spec \in Instance
    PROVE  LET new == upgrade1_22_0(spec)
           IN  /\ Leaves(spec, new, {"jaeger.tags", "agent.tags",
                    "collector.tags", "query.port"} \cup queryServers)
               /\ \A s \in {"allInOne", "collector"} :
                    Moves(spec.opts[s], new.opts[s],
                          "jaeger.tags", "collector.tags")
               /\ Moves(spec.opts["agent"], new.opts["agent"],
                        "jaeger.tags", "agent.tags")
               /\ Texts(new.opts["query"], "query.port") = {}
               /\ \A f \in queryServers :
                    LET opts == spec.opts["query"]
                    IN  /\ Texts(opts, f) # {} =>
                             Texts(new.opts["query"], f) = Texts(opts, f)
                        /\ Texts(opts, f) = {}
                             /\ Texts(opts, "query.port") # {} =>
                               Texts(new.opts["query"], f)
                                 = Texts(opts, "query.port")
<1> DEFINE new == upgrade1_22_0(spec)
           old == spec.opts
           tags(o, f) == migrateDeprecatedOptions(o, {<<"jaeger.tags", f>>})
           sampled == migrateDeprecatedOptions(old["query"],
                        {<<"downsampling.hashsalt", NoFlag>>,
                         <<"downsampling.ratio", NoFlag>>})
           aio == tags(old["allInOne"], "collector.tags")
           col == tags(old["collector"], "collector.tags")
           colC == updateCassandraVerifyHostFlagv1_22_0(col)
           agt == tags(old["agent"], "agent.tags")
           qry == migrateQueryHostPortFlagsv1_22_0(sampled)
           sto == updateCassandraVerifyHostFlagv1_22_0(old["storage"])
           ing == updateCassandraVerifyHostFlagv1_22_0(old["ingress"])
           opts == [old EXCEPT !["allInOne"] = aio, !["collector"] = colC,
                      !["agent"] = agt, !["query"] = qry,
                      !["storage"] = sto, !["ingress"] = ing]
           but == {"jaeger.tags", "agent.tags", "collector.tags",
                   "query.port"} \cup queryServers
<1>1. /\ old \in [Sections -> Options]
      /\ old["allInOne"] \in Options /\ old["collector"] \in Options
      /\ old["agent"] \in Options /\ old["query"] \in Options
      /\ old["storage"] \in Options /\ old["ingress"] \in Options
  BY InstanceOpts DEF Instance, Sections
<1>2. new = [spec EXCEPT !.opts = opts]
  BY DEF upgrade1_22_0, Instance, Sections
<1>3. /\ aio \in Options
      /\ Untouched(old["allInOne"], aio, {"jaeger.tags", "collector.tags"})
      /\ Moves(old["allInOne"], aio, "jaeger.tags", "collector.tags")
  BY <1>1, MigrateTags
<1>4. /\ col \in Options
      /\ Untouched(old["collector"], col, {"jaeger.tags", "collector.tags"})
      /\ Moves(old["collector"], col, "jaeger.tags", "collector.tags")
  BY <1>1, MigrateTags
<1>5. /\ agt \in Options
      /\ Untouched(old["agent"], agt, {"jaeger.tags", "agent.tags"})
      /\ Moves(old["agent"], agt, "jaeger.tags", "agent.tags")
  BY <1>1, MigrateTags
<1> HIDE DEF col
<1>6. /\ colC \in Options
      /\ Untouched(col, colC, {"cassandra.tls.verify-host",
                               "cassandra.tls.skip-host-verify"})
  BY <1>4, CassandraVerifyHost
<1>7. /\ sto \in Options
      /\ Untouched(old["storage"], sto, {"cassandra.tls.verify-host",
                                         "cassandra.tls.skip-host-verify"})
  BY <1>1, CassandraVerifyHost
<1>8. /\ ing \in Options
      /\ Untouched(old["ingress"], ing, {"cassandra.tls.verify-host",
                                         "cassandra.tls.skip-host-verify"})
  BY <1>1, CassandraVerifyHost
<1>9. /\ sampled \in Options
      /\ Untouched(old["query"], sampled,
                   {"downsampling.hashsalt", "downsampling.ratio", NoFlag})
  <2> DEFINE table == {<<"downsampling.hashsalt", NoFlag>>,
                       <<"downsampling.ratio", NoFlag>>}
  <2>1. Deprecated(table) \cup Targets(table)
          = {"downsampling.hashsalt", "downsampling.ratio", NoFlag}
    BY DEF Deprecated, Targets
  <2>2. Renaming(table)
    BY RenamingTables
  <2>3. sampled = migrateDeprecatedOptions(old["query"], table)
    OBVIOUS
  <2> HIDE DEF table, sampled
  <2>4. /\ sampled \in Options
        /\ Untouched(old["query"], sampled,
                     Deprecated(table) \cup Targets(table))
    BY <2>2, <2>3, <1>1, MigrateOptions
  <2> QED
    BY <2>1, <2>4
<1> HIDE DEF sampled
<1>10. /\ qry \in Options
       /\ Untouched(sampled, qry, {"query.port", "query.host-port"}
                                     \cup queryServers)
       /\ Texts(qry, "query.port") = {}
       /\ \A f \in queryServers :
            /\ Texts(sampled, f) # {} => Texts(qry, f) = Texts(sampled, f)
            /\ Texts(sampled, f) = {} /\ Texts(sampled, "query.port") # {} =>
                 Texts(qry, f) = Texts(sampled, "query.port")
  BY <1>9, QueryPorts
<1> HIDE DEF aio, colC, agt, qry, sto, ing, old
<1>11. opts \in [Sections -> Options]
  BY <1>1, <1>3, <1>5, <1>6, <1>7, <1>8, <1>10
<1>12. /\ opts["allInOne"] = aio /\ opts["collector"] = colC
       /\ opts["agent"] = agt /\ opts["query"] = qry
       /\ opts["storage"] = sto /\ opts["ingress"] = ing
       /\ opts["ingester"] = old["ingester"]
  BY <1>1 DEF Sections
<1> HIDE DEF opts
<1>13. OnlyOpts(spec, new) /\ new.opts = opts
  BY <1>2, <1>11, InstanceOpts
<1>14. \A f \in Watched \ but :
          /\ f \notin {"cassandra.tls.verify-host",
                       "cassandra.tls.skip-host-verify"}
          /\ f \notin {"downsampling.hashsalt", "downsampling.ratio", NoFlag}
          /\ f \notin {"query.port", "query.host-port"} \cup queryServers
          /\ f \notin {"jaeger.tags", "collector.tags"}
          /\ f \notin {"jaeger.tags", "agent.tags"}
  BY DEF Watched, queryServers, NoFlag
<1>15. /\ \A f \in queryServers \cup {"query.port"} :
            f \notin {"downsampling.hashsalt", "downsampling.ratio", NoFlag}
       /\ \A f \in {"jaeger.tags", "collector.tags"} :
            f \notin {"cassandra.tls.verify-host",
                      "cassandra.tls.skip-host-verify"}
  BY DEF queryServers, NoFlag
<1> HIDE DEF but
<1>16. ASSUME NEW f \in Watched \ but
       PROVE  /\ Named(aio, f) = Named(old["allInOne"], f)
              /\ Named(colC, f) = Named(old["collector"], f)
              /\ Named(agt, f) = Named(old["agent"], f)
              /\ Named(qry, f) = Named(old["query"], f)
              /\ Named(sto, f) = Named(old["storage"], f)
              /\ Named(ing, f) = Named(old["ingress"], f)
  BY <1>3, <1>4, <1>5, <1>6, <1>7, <1>8, <1>9, <1>10, <1>14 DEF Untouched
<1>17. Leaves(spec, new, but)
  <2> SUFFICES ASSUME NEW s \in Sections, NEW f \in Watched \ but
               PROVE  Named(new.opts[s], f) = Named(old[s], f)
    BY <1>13 DEF Leaves, old
  <2>1. s \in {"allInOne", "collector", "query", "agent", "ingester",
               "storage", "ingress"}
    BY DEF Sections
  <2> QED
    BY <2>1, <1>12, <1>13, <1>16
<1>18. Moves(old["collector"], colC, "jaeger.tags", "collector.tags")
  <2>1. /\ Named(colC, "jaeger.tags") = Named(col, "jaeger.tags")
        /\ Named(colC, "collector.tags") = Named(col, "collector.tags")
    BY <1>6, <1>15 DEF Untouched
  <2> QED
    BY <1>4, <2>1 DEF Moves, Texts
<1>19. \A f \in queryServers \cup {"query.port"} :
          Texts(sampled, f) = Texts(old["query"], f)
  BY <1>9, <1>15 DEF Untouched, Texts
<1>20. \A f \in queryServers :
            /\ Texts(old["query"], f) # {} =>
                 Texts(qry, f) = Texts(old["query"], f)
            /\ Texts(old["query"], f) = {}
                 /\ Texts(old["query"], "query.port") # {} =>
                   Texts(qry, f) = Texts(old["query"], "query.port")
  BY <1>10, <1>19
<1> HIDE DEF new
<1>21. \A s \in {"allInOne", "collector"} :
          Moves(old[s], new.opts[s], "jaeger.tags", "collector.tags")
  BY <1>3, <1>12, <1>13, <1>18
<1>22. Moves(old["agent"], new.opts["agent"], "jaeger.tags", "agent.tags")
  BY <1>5, <1>12, <1>13
<1>23. new.opts["query"] = qry
  BY <1>12, <1>13
<1> QED
  BY <1>10, <1>17, <1>20, <1>21, <1>22, <1>23 DEF new, old, but

(* What the routines after the version of spec do to the watched flags.    *)
Migrates(spec, new) ==
    /\ \A s \in Sections \ {"ingress"} :
         LET moves(f, g) == Moves(spec.opts[s], new.opts[s], f, g)
         IN  /\ spec.ver < 15 => moves("collector.grpc.tls.client.ca",
                                       "collector.grpc.tls.client-ca")
             /\ spec.ver < 17 => moves("es.tls", "es.tls.enabled")
             /\ spec.ver < 20 => moves("es.max-num-spans", "es.max-doc-count")
             /\ spec.ver < 22 /\ s \in {"allInOne", "collector"} =>
                  moves("jaeger.tags", "collector.tags")
             /\ spec.ver < 22 /\ s = "agent" =>
                  moves("jaeger.tags", "agent.tags")
             /\ spec.ver < 15 /\ s = "query" =>
                  moves("health-check-http-port", "admin-http-port")
             /\ spec.ver < 18 /\ s = "collector" =>
                  /\ moves("collector.port",
                           "collector.tchan-server.host-port")
                  /\ Texts(new.opts[s], "admin-http-port") = {}
    /\ spec.ver < 15 =>
         LET old(f) == Texts(spec.opts["collector"], f)
             text(f) == Texts(new.opts["collector"], f)
         IN  /\ text("health-check-http-port") = {}
             /\ old("health-check-http-port") # {} =>
                  text("admin.http.host-port") = old("health-check-http-port")
             /\ old("health-check-http-port") = {}
                  /\ old("admin-http-port") = {} =>
                  text("admin.http.host-port") = old("admin.http.host-port")
    /\ spec.ver < 22 =>
         LET old(f) == Texts(spec.opts["query"], f)
             text(f) == Texts(new.opts["query"], f)
         IN  /\ text("query.port") = {}
             /\ \A f \in queryServers :
                  /\ old(f) # {} => text(f) = old(f)
                  /\ old(f) = {} /\ old("query.port") # {} =>
                       text(f) = old("query.port")

(* ManagedInstance, whichever routines are due: the instance has the       *)
(* latest version, nothing but options and a SAR that was nil has changed, *)
(* and the flags of every routine that was due are moved, whatever the     *)
(* routines after it do.                                                   *)
LEMMA Upgrades ==
    ASSUME NEW spec \in Instance, Upgradable(spec)
    PROVE  LET new == ManagedInstance(spec)
           IN  /\ new \in Instance
               /\ new.ver = Latest
               /\ new = [spec EXCEPT !.opts = new.opts,
                                     !.nested = new.nested,
                                     !.sar = new.sar, !.ver = Latest]
               /\ spec.sar # "nil" => new.sar = spec.sar
               /\ \A s \in Sections :
                    \A f \in {"es.server-urls", "kafka.producer.brokers"} :
                       Named(new.opts[s], f) = Named(spec.opts[s], f)
               /\ Migrates(spec, new)
<1> DEFINE new == ManagedInstance(spec)
           j15 == IF Due(spec, 15) THEN upgrade1_15_0(spec) ELSE spec
           j17 == IF Due(spec, 17) THEN upgrade1_17_0(j15) ELSE j15
           j18 == IF Due(spec, 18) THEN upgrade1_18_0(j17) ELSE j17
           j20 == IF Due(spec, 20) THEN upgrade1_20_0(j18) ELSE j18
           j22 == IF Due(spec, 22) THEN upgrade1_22_0(j20) ELSE j20
           j28 == IF Due(spec, 28) THEN upgrade1_28_0(j22) ELSE j22
           b15 == {"collector.grpc.tls.client.ca",
                   "collector.grpc.tls.client-ca", "health-check-http-port",
                   "admin-http-port"}
           b17 == {"es.tls", "es.tls.enabled"}
           b18 == {"collector.port", "collector.tchan-server.host-port",
                   "admin-http-port", "admin.http.host-port"}
           b20 == {"es.max-num-spans", "es.max-doc-count"}
           b22 == {"jaeger.tags", "agent.tags", "collector.tags",
                   "query.port"} \cup queryServers
           flat == Flat(j28.nested, Rewritten(spec))
<1>1. new = [j28 EXCEPT !.ver = Latest, !.nested = Flat(@, Rewritten(spec))]
  BY DEF ManagedInstance, upgrades
<1>2. /\ spec.ver \in Nat /\ Latest \in Nat /\ Latest > 31
      /\ \A v \in {15, 17, 18, 20, 22, 28} : Due(spec, v) <=> spec.ver < v
  BY LatestAssumption DEF Instance, Due
<1>3. \A j \in Instance : \A but : Leaves(j, j, but)
  BY DEF Leaves, OnlyOpts, Instance
<1>4. /\ Leaves(spec, j15, b15)
      /\ spec.ver < 15 => \A s \in Sections \ {"ingress"} :
           /\ Moves(spec.opts[s], j15.opts[s], "collector.grpc.tls.client.ca",
                    "collector.grpc.tls.client-ca")
           /\ Moves(spec.opts[s], j15.opts[s], "health-check-http-port",
                    "admin-http-port")
  BY <1>2, <1>3, Upgrade15
<1> HIDE DEF j15
<1>5. j15 \in Instance
  BY <1>4 DEF Leaves, OnlyOpts
<1>6. /\ Leaves(j15, j17, b17)
      /\ spec.ver < 17 => \A s \in Sections \ {"ingress"} :
           Moves(j15.opts[s], j17.opts[s], "es.tls", "es.tls.enabled")
  BY <1>2, <1>3, <1>5, Upgrade17
<1> HIDE DEF j17
<1>7. j17 \in Instance
  BY <1>6 DEF Leaves, OnlyOpts
<1>8. /\ Leaves(j17, j18, b18)
      /\ \A s \in Sections \ {"collector"} : \A f \in Watched :
            Named(j18.opts[s], f) = Named(j17.opts[s], f)
      /\ spec.ver < 18 =>
           /\ Moves(j17.opts["collector"], j18.opts["collector"],
                    "collector.port", "collector.tchan-server.host-port")
           /\ Moves(j17.opts["collector"], j18.opts["collector"],
                    "admin-http-port", "admin.http.host-port")
  BY <1>2, <1>3, <1>7, Upgrade18
<1> HIDE DEF j18
<1>9. j18 \in Instance
  BY <1>8 DEF Leaves, OnlyOpts
<1>10. /\ Leaves(j18, j20, b20)
       /\ spec.ver < 20 => \A s \in Sections \ {"ingress"} :
            Moves(j18.opts[s], j20.opts[s], "es.max-num-spans",
                  "es.max-doc-count")
  BY <1>2, <1>3, <1>9, Upgrade20
<1> HIDE DEF j20
<1>11. j20 \in Instance
  BY <1>10 DEF Leaves, OnlyOpts
<1>12. /\ Leaves(j20, j22, b22)
       /\ spec.ver < 22 =>
            /\ \A s \in {"allInOne", "collector"} :
                 Moves(j20.opts[s], j22.opts[s], "jaeger.tags",
                       "collector.tags")
            /\ Moves(j20.opts["agent"], j22.opts["agent"], "jaeger.tags",
                     "agent.tags")
            /\ Texts(j22.opts["query"], "query.port") = {}
            /\ \A f \in queryServers :
                 /\ Texts(j20.opts["query"], f) # {} =>
                      Texts(j22.opts["query"], f) = Texts(j20.opts["query"], f)
                 /\ Texts(j20.opts["query"], f) = {}
                      /\ Texts(j20.opts["query"], "query.port") # {} =>
                        Texts(j22.opts["query"], f)
                          = Texts(j20.opts["query"], "query.port")
  BY <1>2, <1>3, <1>11, Upgrade22
<1> HIDE DEF j22
<1>13. j22 \in Instance
  BY <1>12 DEF Leaves, OnlyOpts
<1>14. /\ new \in Instance
       /\ new.opts = j22.opts /\ new.ver = Latest
       /\ new = [j22 EXCEPT !.nested = new.nested, !.sar = new.sar,
                            !.ver = Latest]
       /\ j22.sar # "nil" => new.sar = j22.sar
  <2>1. PICK x \in {"nil", "blank", "default", "user"} :
          j28 = [j22 EXCEPT !.sar = x] /\ (j22.sar # "nil" => x = j22.sar)
    <3>1. CASE Due(spec, 28)
      BY <3>1, <1>13 DEF upgrade1_28_0, Instance
    <3>2. CASE ~Due(spec, 28)
      BY <3>2, <1>13 DEF Instance
    <3> QED
      BY <3>1, <3>2
  <2> HIDE DEF j28
  <2>2. flat \in [Sections -> SUBSET STRING]
    <3>1. j28.nested \in [Sections -> SUBSET STRING]
      BY <2>1, <1>13 DEF Instance
    <3> QED
      BY <3>1, FlatNested
  <2>3. new = [j22 EXCEPT !.sar = x, !.ver = Latest, !.nested = flat]
    <3>1. j28 \in Instance
      BY <2>1, <1>13 DEF Instance
    <3>2. new = [j28 EXCEPT !.ver = Latest, !.nested = flat]
      BY <1>1, <3>1 DEF Instance
    <3> HIDE DEF new, flat
    <3> QED
      BY <2>1, <3>2, <1>13 DEF Instance
  <2>4. Latest \in 0..Latest
    BY <1>2
  <2> HIDE DEF new, flat
  <2> QED
    BY <2>1, <2>2, <2>3, <2>4, <1>13 DEF Instance
<1> HIDE DEF new
<1>15. j22 = [spec EXCEPT !.opts = j22.opts]
  <2>1. OnlyOpts(spec, j15) /\ OnlyOpts(j15, j17) /\ OnlyOpts(j17, j18)
        /\ OnlyOpts(j18, j20) /\ OnlyOpts(j20, j22)
    BY <1>4, <1>6, <1>8, <1>10, <1>12 DEF Leaves
  <2> QED
    BY <2>1 DEF OnlyOpts, Instance
<1>16. /\ new = [spec EXCEPT !.opts = new.opts, !.nested = new.nested,
                             !.sar = new.sar, !.ver = Latest]
       /\ spec.sar # "nil" => new.sar = spec.sar
  <2>1. spec.sar = j22.sar
    BY <1>15 DEF Instance
  <2>2. new = [[spec EXCEPT !.opts = j22.opts] EXCEPT
                  !.nested = new.nested, !.sar = new.sar, !.ver = Latest]
    BY <1>14, <1>15
  <2> QED
    BY <1>14, <2>1, <2>2 DEF Instance
<1>17. \A s \in Sections : \A f \in Watched :
          /\ f \notin b15 => Named(j15.opts[s], f) = Named(spec.opts[s], f)
          /\ f \notin b17 => Named(j17.opts[s], f) = Named(j15.opts[s], f)
          /\ f \notin b18 \/ s # "collector" =>
               Named(j18.opts[s], f) = Named(j17.opts[s], f)
          /\ f \notin b20 => Named(j20.opts[s], f) = Named(j18.opts[s], f)
          /\ f \notin b22 => Named(new.opts[s], f) = Named(j20.opts[s], f)
  BY <1>4, <1>6, <1>8, <1>10, <1>12, <1>14 DEF Leaves
<1>18. \A s \in Sections :
          \A f \in {"es.server-urls", "kafka.producer.brokers"} :
             Named(new.opts[s], f) = Named(spec.opts[s], f)
  <2>1. ASSUME NEW f \in {"es.server-urls", "kafka.producer.brokers"}
        PROVE  /\ f \in Watched
               /\ f \notin b15 /\ f \notin b17 /\ f \notin b18
               /\ f \notin b20 /\ f \notin b22
    BY DEF Watched, queryServers
  <2> QED
    BY <2>1, <1>17
<1>19. \A a, b, f : Named(a, f) = Named(b, f) => Texts(a, f) = Texts(b, f)
  BY DEF Texts
<1> DEFINE T(j, s, f) == Texts(j.opts[s], f)
<1>20. ASSUME NEW s \in Sections, NEW f \in Watched
       PROVE  /\ f \notin b15 => T(j15, s, f) = T(spec, s, f)
              /\ f \notin b17 => T(j17, s, f) = T(j15, s, f)
              /\ f \notin b18 \/ s # "collector" => T(j18, s, f) = T(j17, s, f)
              /\ f \notin b20 => T(j20, s, f) = T(j18, s, f)
              /\ f \notin b22 => T(new, s, f) = T(j20, s, f)
  BY <1>17, <1>19
<1>21. ASSUME NEW s \in Sections \ {"ingress"}, spec.ver < 15
       PROVE  Moves(spec.opts[s], new.opts[s], "collector.grpc.tls.client.ca",
                    "collector.grpc.tls.client-ca")
  <2>1. \A f \in {"collector.grpc.tls.client.ca",
                 "collector.grpc.tls.client-ca"} : T(new, s, f) = T(j15, s, f)
    <3> SUFFICES ASSUME NEW f \in {"collector.grpc.tls.client.ca",
                                   "collector.grpc.tls.client-ca"}
                 PROVE  T(new, s, f) = T(j15, s, f)
      OBVIOUS
    <3>1. f \in Watched /\ f \notin b17 /\ f \notin b18 /\ f \notin b20
            /\ f \notin b22
      BY DEF Watched, queryServers
    <3> QED
      BY <3>1, <1>20
  <2> QED
    BY <1>4, <1>21, <2>1 DEF Moves
<1>22. ASSUME NEW s \in Sections \ {"ingress"}, spec.ver < 17
       PROVE  Moves(spec.opts[s], new.opts[s], "es.tls", "es.tls.enabled")
  <2>1. \A f \in {"es.tls", "es.tls.enabled"} :
            T(new, s, f) = T(j17, s, f) /\ T(j15, s, f) = T(spec, s, f)
    <3> SUFFICES ASSUME NEW f \in {"es.tls", "es.tls.enabled"}
                 PROVE  T(new, s, f) = T(j17, s, f)
                        /\ T(j15, s, f) = T(spec, s, f)
      OBVIOUS
    <3>1. f \in Watched /\ f \notin b15 /\ f \notin b18 /\ f \notin b20
            /\ f \notin b22
      BY DEF Watched, queryServers
    <3> QED
      BY <3>1, <1>20
  <2> QED
    BY <1>6, <1>22, <2>1 DEF Moves
<1>23. ASSUME NEW s \in Sections \ {"ingress"}, spec.ver < 20
       PROVE  Moves(spec.opts[s], new.opts[s], "es.max-num-spans",
                    "es.max-doc-count")
  <2>1. \A f \in {"es.max-num-spans", "es.max-doc-count"} :
            T(new, s, f) = T(j20, s, f) /\ T(j18, s, f) = T(spec, s, f)
    <3> SUFFICES ASSUME NEW f \in {"es.max-num-spans", "es.max-doc-count"}
                 PROVE  T(new, s, f) = T(j20, s, f)
                        /\ T(j18, s, f) = T(spec, s, f)
      OBVIOUS
    <3>1. f \in Watched /\ f \notin b15 /\ f \notin b17 /\ f \notin b18
            /\ f \notin b22
      BY DEF Watched, queryServers
    <3> QED
      BY <3>1, <1>20
  <2> QED
    BY <1>10, <1>23, <2>1 DEF Moves
(* The flags of 1.22.                                                      *)
<1>24. ASSUME NEW s \in Sections, NEW f \in b22
       PROVE  T(j20, s, f) = T(spec, s, f)
  <2>1. f \in Watched /\ f \notin b15 /\ f \notin b17 /\ f \notin b18
            /\ f \notin b20
    BY DEF Watched, queryServers
  <2> QED
    BY <2>1, <1>20
<1>25. "allInOne" \in Sections /\ "collector" \in Sections
       /\ "agent" \in Sections /\ "query" \in Sections
  BY DEF Sections
<1>26. ASSUME NEW s \in {"allInOne", "collector"}, spec.ver < 22
       PROVE  Moves(spec.opts[s], new.opts[s], "jaeger.tags",
                    "collector.tags")
  <2>1. T(j20, s, "jaeger.tags") = T(spec, s, "jaeger.tags")
        /\ T(j20, s, "collector.tags") = T(spec, s, "collector.tags")
    BY <1>24, <1>25
  <2> QED
    BY <1>12, <1>14, <1>26, <2>1 DEF Moves
<1>27. ASSUME spec.ver < 22
       PROVE  Moves(spec.opts["agent"], new.opts["agent"], "jaeger.tags",
                    "agent.tags")
  <2>1. T(j20, "agent", "jaeger.tags") = T(spec, "agent", "jaeger.tags")
        /\ T(j20, "agent", "agent.tags") = T(spec, "agent", "agent.tags")
    BY <1>24, <1>25
  <2> QED
    BY <1>12, <1>14, <1>27, <2>1 DEF Moves
<1>28. ASSUME spec.ver < 22
       PROVE  /\ T(new, "query", "query.port") = {}
              /\ \A f \in queryServers :
                   /\ T(spec, "query", f) # {} =>
                        T(new, "query", f) = T(spec, "query", f)
                   /\ T(spec, "query", f) = {}
                        /\ T(spec, "query", "query.port") # {} =>
                        T(new, "query", f) = T(spec, "query", "query.port")
  <2>1. \A f \in queryServers \cup {"query.port"} :
           T(j20, "query", f) = T(spec, "query", f)
    BY <1>24, <1>25
  <2> QED
    BY <1>12, <1>14, <1>28, <2>1
(* The ports of 1.15 and 1.18.                                             *)
<1>29. ASSUME spec.ver < 15
       PROVE  Moves(spec.opts["query"], new.opts["query"],
                    "health-check-http-port", "admin-http-port")
  <2>1. \A f \in {"health-check-http-port", "admin-http-port"} :
           T(new, "query", f) = T(j15, "query", f)
    <3> SUFFICES ASSUME NEW f \in {"health-check-http-port", "admin-http-port"}
                 PROVE  T(new, "query", f) = T(j15, "query", f)
      OBVIOUS
    <3>1. f \in Watched /\ f \notin b17 /\ f \notin b20 /\ f \notin b22
      BY DEF Watched, queryServers
    <3> QED
      BY <3>1, <1>20, <1>25
  <2>2. "query" \in Sections \ {"ingress"}
    BY <1>25
  <2> QED
    BY <1>4, <1>29, <2>1, <2>2 DEF Moves
<1>30. \A f \in b18 : /\ T(new, "collector", f) = T(j18, "collector", f)
                     /\ T(j17, "collector", f) = T(j15, "collector", f)
  <2> SUFFICES ASSUME NEW f \in b18
               PROVE  /\ T(new, "collector", f) = T(j18, "collector", f)
                      /\ T(j17, "collector", f) = T(j15, "collector", f)
    OBVIOUS
  <2>1. f \in Watched /\ f \notin b17 /\ f \notin b20 /\ f \notin b22
    BY DEF Watched, queryServers
  <2> QED
    BY <2>1, <1>20, <1>25
<1>31. \A f \in b18 \ {"admin-http-port"} :
          T(j15, "collector", f) = T(spec, "collector", f)
  <2> SUFFICES ASSUME NEW f \in b18 \ {"admin-http-port"}
               PROVE  T(j15, "collector", f) = T(spec, "collector", f)
    OBVIOUS
  <2>1. f \in Watched /\ f \notin b15
    BY DEF Watched
  <2> QED
    BY <2>1, <1>20, <1>25
<1>32. ASSUME spec.ver < 18
       PROVE  /\ Moves(spec.opts["collector"], new.opts["collector"],
                       "collector.port", "collector.tchan-server.host-port")
              /\ T(new, "collector", "admin-http-port") = {}
  BY <1>8, <1>30, <1>31, <1>32 DEF Moves
<1>33. ASSUME spec.ver < 15
       PROVE  LET old(f) == T(spec, "collector", f)
                  text(f) == T(new, "collector", f)
              IN  /\ text("health-check-http-port") = {}
                  /\ old("health-check-http-port") # {} =>
                       text("admin.http.host-port")
                         = old("health-check-http-port")
                  /\ old("health-check-http-port") = {}
                       /\ old("admin-http-port") = {} =>
                       text("admin.http.host-port")
                         = old("admin.http.host-port")
  <2>1. Moves(spec.opts["collector"], j15.opts["collector"],
              "health-check-http-port", "admin-http-port")
    BY <1>4, <1>25, <1>33
  <2>2. Moves(j17.opts["collector"], j18.opts["collector"],
              "admin-http-port", "admin.http.host-port")
    BY <1>2, <1>8, <1>33
  <2>3. T(new, "collector", "health-check-http-port")
          = T(j15, "collector", "health-check-http-port")
    <3>1. "health-check-http-port" \in Watched
          /\ "health-check-http-port" \notin b17
          /\ "health-check-http-port" \notin b18
          /\ "health-check-http-port" \notin b20
          /\ "health-check-http-port" \notin b22
      BY DEF Watched, queryServers
    <3> QED
      BY <3>1, <1>20, <1>25
  <2> QED
    BY <2>1, <2>2, <2>3, <1>30, <1>31 DEF Moves
<1>34. Migrates(spec, new)
  <2>1. spec.ver < 15 => spec.ver < 18
    BY <1>2
  <2> QED
    BY <2>1, <1>21, <1>22, <1>23, <1>26, <1>27, <1>28, <1>29, <1>32, <1>33
    DEF Migrates
<1> QED
  BY <1>14, <1>16, <1>18, <1>34 DEF new

(* An instance of the latest version is left as it is.                     *)
LEMMA UpgradesLatest ==
    ASSUME NEW spec \in Instance, spec.ver = Latest
    PROVE  ManagedInstance(spec) = spec
<1>1. /\ ~Due(spec, 15) /\ ~Due(spec, 17) /\ ~Due(spec, 18) /\ ~Due(spec, 20)
      /\ ~Due(spec, 22) /\ ~Due(spec, 28)
  BY LatestAssumption DEF Due
<1>2. upgrades(spec) = spec
  BY <1>1 DEF upgrades
<1>3. Rewritten(spec) = {}
  BY <1>1 DEF Rewritten
<1>4. Flat(spec.nested, {}) = spec.nested
  BY DEF Flat, Instance
<1>5. spec = [spec EXCEPT !.ver = Latest, !.nested = Flat(@, {})]
  BY <1>4 DEF Instance
<1> QED
  BY <1>2, <1>3, <1>5 DEF ManagedInstance

-----------------------------------------------------------------------------
(* The webhook, the patch and the edits.                                   *)

Tracked == Watched \ {"es.server-urls", "kafka.producer.brokers"}
(* c has the tracked flags of a, and possibly one that turns TLS on.       *)
Completes(a, c) ==
    \A s \in Sections : \A f \in Tracked :
        f # "es.tls.enabled" \/ Named(a.opts[s], f) # {} =>
            Named(c.opts[s], f) = Named(a.opts[s], f)

(* One completion after the other.                                         *)
LEMMA CompletesTransitive ==
    ASSUME NEW a, NEW b, NEW c, Completes(a, b), Completes(b, c)
    PROVE  Completes(a, c)
BY DEF Completes

(* The webhook adds at most one flag to a section, and none when the       *)
(* section says whether it wants TLS.                                      *)
LEMMA DefaultOpts ==
    ASSUME NEW spec \in Instance, NEW d \in Default(spec)
    PROVE  /\ OnlyOptions(spec, d)
           /\ \A s \in Sections :
                \/ d.opts[s] = spec.opts[s] /\ d.nested[s] = spec.nested[s]
                \/ /\ Names(spec.opts[s]) \cap EnabledFlags = {}
                   /\ \E f \in EnabledFlags :
                         d.opts[s] = spec.opts[s] \cup {Opt(f, "true")}
<1> DEFINE more == [s \in Sections |->
                       IF s = "ingress" THEN {}
                       ELSE getAdditionalTLSFlags(spec.opts[s])]
           incomplete == {s \in Sections : more[s] # {}}
           picks == {p \in [incomplete -> UNION {more[s] : s \in incomplete}] :
                       \A s \in incomplete : p[s] \in more[s]}
           full(p) == [s \in Sections |->
                         IF s \in incomplete
                         THEN spec.opts[s] \cup {Opt(p[s], "true")}
                         ELSE spec.opts[s]]
           flat == Flat(spec.nested, incomplete)
<1>1. PICK p \in picks : d = [spec EXCEPT !.opts = full(p), !.nested = flat]
  BY DEF Default, Instance
<1>2. ASSUME NEW s \in incomplete
      PROVE  /\ Names(spec.opts[s]) \cap EnabledFlags = {}
             /\ p[s] \in EnabledFlags
  <2>1. p[s] \in getAdditionalTLSFlags(spec.opts[s])
    OBVIOUS
  <2> QED
    BY <2>1 DEF getAdditionalTLSFlags, EnabledFlags
<1>3. EnabledFlags \subseteq STRING
  BY StringsAssumption DEF EnabledFlags, TLSFlags
<1>4. \A s \in Sections : spec.opts[s] \in Options
  BY InstanceOpts
<1> HIDE DEF picks
<1>0. /\ flat \in [Sections -> SUBSET STRING]
      /\ \A s \in Sections \ incomplete : flat[s] = spec.nested[s]
  <2>1. spec.nested \in [Sections -> SUBSET STRING]
    BY DEF Instance
  <2> HIDE DEF incomplete
  <2> QED
    BY <2>1, FlatNested
<1> HIDE DEF incomplete, flat
<1>5. ASSUME NEW s \in incomplete, NEW f \in EnabledFlags, s \in Sections,
             Names(spec.opts[s]) \cap EnabledFlags = {}
      PROVE  spec.opts[s] \cup {Opt(f, "true")} \in Options
  <2>1. Opt(f, "true") \in Option /\ Opt(f, "true").flag = f
    BY <1>3, StringsAssumption DEF Opt, Option
  <2>2. f \notin Names(spec.opts[s])
    BY <1>5
  <2> QED
    BY <1>4, <1>5, <2>1, <2>2 DEF Options, OneEach, Names
<1>6. full(p) \in [Sections -> Options]
  BY <1>2, <1>4, <1>5
<1>7. OnlyOptions(spec, d) /\ d.opts = full(p) /\ d.nested = flat
  <2> DEFINE opts == full(p)
  <2>1. opts \in [Sections -> Options]
        /\ d = [spec EXCEPT !.opts = opts, !.nested = flat]
    BY <1>1, <1>6
  <2> HIDE DEF opts
  <2>2. /\ opts \in [Sections -> SUBSET Option]
        /\ \A s \in Sections : OneEach(opts[s])
    BY <2>1 DEF Options
  <2>3. d \in Instance /\ d.opts = opts /\ d.nested = flat
    BY <1>0, <2>1, <2>2 DEF Instance
  <2> QED
    BY <2>1, <2>3 DEF opts, OnlyOptions
<1> QED
  BY <1>0, <1>2, <1>7

(* So it completes the flags, and touches neither the servers nor the      *)
(* brokers.                                                                *)
LEMMA DefaultFlags ==
    ASSUME NEW spec \in Instance, NEW d \in Default(spec)
    PROVE  /\ Completes(spec, d)
           /\ \A s \in Sections :
                \A f \in {"es.server-urls", "kafka.producer.brokers"} :
                   Named(d.opts[s], f) = Named(spec.opts[s], f)
           /\ d.opts = spec.opts => d = spec
           /\ \A s \in Sections : d.opts[s] # spec.opts[s] =>
                 /\ Names(spec.opts[s]) \cap EnabledFlags = {}
                 /\ Names(d.opts[s]) \cap EnabledFlags # {}
<1>1. /\ OnlyOptions(spec, d)
      /\ \A s \in Sections :
                \/ d.opts[s] = spec.opts[s] /\ d.nested[s] = spec.nested[s]
                \/ /\ Names(spec.opts[s]) \cap EnabledFlags = {}
                   /\ \E f \in EnabledFlags :
                         d.opts[s] = spec.opts[s] \cup {Opt(f, "true")}
  BY DefaultOpts
<1>2. EnabledFlags \cap Watched = {"es.tls.enabled"}
  BY DEF EnabledFlags, TLSFlags, Watched
<1>3. \A f : Opt(f, "true").flag = f
  BY DEF Opt
<1>4. ASSUME NEW s \in Sections, NEW f \in Watched,
             f # "es.tls.enabled" \/ Named(spec.opts[s], f) # {}
      PROVE  Named(d.opts[s], f) = Named(spec.opts[s], f)
  <2>1. CASE d.opts[s] = spec.opts[s]
    BY <2>1
  <2>2. ASSUME NEW g \in EnabledFlags,
               Names(spec.opts[s]) \cap EnabledFlags = {},
               d.opts[s] = spec.opts[s] \cup {Opt(g, "true")}
        PROVE  Named(d.opts[s], f) = Named(spec.opts[s], f)
    <3>1. f # g
      <4>1. CASE f # "es.tls.enabled"
        BY <1>2, <4>1
      <4>2. CASE Named(spec.opts[s], f) # {}
        BY <2>2, <4>2 DEF Named, Names
      <4> QED
        BY <1>4, <4>1, <4>2
    <3> QED
      BY <2>2, <3>1, <1>3 DEF Named
  <2> QED
    BY <2>1, <2>2, <1>1
<1>5. Completes(spec, d)
  BY <1>4 DEF Completes, Tracked
<1>6. \A s \in Sections :
         \A f \in {"es.server-urls", "kafka.producer.brokers"} :
            Named(d.opts[s], f) = Named(spec.opts[s], f)
  <2>1. \A f \in {"es.server-urls", "kafka.producer.brokers"} :
           f \in Watched /\ f # "es.tls.enabled"
    BY DEF Watched
  <2> QED
    BY <2>1, <1>4
<1>7. ASSUME d.opts = spec.opts
      PROVE  d = spec
  <2>1. ASSUME NEW s \in Sections
        PROVE  d.nested[s] = spec.nested[s]
    <3>1. ASSUME NEW f \in EnabledFlags,
                 d.opts[s] = spec.opts[s] \cup {Opt(f, "true")}
          PROVE  Names(spec.opts[s]) \cap EnabledFlags # {}
      <4>1. Opt(f, "true") \in spec.opts[s] /\ Opt(f, "true").flag = f
        BY <1>3, <1>7, <3>1
      <4> QED
        BY <4>1 DEF Names
    <3> QED
      BY <1>1, <3>1
  <2>2. d.nested = spec.nested
    BY <1>1, <2>1 DEF OnlyOptions, Instance
  <2>3. d = [spec EXCEPT !.opts = spec.opts, !.nested = spec.nested]
    BY <1>1, <1>7, <2>2 DEF OnlyOptions
  <2> QED
    BY <2>3 DEF Instance
<1>8. ASSUME NEW s \in Sections, d.opts[s] # spec.opts[s]
      PROVE  /\ Names(spec.opts[s]) \cap EnabledFlags = {}
             /\ Names(d.opts[s]) \cap EnabledFlags # {}
  BY <1>1, <1>3, <1>8 DEF Names
<1> QED
  BY <1>5, <1>6, <1>7, <1>8

(* What a patch flag by flag makes of the options of a section.            *)
MergedOptions(opts, old, new) ==
    Put(Without(opts, Names(old) \ Names(new)), new \ old)

(* Such a patch brings the flags    of a section to where the routines     *)
(* brought those of the copy.                                              *)
LEMMA PatchOptions ==
    ASSUME NEW opts \in Options, NEW old \in Options, NEW new \in Options
    PROVE  LET p == MergedOptions(opts, old, new)
           IN  /\ p \in Options
               /\ \A f : Named(new, f) = Named(old, f) =>
                    Named(p, f) = Named(opts, f)
               /\ \A f \in Names(new) :
                    (Named(old, f) # {} => Named(opts, f) = Named(old, f)) =>
                       Named(p, f) = Named(new, f)
               /\ \A f :
                    f \notin Names(new) /\ Named(opts, f) = Named(old, f) =>
                       Named(p, f) = {}
<1> DEFINE gone == Names(old) \ Names(new)
           rest == Without(opts, gone)
           set == new \ old
           p == Put(rest, set)
<1>1. /\ rest \in Options
      /\ \A f \in gone : Named(rest, f) = {}
      /\ \A f : f \notin gone => Named(rest, f) = Named(opts, f)
  BY WithoutOptions
<1>2. set \in Options
  BY DEF Options, OneEach
<1> HIDE DEF rest, set
<1>3. /\ p \in Options
      /\ \A f \in Names(set) : Named(p, f) = Named(set, f)
      /\ \A f : f \notin Names(set) => Named(p, f) = Named(rest, f)
  BY <1>1, <1>2, PutOptions
<1> HIDE DEF p
<1>4. \A f : /\ f \in Names(set) <=> Named(set, f) # {}
             /\ f \in Names(new) <=> Named(new, f) # {}
             /\ f \in Names(old) <=> Named(old, f) # {}
             /\ Named(set, f) = Named(new, f) \ Named(old, f)
             /\ \A o, q \in Named(new, f) : o = q
             /\ \A o, q \in Named(old, f) : o = q
  BY DEF Names, Named, set, Options, OneEach
<1>5. ASSUME NEW f, Named(new, f) = Named(old, f)
      PROVE  Named(p, f) = Named(opts, f)
  <2>1. f \notin Names(set) /\ f \notin gone
    BY <1>4, <1>5
  <2> QED
    BY <1>1, <1>3, <2>1
<1>6. ASSUME NEW f \in Names(new),
             Named(old, f) # {} => Named(opts, f) = Named(old, f)
      PROVE  Named(p, f) = Named(new, f)
  <2>1. CASE f \in Names(set)
    <3>1. Named(set, f) = Named(new, f)
      BY <1>4, <2>1
    <3> QED
      BY <1>3, <2>1, <3>1
  <2>2. CASE f \notin Names(set)
    <3>1. Named(new, f) # {} /\ Named(new, f) \subseteq Named(old, f)
      BY <1>4, <2>2
    <3>2. Named(old, f) = Named(new, f)
      <4>1. PICK x \in Named(new, f) : TRUE
        BY <3>1
      <4>2. x \in Named(old, f)
        BY <3>1
      <4>3. \A o \in Named(old, f) : o = x
        BY <1>4, <4>2
      <4> QED
        BY <3>1, <4>1, <4>3
    <3>3. f \notin gone
      OBVIOUS
    <3> QED
      BY <1>1, <1>3, <1>6, <2>2, <3>1, <3>2, <3>3
  <2> QED
    BY <2>1, <2>2
<1>7. ASSUME NEW f, f \notin Names(new), Named(opts, f) = Named(old, f)
      PROVE  Named(p, f) = {}
  <2>1. f \notin Names(set)
    BY <1>4, <1>7
  <2>2. Named(rest, f) = {}
    BY <1>1, <1>4, <1>7
  <2> QED
    BY <1>3, <2>1, <2>2
<1> QED
  BY <1>3, <1>5, <1>6, <1>7 DEF p, rest, set, MergedOptions

(* Instances that differ in their options and their SAR only.              *)
OnlyPatched(spec, new) ==
    /\ new \in Instance
    /\ new = [spec EXCEPT !.sar = new.sar, !.opts = new.opts,
                          !.nested = new.nested]

(* The merge patch changes options and the SAR; where it does not go       *)
(* astray, it merges each section.                                         *)
LEMMA PatchedInstance ==
    ASSUME NEW spec \in Instance, NEW from \in Instance, NEW to \in Instance,
           NEW p, p = Patched(spec, from, to)
    PROVE  /\ OnlyPatched(spec, p)
           /\ p.sar = IF to.sar # from.sar THEN to.sar ELSE spec.sar
           /\ p.opts = Merged(spec, from, to) => \A s \in Sections : p.opts[s]
                = MergedOptions(spec.opts[s], from.opts[s], to.opts[s])
<1> DEFINE sar == IF to.sar # from.sar THEN to.sar ELSE spec.sar
           same(s) == {o \in from.opts[s] \cap to.opts[s] :
                         Key(from, s, o.flag) = Key(to, s, o.flag)}
           set(s) == to.opts[s] \ same(s)
           keys(s) == {Key(from, s, o.flag) : o \in from.opts[s] \ same(s)}
                         \cup Names(set(s))
           left(s) == {o \in spec.opts[s] : Key(spec, s, o.flag) \notin keys(s)}
           opts == [s \in Sections |-> Put(left(s), set(s))]
           nested == [s \in Sections |-> {f \in spec.nested[s] :
                         Group(f) \notin keys(s) /\ f \notin Names(set(s))}]
<1>1. p = [spec EXCEPT !.sar = sar, !.opts = opts, !.nested = nested]
  BY DEF Patched, Instance
<1>2. \A s \in Sections : left(s) \subseteq spec.opts[s]
                           /\ set(s) \subseteq to.opts[s]
  OBVIOUS
<1>3. nested \in [Sections -> SUBSET STRING]
  BY DEF Instance
<1> HIDE DEF left, set, keys, same, nested
<1>4. \A s \in Sections : left(s) \in Options /\ set(s) \in Options
  <2>1. \A x \in Options : \A y : y \subseteq x => y \in Options
    BY DEF Options, OneEach
  <2>2. \A s \in Sections : spec.opts[s] \in Options /\ to.opts[s] \in Options
    BY InstanceOpts
  <2> QED
    BY <1>2, <2>1, <2>2
<1>5. opts \in [Sections -> Options]
  BY <1>4, PutOptions
<1> HIDE DEF opts
<1>6. /\ opts \in [Sections -> SUBSET Option]
      /\ \A s \in Sections : OneEach(opts[s])
  BY <1>5 DEF Options
<1>7. sar \in {"nil", "blank", "default", "user"}
  BY DEF Instance
<1> HIDE DEF sar
<1>8. p \in Instance /\ p.opts = opts /\ p.sar = sar /\ p.nested = nested
  BY <1>1, <1>3, <1>6, <1>7 DEF Instance
<1>9. \A s \in Sections : Merged(spec, from, to)[s]
         = MergedOptions(spec.opts[s], from.opts[s], to.opts[s])
  BY DEF Merged, MergedOptions
<1> QED
  BY <1>1, <1>8, <1>9 DEF sar, OnlyPatched

(* The user edits the servers, the brokers and the security.               *)
LEMMA EditedInstance ==
    ASSUME NEW spec \in Instance,
           NEW edit \in [what : {"storage", "access"}, nested : BOOLEAN]
    PROVE  LET new == Edited(spec, edit)
           IN  /\ new \in Instance
               /\ new = [spec EXCEPT !.security = new.security,
                                     !.opts = new.opts,
                                     !.nested = new.nested]
               /\ Completes(spec, new)
<1> DEFINE new == Edited(spec, edit)
           mine(opts, flag) == Put(opts, {Opt(flag, "mine")})
           old == spec.opts
           form(s, flag) ==
               IF edit.nested /\ flag \notin Names(spec.opts[s])
               THEN spec.nested[s] \cup {flag} ELSE spec.nested[s]
           nested == IF edit.what = "storage"
                     THEN [spec.nested EXCEPT
                             !["storage"] = form("storage", "es.server-urls")]
                     ELSE [spec.nested EXCEPT
                             !["collector"] =
                                 form("collector", "kafka.producer.brokers"),
                             !["ingester"] =
                                 form("ingester", "kafka.consumer.brokers")]
           mySecurity == IF edit.what = "storage" THEN spec.security
                         ELSE "none"
           opts == IF edit.what = "storage"
                   THEN [old EXCEPT !["storage"] = mine(@, "es.server-urls")]
                   ELSE [old EXCEPT
                           !["collector"] = mine(@, "kafka.producer.brokers"),
                           !["ingester"] = mine(@, "kafka.consumer.brokers")]
<1>1. new = [spec EXCEPT !.security = mySecurity, !.opts = opts,
                         !.nested = nested]
  <2>1. CASE edit.what = "storage"
    BY <2>1 DEF Edited, Instance
  <2>2. CASE edit.what = "access"
    BY <2>2 DEF Edited, Instance
  <2> QED
    BY <2>1, <2>2
<1>2. \A s \in Sections : old[s] \in Options
  BY InstanceOpts
<1>3. \A f \in {"es.server-urls", "kafka.producer.brokers",
                "kafka.consumer.brokers"} :
         {Opt(f, "mine")} \in Options /\ Names({Opt(f, "mine")}) = {f}
  BY OptOptions, StringsAssumption
<1>4. ASSUME NEW s \in Sections,
             NEW f \in {"es.server-urls", "kafka.producer.brokers",
                        "kafka.consumer.brokers"}
      PROVE  /\ mine(old[s], f) \in Options
             /\ \A g \in Tracked : Named(mine(old[s], f), g) = Named(old[s], g)
  <2>1. f \notin Tracked
    BY DEF Tracked, Watched
  <2>2. {Opt(f, "mine")} \in Options /\ Names({Opt(f, "mine")}) = {f}
    BY <1>3
  <2>3. old[s] \in Options
    BY <1>2
  <2> DEFINE o == old[s]
             n == {Opt(f, "mine")}
  <2> HIDE DEF o, n
  <2>4. /\ Put(o, n) \in Options
        /\ \A g : g \notin Names(n) => Named(Put(o, n), g) = Named(o, g)
    BY <2>2, <2>3, PutOptions DEF o, n
  <2> QED
    BY <2>1, <2>2, <2>4 DEF o, n
<1> HIDE DEF mine
<1>5. DOMAIN old = Sections /\ "storage" \in Sections
      /\ "collector" \in Sections /\ "ingester" \in Sections
  BY DEF Instance, Sections
<1> HIDE DEF old
<1>6. /\ opts \in [Sections -> Options]
      /\ \A s \in Sections : \A g \in Tracked :
            Named(opts[s], g) = Named(old[s], g)
  <2>0. old \in [Sections -> Options]
    BY <1>2, <1>5 DEF old, Instance
  <2>1. CASE edit.what = "storage"
    BY <2>0, <2>1, <1>4, <1>5
  <2>2. CASE edit.what = "access"
    BY <2>0, <2>2, <1>4, <1>5
  <2> QED
    BY <2>1, <2>2
<1> HIDE DEF opts
<1>7. /\ opts \in [Sections -> SUBSET Option]
      /\ \A s \in Sections : OneEach(opts[s])
  BY <1>6 DEF Options
<1>8. mySecurity \in {"unset", "none", "oauth-proxy"}
  BY DEF Instance
<1> HIDE DEF mySecurity
<1>11. nested \in [Sections -> SUBSET STRING]
  <2>1. spec.nested \in [Sections -> SUBSET STRING]
    BY DEF Instance
  <2>2. {"es.server-urls", "kafka.producer.brokers",
         "kafka.consumer.brokers"} \subseteq STRING
    BY StringsAssumption
  <2>3. ASSUME NEW s \in Sections,
               NEW f \in {"es.server-urls", "kafka.producer.brokers",
                          "kafka.consumer.brokers"}
        PROVE  form(s, f) \in SUBSET STRING
    BY <2>1, <2>2
  <2> HIDE DEF form
  <2> QED
    BY <1>5, <2>1, <2>3
<1> HIDE DEF nested
<1>9. /\ new \in Instance /\ new.opts = opts /\ new.security = mySecurity
      /\ new.nested = nested
  BY <1>1, <1>7, <1>8, <1>11 DEF Instance
<1>10. Completes(spec, new)
  BY <1>6, <1>9 DEF Completes, old
<1> QED
  BY <1>1, <1>9, <1>10

-----------------------------------------------------------------------------
(* The choices of the user, and normalize.                                 *)

Brokers(spec) == Named(spec.opts["collector"], "kafka.producer.brokers")
(* ChoicesKept between any two instances, made transitive: the fields, and *)
(* the options that a patch may take with it.                              *)
KeepsFields(a, c) ==
    /\ a.security = "none" => c.security = "none"
    /\ a.sar # "nil" => c.sar = a.sar
    /\ a.deps # "nil" => c.deps = a.deps
    /\ a.cleaner # "nil" => c.cleaner = a.cleaner
    /\ a.nodes # 0 => c.nodes = a.nodes
    /\ IsRestriction(a.ui.menu, c.ui.menu)
KeepsOptions(a, c) ==
    /\ "es.server-urls" \in Names(a.opts["storage"]) =>
         "es.server-urls" \in Names(c.opts["storage"])
    /\ Brokers(a) # {} /\ ~a.provisioned =>
         Brokers(c) = Brokers(a) /\ ~c.provisioned
Keeps(a, c) == KeepsFields(a, c) /\ KeepsOptions(a, c)

(* Choices that are kept twice are kept.                                   *)
LEMMA KeepsTransitive ==
    ASSUME NEW a, NEW b, NEW c
    PROVE  /\ KeepsFields(a, b) /\ KeepsFields(b, c) => KeepsFields(a, c)
           /\ KeepsOptions(a, b) /\ KeepsOptions(b, c) => KeepsOptions(a, c)
           /\ Keeps(a, b) /\ Keeps(b, c) => Keeps(a, c)
<1>1. ASSUME KeepsFields(a, b), KeepsFields(b, c)
      PROVE  KeepsFields(a, c)
  <2>1. IsRestriction(a.ui.menu, b.ui.menu)
        /\ IsRestriction(b.ui.menu, c.ui.menu)
    BY <1>1 DEF KeepsFields
  <2> DEFINE x == a.ui.menu
             y == b.ui.menu
             z == c.ui.menu
  <2> HIDE DEF x, y, z
  <2>2. IsRestriction(x, y) /\ IsRestriction(y, z) => IsRestriction(x, z)
    BY DEF IsRestriction
  <2>3. IsRestriction(a.ui.menu, c.ui.menu)
    BY <2>1, <2>2 DEF x, y, z
  <2> QED
    BY <1>1, <2>3 DEF KeepsFields
<1>2. KeepsOptions(a, b) /\ KeepsOptions(b, c) => KeepsOptions(a, c)
  BY DEF KeepsOptions
<1> QED
  BY <1>1, <1>2 DEF Keeps

(* A write of the same keeps the choices.                                  *)
LEMMA KeepsReflexive ==
    ASSUME NEW a
    PROVE  Keeps(a, a)
BY DEF Keeps, KeepsFields, KeepsOptions, IsRestriction

(* What normalize may do to an instance.                                   *)
Normal(spec, new) ==
    /\ new \in Instance
    /\ new.opts = spec.opts
    /\ new.ver = spec.ver
    /\ Keeps(spec, new)

(* The parts of normalize compose.                                         *)
LEMMA NormalTransitive ==
    ASSUME NEW a, NEW b, NEW c, Normal(a, b), Normal(b, c)
    PROVE  Normal(a, c)
BY KeepsTransitive DEF Normal

(* The storage, the labels and the strategy are no choices of the user     *)
(* that normalize keeps.                                                   *)
LEMMA NormalTypes ==
    ASSUME NEW spec \in Instance
    PROVE  Normal(spec, normalizeTypes(spec))
<1> DEFINE new == normalizeTypes(spec)
<1>1. PICK storage \in STRING, labels \in SUBSET STRING, strategy \in STRING :
        new = [spec EXCEPT !.storage = storage, !.labels = labels,
                           !.strategy = strategy]
  BY StringsAssumption DEF normalizeTypes, Instance
<1> HIDE DEF new
<1>2. new \in Instance
  BY <1>1 DEF Instance
<1>3. /\ new.security = spec.security /\ new.sar = spec.sar
      /\ new.deps = spec.deps /\ new.cleaner = spec.cleaner
      /\ new.nodes = spec.nodes /\ new.ui = spec.ui
      /\ new.opts = spec.opts /\ new.provisioned = spec.provisioned
      /\ new.ver = spec.ver
  BY <1>1 DEF Instance
<1> QED
  BY <1>2, <1>3
  DEF Normal, Keeps, KeepsFields, KeepsOptions, Brokers, IsRestriction, new

(* An explicit none stays none on every platform.                          *)
LEMMA NormalSecurity ==
    ASSUME NEW spec \in Instance, NEW platform
    PROVE  Normal(spec, normalizeSecurity(spec, platform))
<1> DEFINE new == normalizeSecurity(spec, platform)
<1>1. PICK x \in {"none", "oauth-proxy"} :
        /\ new = [spec EXCEPT !.security = x]
        /\ spec.security = "none" => x = "none"
  BY DEF normalizeSecurity, Instance
<1> HIDE DEF new
<1>2. new \in Instance
  BY <1>1 DEF Instance
<1>3. /\ new.security = x /\ new.sar = spec.sar
      /\ new.deps = spec.deps /\ new.cleaner = spec.cleaner
      /\ new.nodes = spec.nodes /\ new.ui = spec.ui
      /\ new.opts = spec.opts /\ new.provisioned = spec.provisioned
      /\ new.ver = spec.ver
  BY <1>1 DEF Instance
<1> QED
  BY <1>1, <1>2, <1>3
  DEF Normal, Keeps, KeepsFields, KeepsOptions, Brokers, IsRestriction, new

(* A SAR that is there is kept.                                            *)
LEMMA NormalSAR ==
    ASSUME NEW spec \in Instance, NEW platform
    PROVE  Normal(spec, normalizeSAR(spec, platform))
<1> DEFINE new == normalizeSAR(spec, platform)
<1>1. PICK x \in {"nil", "blank", "default", "user"} :
        /\ new = [spec EXCEPT !.sar = x]
        /\ spec.sar # "nil" => x = spec.sar
  BY DEF normalizeSAR, Instance
<1> HIDE DEF new
<1>2. new \in Instance
  BY <1>1 DEF Instance
<1>3. /\ new.security = spec.security /\ new.sar = x
      /\ new.deps = spec.deps /\ new.cleaner = spec.cleaner
      /\ new.nodes = spec.nodes /\ new.ui = spec.ui
      /\ new.opts = spec.opts /\ new.provisioned = spec.provisioned
      /\ new.ver = spec.ver
  BY <1>1 DEF Instance
<1> QED
  BY <1>1, <1>2, <1>3
  DEF Normal, Keeps, KeepsFields, KeepsOptions, Brokers, IsRestriction, new

(* An explicit answer to the jobs of Spark and of the index cleaner is     *)
(* kept.                                                                   *)
LEMMA NormalJobs ==
    ASSUME NEW spec \in Instance
    PROVE  Normal(spec,
                  normalizeIndexCleaner(normalizeSparkDependencies(spec)))
<1> DEFINE new == normalizeIndexCleaner(normalizeSparkDependencies(spec))
<1>1. PICK x \in {"nil", "true", "false"} :
        /\ normalizeSparkDependencies(spec) = [spec EXCEPT !.deps = x]
        /\ spec.deps # "nil" => x = spec.deps
  <2> DEFINE tls == \/ IsTrue(spec.opts["storage"], "es.tls")
                    \/ IsTrue(spec.opts["storage"], "es.tls.skip-host-verify")
                    \/ "es.tls.ca" \in Names(spec.opts["storage"])
             on == /\ SupportedStorage(spec.storage) /\ spec.deps = "nil"
                   /\ ~ShouldInject(spec) /\ ~tls
             x == IF on THEN "true" ELSE spec.deps
  <2>1. normalizeSparkDependencies(spec) = [spec EXCEPT !.deps = x]
    BY DEF normalizeSparkDependencies, Instance
  <2>2. x \in {"nil", "true", "false"} /\ (spec.deps # "nil" => x = spec.deps)
    BY DEF Instance
  <2> QED
    BY <2>1, <2>2
<1>2. PICK y \in {"nil", "true", "false"} :
        /\ new = [spec EXCEPT !.deps = x, !.cleaner = y]
        /\ spec.cleaner # "nil" => y = spec.cleaner
  BY <1>1 DEF normalizeIndexCleaner, Instance
<1> HIDE DEF new
<1>3. new \in Instance
  BY <1>2 DEF Instance
<1>4. /\ new.security = spec.security /\ new.sar = spec.sar
      /\ new.deps = x /\ new.cleaner = y
      /\ new.nodes = spec.nodes /\ new.ui = spec.ui
      /\ new.opts = spec.opts /\ new.provisioned = spec.provisioned
      /\ new.ver = spec.ver
  BY <1>2 DEF Instance
<1> QED
  BY <1>1, <1>2, <1>3, <1>4
  DEF Normal, Keeps, KeepsFields, KeepsOptions, Brokers, IsRestriction, new

(* A number of nodes that is there is kept.                                *)
LEMMA NormalElasticsearch ==
    ASSUME NEW spec \in Instance
    PROVE  Normal(spec, normalizeElasticsearch(spec))
<1> DEFINE new == normalizeElasticsearch(spec)
<1>1. PICK n \in Nat, x \in STRING :
        /\ new = [spec EXCEPT !.nodes = n, !.redundancy = x]
        /\ spec.nodes # 0 => n = spec.nodes
  BY StringsAssumption DEF normalizeElasticsearch, Instance
<1> HIDE DEF new
<1>2. new \in Instance
  BY <1>1 DEF Instance
<1>3. /\ new.security = spec.security /\ new.sar = spec.sar
      /\ new.deps = spec.deps /\ new.cleaner = spec.cleaner
      /\ new.nodes = n /\ new.ui = spec.ui
      /\ new.opts = spec.opts /\ new.provisioned = spec.provisioned
      /\ new.ver = spec.ver
  BY <1>1 DEF Instance
<1> QED
  BY <1>1, <1>2, <1>3
  DEF Normal, Keeps, KeepsFields, KeepsOptions, Brokers, IsRestriction, new

(* A menu is replaced by one that begins with it.                          *)
LEMMA NormalMenu ==
    ASSUME NEW spec \in Instance, NEW ui \in UIOptions,
           IsRestriction(spec.ui.menu, ui.menu)
    PROVE  Normal(spec, [spec EXCEPT !.ui = ui])
<1> DEFINE new == [spec EXCEPT !.ui = ui]
<1>1. new \in Instance
  BY DEF Instance
<1>2. /\ new.security = spec.security /\ new.sar = spec.sar
      /\ new.deps = spec.deps /\ new.cleaner = spec.cleaner
      /\ new.nodes = spec.nodes /\ new.ui = ui
      /\ new.opts = spec.opts /\ new.provisioned = spec.provisioned
      /\ new.ver = spec.ver
  BY DEF Instance
<1> HIDE DEF new
<1>3. Normal(spec, new)
  BY <1>1, <1>2 DEF Normal, Keeps, KeepsFields, KeepsOptions, Brokers
<1> QED
  BY <1>3 DEF new

(* normalizeUI appends to the menu of the user and takes nothing away.     *)
LEMMA NormalUI ==
    ASSUME NEW spec \in Instance
    PROVE  Normal(spec, normalizeUI(spec))
<1> DEFINE a == enableArchiveButton(spec)
           b == disableDependenciesTab(a)
           c == enableDocumentationLink(b)
           d == enableLogOut(c)
<1>1. Normal(spec, a)
  <2> DEFINE x == IF /\ spec.ui.archive = "unset"
                     /\ \/ IsTrue(spec.opts["storage"], "es-archive.enabled")
                        \/ IsTrue(spec.opts["storage"],
                                  "cassandra-archive.enabled")
                  THEN "true" ELSE spec.ui.archive
             ui == [spec.ui EXCEPT !.archive = x]
  <2>1. a = [spec EXCEPT !.ui = ui]
    BY DEF enableArchiveButton, Instance
  <2>2. x \in STRING
    BY StringsAssumption DEF Instance, UIOptions
  <2> HIDE DEF x
  <2>3. ui \in UIOptions /\ ui.menu = spec.ui.menu
    BY <2>2 DEF Instance, UIOptions
  <2> HIDE DEF ui
  <2>4. IsRestriction(spec.ui.menu, ui.menu)
    BY <2>3 DEF IsRestriction
  <2> QED
    BY <2>1, <2>3, <2>4, NormalMenu
<1>2. a \in Instance
  BY <1>1 DEF Normal
<1> HIDE DEF a
<1>3. Normal(a, b)
  <2> DEFINE x == IF a.storage # "memory" /\ a.deps # "true"
                       /\ a.ui.dependencies = "unset"
                  THEN "false" ELSE a.ui.dependencies
             ui == [a.ui EXCEPT !.dependencies = x]
  <2>1. b = [a EXCEPT !.ui = ui]
    BY <1>2 DEF disableDependenciesTab, Instance
  <2>2. x \in STRING
    BY <1>2, StringsAssumption DEF Instance, UIOptions
  <2> HIDE DEF x
  <2>3. ui \in UIOptions /\ ui.menu = a.ui.menu
    BY <1>2, <2>2 DEF Instance, UIOptions
  <2> HIDE DEF ui
  <2>4. IsRestriction(a.ui.menu, ui.menu)
    BY <2>3 DEF IsRestriction
  <2> QED
    BY <1>2, <2>1, <2>3, <2>4, NormalMenu
<1>4. b \in Instance
  BY <1>3 DEF Normal
<1> HIDE DEF b
<1>5. Normal(b, c)
  <2> DEFINE x == IF b.ui.menu = <<>> THEN <<"About">> ELSE b.ui.menu
             ui == [b.ui EXCEPT !.menu = x]
  <2>1. c = [b EXCEPT !.ui = ui]
    BY <1>4 DEF enableDocumentationLink, Instance
  <2>2. x \in Seq(STRING) /\ IsRestriction(b.ui.menu, x)
    <3>1. b.ui.menu \in Seq(STRING)
      BY <1>4 DEF Instance, UIOptions
    <3>2. CASE b.ui.menu = <<>>
      BY <3>2, StringsAssumption DEF IsRestriction
    <3>3. CASE b.ui.menu # <<>>
      BY <3>1, <3>3 DEF IsRestriction
    <3> QED
      BY <3>2, <3>3
  <2> HIDE DEF x
  <2>3. ui \in UIOptions /\ ui.menu = x
    BY <1>4, <2>2 DEF Instance, UIOptions
  <2> HIDE DEF ui
  <2> QED
    BY <1>4, <2>1, <2>2, <2>3, NormalMenu
<1>6. c \in Instance
  BY <1>5 DEF Normal
<1> HIDE DEF c
<1>7. Normal(c, d)
  <2> DEFINE x == IF /\ c.ingress /\ c.security = "oauth-proxy"
                     /\ "LogOut" \notin Range(c.ui.menu)
                  THEN Append(c.ui.menu, "LogOut") ELSE c.ui.menu
             ui == [c.ui EXCEPT !.menu = x]
  <2>1. d = [c EXCEPT !.ui = ui]
    BY <1>6 DEF enableLogOut, Instance
  <2>2. x \in Seq(STRING) /\ IsRestriction(c.ui.menu, x)
    <3>1. c.ui.menu \in Seq(STRING)
      BY <1>6 DEF Instance, UIOptions
    <3> DEFINE menu == c.ui.menu
    <3> HIDE DEF menu
    <3>2. "LogOut" \in STRING
      BY StringsAssumption
    <3>3. /\ Append(menu, "LogOut") \in Seq(STRING)
          /\ IsRestriction(menu, Append(menu, "LogOut"))
      BY <3>1, <3>2 DEF IsRestriction, menu
    <3>4. IsRestriction(menu, menu)
      BY DEF IsRestriction
    <3> QED
      BY <3>1, <3>3, <3>4 DEF menu
  <2> HIDE DEF x
  <2>3. ui \in UIOptions /\ ui.menu = x
    BY <1>6, <2>2 DEF Instance, UIOptions
  <2> HIDE DEF ui
  <2> QED
    BY <1>6, <2>1, <2>2, <2>3, NormalMenu
<1>8. Normal(spec, d)
  BY <1>1, <1>3, <1>5, <1>7, NormalTransitive
<1> QED
  BY <1>8 DEF normalizeUI, a, b, c

(* What follows the second read of the platform.                           *)
LEMMA NormalStorage ==
    ASSUME NEW spec \in Instance
    PROVE  Normal(spec, normalizeStorage(spec))
<1> DEFINE jobs == normalizeIndexCleaner(normalizeSparkDependencies(spec))
           es == normalizeElasticsearch(jobs)
<1>1. Normal(spec, jobs)
  BY NormalJobs
<1>2. jobs \in Instance
  BY <1>1 DEF Normal
<1> HIDE DEF jobs
<1>3. Normal(jobs, es)
  BY <1>2, NormalElasticsearch
<1>4. es \in Instance
  BY <1>3 DEF Normal
<1> HIDE DEF es
<1>5. Normal(es, normalizeUI(es))
  BY <1>4, NormalUI
<1>6. Normal(spec, normalizeUI(es))
  BY <1>1, <1>3, <1>5, NormalTransitive
<1> QED
  BY <1>6 DEF normalizeStorage, es, jobs

(* The two parts of normalize, before and after the second read.           *)
LEMMA NormalParts ==
    ASSUME NEW spec \in Instance, NEW platform
    PROVE  /\ Normal(spec, normalizeSecurity(normalizeTypes(spec), platform))
           /\ Normal(spec, normalizeStorage(normalizeSAR(spec, platform)))
<1>1. Normal(spec, normalizeTypes(spec)) /\ normalizeTypes(spec) \in Instance
  BY NormalTypes DEF Normal
<1>2. Normal(normalizeTypes(spec),
             normalizeSecurity(normalizeTypes(spec), platform))
  BY <1>1, NormalSecurity
<1>3. /\ Normal(spec, normalizeSAR(spec, platform))
      /\ normalizeSAR(spec, platform) \in Instance
  BY NormalSAR DEF Normal
<1>4. Normal(normalizeSAR(spec, platform),
             normalizeStorage(normalizeSAR(spec, platform)))
  BY <1>3, NormalStorage
<1> QED
  BY <1>1, <1>2, <1>3, <1>4, NormalTransitive

(* The whole of normalize.                                                 *)
LEMMA NormalizeNormal ==
    ASSUME NEW spec \in Instance, NEW platform
    PROVE  Normal(spec, normalize(spec, platform))
<1> DEFINE a == normalizeSecurity(normalizeTypes(spec), platform)
<1>1. Normal(spec, a) /\ a \in Instance
  BY NormalParts DEF Normal
<1> HIDE DEF a
<1>2. Normal(a, normalizeStorage(normalizeSAR(a, platform)))
  BY <1>1, NormalParts
<1> QED
  BY <1>1, <1>2, NormalTransitive DEF normalize, a

(* The options of a provisioned Kafka.                                     *)
LEMMA KafkaOptions ==
    /\ ProducerOptions \in Options
    /\ ConsumerOptions \in Options
    /\ Names(ProducerOptions) \cap Tracked = {}
    /\ Names(ConsumerOptions) \cap Tracked = {}
    /\ Names(ProducerOptions) \cap Names(ConsumerOptions) = {}
    /\ "es.server-urls" \notin Names(ProducerOptions)
    /\ "kafka.producer.brokers" \in Names(ProducerOptions)
<1> DEFINE P == {Opt("kafka.producer.brokers", "provisioned"),
                 Opt("kafka.producer.authentication", "tls"),
                 Opt("kafka.producer.tls.enabled", "true"),
                 Opt("kafka.producer.tls.ca", "provisioned"),
                 Opt("kafka.producer.tls.cert", "provisioned"),
                 Opt("kafka.producer.tls.key", "provisioned")}
           C == {Opt("kafka.consumer.brokers", "provisioned"),
                 Opt("kafka.consumer.authentication", "tls"),
                 Opt("kafka.consumer.tls.enabled", "true"),
                 Opt("kafka.consumer.tls.ca", "provisioned"),
                 Opt("kafka.consumer.tls.cert", "provisioned"),
                 Opt("kafka.consumer.tls.key", "provisioned")}
<1>1. ProducerOptions = P /\ ConsumerOptions = C
  <2>1. Mounted(ProducerFlags) = {Opt("kafka.producer.tls.ca", "provisioned"),
                                  Opt("kafka.producer.tls.cert", "provisioned"),
                                  Opt("kafka.producer.tls.key", "provisioned")}
    BY Zenon DEF Mounted, ProducerFlags
  <2>2. Mounted(ConsumerFlags) = {Opt("kafka.consumer.tls.ca", "provisioned"),
                                  Opt("kafka.consumer.tls.cert", "provisioned"),
                                  Opt("kafka.consumer.tls.key", "provisioned")}
    BY Zenon DEF Mounted, ConsumerFlags
  <2> QED
    BY <2>1, <2>2 DEF ProducerOptions, ConsumerOptions
<1>2. P \subseteq Option /\ C \subseteq Option
  <2> DEFINE flagNames == {"kafka.producer.brokers",
                    "kafka.producer.authentication",
                    "kafka.producer.tls.enabled", "kafka.producer.tls.ca",
                    "kafka.producer.tls.cert", "kafka.producer.tls.key",
                    "kafka.consumer.brokers", "kafka.consumer.authentication",
                    "kafka.consumer.tls.enabled", "kafka.consumer.tls.ca",
                    "kafka.consumer.tls.cert", "kafka.consumer.tls.key"}
             values == {"provisioned", "tls", "true"}
  <2>1. flagNames \subseteq STRING /\ values \subseteq STRING
    BY StringsAssumption
  <2>2. \A f \in flagNames : \A t \in values : Opt(f, t) \in Option
    <3> HIDE DEF flagNames, values
    <3> QED
      BY <2>1, OptOptions
  <2> QED
    BY <2>2
<1>3. OneEach(P) /\ OneEach(C)
  BY DEF OneEach, Opt
<1>4. /\ Names(P) = {"kafka.producer.brokers", "kafka.producer.authentication",
                    "kafka.producer.tls.enabled", "kafka.producer.tls.ca",
                    "kafka.producer.tls.cert", "kafka.producer.tls.key"}
      /\ Names(C) = {"kafka.consumer.brokers", "kafka.consumer.authentication",
                    "kafka.consumer.tls.enabled", "kafka.consumer.tls.ca",
                    "kafka.consumer.tls.cert", "kafka.consumer.tls.key"}
  BY DEF Names, Opt
<1> HIDE DEF P, C
<1>5. Names(P) \cap Tracked = {} /\ Names(C) \cap Tracked = {}
  BY <1>4 DEF Tracked, Watched
<1> QED
  BY <1>1, <1>2, <1>3, <1>4, <1>5 DEF Options

(* The self-provisioning of Kafka overwrites brokers only of an instance   *)
(* that is marked as provisioned, and removes no flag.                     *)
LEMMA KafkaInstance ==
    ASSUME NEW spec \in Instance
    PROVE  LET new == strategyKafka(spec)
           IN  /\ new \in Instance
               /\ new.ver = spec.ver
               /\ new = [spec EXCEPT !.provisioned = new.provisioned,
                                     !.opts = new.opts,
                                     !.nested = new.nested]
               /\ Completes(spec, new)
               /\ Keeps(spec, new)
               /\ \A s \in Sections :
                    Names(spec.opts[s]) \subseteq Names(new.opts[s])
<1>1. CASE ~ProvisionsKafka(spec)
  BY <1>1, KeepsReflexive DEF strategyKafka, Completes, Instance
<1>2. CASE ProvisionsKafka(spec)
  <2> DEFINE old == spec.opts
             new == strategyKafka(spec)
             opts == [old EXCEPT
                        !["collector"] = Put(@, ProducerOptions),
                        !["ingester"] = Put(@, ConsumerOptions)]
             flat == Flat(spec.nested, {"collector", "ingester"})
  <2>1. new = [spec EXCEPT !.provisioned = TRUE, !.opts = opts,
                           !.nested = flat]
    BY <1>2 DEF strategyKafka, autoProvisionKafka, Instance
  <2>12. flat \in [Sections -> SUBSET STRING]
    BY FlatNested DEF Instance
  <2> HIDE DEF flat
  <2>2. /\ old \in [Sections -> Options]
        /\ {"collector", "ingester", "storage"} \subseteq Sections
    BY InstanceOpts DEF Instance, Sections
  <2> HIDE DEF old
  <2>3. /\ Put(old["collector"], ProducerOptions) \in Options
        /\ Names(Put(old["collector"], ProducerOptions))
             = Names(old["collector"]) \cup Names(ProducerOptions)
        /\ \A g : g \notin Names(ProducerOptions) =>
              Named(Put(old["collector"], ProducerOptions), g)
                = Named(old["collector"], g)
    BY <2>2, PutOptions, KafkaOptions
  <2>4. /\ Put(old["ingester"], ConsumerOptions) \in Options
        /\ Names(Put(old["ingester"], ConsumerOptions))
             = Names(old["ingester"]) \cup Names(ConsumerOptions)
        /\ \A g : g \notin Names(ConsumerOptions) =>
              Named(Put(old["ingester"], ConsumerOptions), g)
                = Named(old["ingester"], g)
    BY <2>2, PutOptions, KafkaOptions
  <2>5. /\ opts \in [Sections -> Options]
        /\ opts["storage"] = old["storage"]
        /\ \A s \in Sections :
              /\ Names(old[s]) \subseteq Names(opts[s])
              /\ \A g \in Tracked : Named(opts[s], g) = Named(old[s], g)
    BY <2>2, <2>3, <2>4, KafkaOptions
  <2> HIDE DEF opts
  <2>6. /\ opts \in [Sections -> SUBSET Option]
        /\ \A s \in Sections : OneEach(opts[s])
    BY <2>5 DEF Options
  <2>7. new \in Instance /\ new.ver = spec.ver /\ new.opts = opts
        /\ new.provisioned = TRUE /\ new.nested = flat
    BY <2>1, <2>6, <2>12 DEF Instance
  <2>8. /\ new.security = spec.security /\ new.sar = spec.sar
        /\ new.deps = spec.deps /\ new.cleaner = spec.cleaner
        /\ new.nodes = spec.nodes /\ new.ui = spec.ui
    BY <2>1 DEF Instance
  <2>9. Brokers(spec) # {} => spec.provisioned
    <3>1. spec.opts["collector"] \in SUBSET Option
      BY <2>2 DEF old, Options
    <3>2. Brokers(spec) # {} =>
            "kafka.producer.brokers" \in Names(spec.opts["collector"])
      BY <3>1, OptionNames DEF Brokers
    <3> QED
      BY <1>2, <3>2 DEF ProvisionsKafka
  <2>10. Completes(spec, new)
    BY <2>5, <2>7 DEF Completes, old
  <2>11. Keeps(spec, new)
    BY <2>5, <2>7, <2>8, <2>9
    DEF Keeps, KeepsFields, KeepsOptions, IsRestriction, old
  <2> QED
    BY <2>1, <2>5, <2>7, <2>10, <2>11 DEF old
<1> QED
  BY <1>1, <1>2


-----------------------------------------------------------------------------
(* Type correctness.                                                       *)
USE DEF wishes

(* The strategy renders a manifest without cron jobs.                      *)
LEMMA ForManifest ==
    ASSUME NEW spec \in Instance, NEW platform
    PROVE  For(spec, platform) \in Manifests /\ For(spec, platform).jobs = {}
<1> DEFINE m == Manifest(spec, platform)
<1>1. ShouldInject(spec) \in BOOLEAN /\ ProvisionsKafka(spec) \in BOOLEAN
      /\ OAuthProxy(spec) \in BOOLEAN
  BY DEF ShouldInject, ProvisionsKafka, OAuthProxy, Instance
<1>2. m \in Manifests /\ m.jobs = {}
  BY <1>1 DEF Manifest, Manifests
<1> HIDE DEF m
<1>3. PICK d \in SUBSET AllDeployments, es \in BOOLEAN, kafka \in BOOLEAN :
        For(spec, platform) = [m EXCEPT !.deployments = d, !.es = es,
                                        !.kafka = kafka]
  <2>1. CASE spec.strategy = "allInOne"
    <3>1. For(spec, platform) = [m EXCEPT !.deployments = {"all-in-one"}]
      BY <2>1 DEF For, newAllInOneStrategy, m
    <3>2. m.es \in BOOLEAN /\ m.kafka \in BOOLEAN
      BY <1>2 DEF Manifests
    <3>3. [m EXCEPT !.deployments = {"all-in-one"}] =
            [m EXCEPT !.deployments = {"all-in-one"}, !.es = m.es,
                      !.kafka = m.kafka]
      BY <1>2 DEF Manifests
    <3> QED
      BY <3>1, <3>2, <3>3 DEF AllDeployments
  <2>2. CASE spec.strategy = "streaming"
    BY <1>1, <1>2, <2>2
    DEF For, newStreamingStrategy, AllDeployments, Manifests, m
  <2>3. CASE spec.strategy \notin {"allInOne", "streaming"}
    <3> DEFINE d == {"collector", "query"}
    <3>1. For(spec, platform) = [m EXCEPT !.deployments = d,
                                          !.es = ShouldInject(spec)]
      BY <2>3 DEF For, newProductionStrategy, m
    <3>2. m.kafka \in BOOLEAN
      BY <1>2 DEF Manifests
    <3>3. [m EXCEPT !.deployments = d, !.es = ShouldInject(spec)] =
            [m EXCEPT !.deployments = d, !.es = ShouldInject(spec),
                      !.kafka = m.kafka]
      BY <1>2 DEF Manifests
    <3> QED
      BY <1>1, <3>1, <3>2, <3>3 DEF AllDeployments
  <2> QED
    BY <2>1, <2>2, <2>3
<1> QED
  BY <1>2, <1>3 DEF Manifests

(* The types of what the detection writes: one lemma for its init, one for *)
(* its steps, one for its surroundings.                                    *)
LEMMA DetectionStarts ==
    /\ AutodetectInit => AutodetectTypeOK
    /\ AutodetectTypeOK => FromFlags(flags) \in
         [platform : {"auto-detect", "openshift", "kubernetes"},
          es : {"auto", "yes", "no"}, kafka : {"auto", "yes", "no"},
          delegator : {"unknown", "yes", "no"},
          cronjobs : BatchVersions \cup {"unset"},
          autoscaling : {"unset", "autoscaling/v2", "autoscaling/v2beta2"},
          ingressClass : {"unset", "nginx"}, oauthImage : {"tag", "digest"}]
    /\ NewBackground \in [pc : DetectorSteps, firstRun : BOOLEAN,
          found : SUBSET {OpenShiftAPI, ElasticsearchAPI, KafkaAPI}]
<1>1. NewBackground \in [pc : DetectorSteps, firstRun : BOOLEAN,
          found : SUBSET {OpenShiftAPI, ElasticsearchAPI, KafkaAPI}]
  BY DEF NewBackground, DetectorSteps
<1>2. \A f \in CommandLines : FromFlags(f) \in
         [platform : {"auto-detect", "openshift", "kubernetes"},
          es : {"auto", "yes", "no"}, kafka : {"auto", "yes", "no"},
          delegator : {"unknown", "yes", "no"},
          cronjobs : BatchVersions \cup {"unset"},
          autoscaling : {"unset", "autoscaling/v2", "autoscaling/v2beta2"},
          ingressClass : {"unset", "nginx"}, oauthImage : {"tag", "digest"}]
  BY DEF FromFlags, CommandLines
<1>3. AutodetectInit => cluster \in Clusters /\ flags \in CommandLines
  BY AutodetectAssumption DEF AutodetectInit
<1>4. AutodetectInit => faults \in 0..MaxFaults /\ events \in 0..MaxEvents
  BY AutodetectAssumption DEF AutodetectInit
<1> QED
  BY <1>1, <1>2, <1>3, <1>4 DEF AutodetectInit, AutodetectTypeOK

(* Faults and events are counted up to their bounds.                       *)
LEMMA CountersTyped ==
    ASSUME AutodetectTypeOK, Event \/ Fails \/ Succeeds
    PROVE  faults' \in 0..MaxFaults /\ events' \in 0..MaxEvents
BY AutodetectAssumption DEF AutodetectTypeOK, Event, Fails, Succeeds

(* Each step of a detection cycle.                                         *)
LEMMA DetectTyped ==
    ASSUME AutodetectTypeOK, Detect
    PROVE  AutodetectTypeOK'
<1> USE DEF AutodetectTypeOK
<1>0. Event \/ Fails \/ Succeeds =>
         faults' \in 0..MaxFaults /\ events' \in 0..MaxEvents
  BY CountersTyped
<1>1. ASSUME NEW step \in DetectorSteps, Continue(step)
      PROVE  detector' \in [pc : DetectorSteps, firstRun : BOOLEAN,
          found : SUBSET {OpenShiftAPI, ElasticsearchAPI, KafkaAPI}]
  BY <1>1 DEF Continue
<1>2. CASE autoDetectCapabilities
  <2>1. detector' \in [pc : DetectorSteps, firstRun : BOOLEAN,
          found : SUBSET {OpenShiftAPI, ElasticsearchAPI, KafkaAPI}]
    BY <1>2, <1>1 DEF autoDetectCapabilities, DetectorSteps, Clusters
  <2> QED
    BY <1>0, <1>2, <2>1 DEF autoDetectCapabilities
<1>3. CASE detectPlatform
  BY <1>0, <1>1, <1>3 DEF detectPlatform, DetectorSteps, Set
<1>4. CASE detectCronjobsVersion
  <2>1. PICK found \in Answers(cluster.batch) :
          /\ Counted(cluster.batch, found)
          /\ Set("cronjobs",
                 IF "batch/v1beta1" \in found THEN "batch/v1beta1"
                 ELSE IF "batch/v1" \in found THEN "batch/v1"
                 ELSE config.cronjobs)
    BY <1>4 DEF detectCronjobsVersion
  <2> QED
    BY <1>0, <1>1, <1>4, <2>1
    DEF detectCronjobsVersion, DetectorSteps, Set, Counted, BatchVersions
<1>5. CASE detectAutoscalingVersion
  <2>1. PICK found \in Answers(cluster.autoscaling) :
          /\ Counted(cluster.autoscaling, found)
          /\ Set("autoscaling",
                 IF "autoscaling/v2" \in found THEN "autoscaling/v2"
                 ELSE IF "autoscaling/v2beta2" \in found
                 THEN "autoscaling/v2beta2" ELSE config.autoscaling)
    BY <1>5 DEF detectAutoscalingVersion
  <2> QED
    BY <1>0, <1>1, <1>5, <2>1
    DEF detectAutoscalingVersion, DetectorSteps, Set, Counted
<1>6. CASE detectDefaultIngressClass
  <2>1. detector' \in [pc : DetectorSteps, firstRun : BOOLEAN,
          found : SUBSET {OpenShiftAPI, ElasticsearchAPI, KafkaAPI}]
    BY <1>6 DEF detectDefaultIngressClass, DetectorSteps
  <2>2. CASE GetPlatform = "openshift" /\ Succeeds /\ UNCHANGED config
    BY <1>0, <1>6, <2>1, <2>2 DEF detectDefaultIngressClass
  <2>3. CASE \E found \in Answers(cluster.ingressClass) :
                /\ Counted(cluster.ingressClass, found)
                /\ \/ found = {} /\ UNCHANGED config
                   \/ \E class \in found : Set("ingressClass", class)
    <3>1. PICK found \in Answers(cluster.ingressClass) :
                /\ Counted(cluster.ingressClass, found)
                /\ \/ found = {} /\ UNCHANGED config
                   \/ \E class \in found : Set("ingressClass", class)
      BY <2>3
    <3>2. found \subseteq {"nginx"}
      BY DEF Answers, Clusters
    <3> QED
      BY <1>0, <1>6, <2>1, <3>1, <3>2
      DEF detectDefaultIngressClass, Counted, Set
  <2> QED
    BY <1>6, <2>2, <2>3 DEF detectDefaultIngressClass
<1>7. CASE detectOAuthProxyImageStream
  BY <1>0, <1>1, <1>7 DEF detectOAuthProxyImageStream, DetectorSteps, Set
<1>8. CASE detectElasticsearch
  BY <1>0, <1>1, <1>8 DEF detectElasticsearch, DetectorSteps, Set
<1>9. CASE detectKafka
  BY <1>0, <1>1, <1>9 DEF detectKafka, DetectorSteps, Set
<1>10. CASE detectClusterRoles
  BY <1>0, <1>1, <1>10 DEF detectClusterRoles, DetectorSteps, Set
<1> QED
  BY <1>2, <1>3, <1>4, <1>5, <1>6, <1>7, <1>8, <1>9, <1>10 DEF Detect

(* The ticker.                                                             *)
LEMMA TickTyped ==
    ASSUME AutodetectTypeOK, Tick
    PROVE  AutodetectTypeOK'
BY DEF AutodetectTypeOK, Tick, Continue, DetectorSteps

(* A change of the cluster.                                                *)
LEMMA ClusterChangeTyped ==
    ASSUME AutodetectTypeOK, ClusterChange
    PROVE  AutodetectTypeOK'
<1>1. faults' \in 0..MaxFaults /\ events' \in 0..MaxEvents
  BY CountersTyped DEF ClusterChange
<1>2. cluster' \in Clusters
  <2>1. ASSUME NEW g \in {ElasticsearchAPI, KafkaAPI},
               cluster' = [cluster EXCEPT !.apis = Toggle(@, g)]
        PROVE  cluster' \in Clusters
    <3>1. Toggle(cluster.apis, g)
            \in SUBSET {OpenShiftAPI, ElasticsearchAPI, KafkaAPI}
      BY DEF AutodetectTypeOK, Clusters, Toggle
    <3> QED
      BY <2>1, <3>1 DEF AutodetectTypeOK, Clusters
  <2>2. CASE cluster' = [cluster EXCEPT !.delegator = ~@]
    BY <2>2 DEF AutodetectTypeOK, Clusters
  <2> QED
    BY <2>1, <2>2 DEF ClusterChange
<1> QED
  BY <1>1, <1>2 DEF AutodetectTypeOK, ClusterChange


Operators == [pc : OperatorSteps, orig : Instance, inst : Instance,
              str : Manifests]
Objects == [route : BOOLEAN, ingress : BOOLEAN, proxy : BOOLEAN,
            es : BOOLEAN, kafka : BOOLEAN,
            jobs : SUBSET AllJobs, deployments : SUBSET AllDeployments]

(* Where the operator goes is a step, and it has an instance in its hands. *)
LEMMA OperatorTyped ==
    ASSUME TypeOK
    PROVE  /\ op \in Operators /\ objs \in Objects
           /\ cr \in Instance /\ given \in Instance /\ asked \in Instance
           /\ op.pc \in OperatorSteps /\ op.orig \in Instance
           /\ op.inst \in Instance /\ op.str \in Manifests
           /\ \A step \in OperatorSteps : OperatorAt(step) \in Operators
           /\ \A step \in OperatorSteps : Goto(step) => op' \in Operators
<1>1. NoManifest \in Manifests
  BY DEF NoManifest, Manifests
<1>2. /\ op \in Operators /\ objs \in Objects
      /\ cr \in Instance /\ given \in Instance /\ asked \in Instance
  BY DEF TypeOK, Operators, Objects
<1>3. \A step \in OperatorSteps : OperatorAt(step) \in Operators
  BY <1>1, <1>2 DEF OperatorAt, Operators
<1>4. \A step \in OperatorSteps : Goto(step) => op' \in Operators
  BY <1>2 DEF Goto, Operators
<1> QED
  BY <1>2, <1>3, <1>4 DEF Operators

(* A step that leaves the detection alone keeps its types.                 *)
LEMMA DetectionTyped ==
    ASSUME TypeOK, UNCHANGED detection,
           UNCHANGED bounds \/ Succeeds \/ Fails \/ Event
    PROVE  AutodetectTypeOK'
<1>1. faults' \in 0..MaxFaults /\ events' \in 0..MaxEvents
  BY CountersTyped DEF TypeOK, bounds, Succeeds
<1> QED
  BY <1>1 DEF TypeOK, AutodetectTypeOK, detection

(* The types at the beginning.                                             *)
LEMMA TypeInit ==
    Init => TypeOK
<1> SUFFICES ASSUME Init PROVE TypeOK
  OBVIOUS
<1>1. AutodetectTypeOK
  BY DetectionStarts DEF Init
<1>2. cr \in Instance /\ given \in Instance /\ asked \in Instance
  BY ConfigurationAssumption DEF Init
<1>3. op \in Operators
  BY <1>2 DEF Init, OperatorAt, NoManifest, Manifests, Operators, OperatorSteps
<1>4. objs \in Objects
  <2>1. (cr.ver # 0 /\ ProvisionsElasticsearch(cr)) \in BOOLEAN
    BY <1>2 DEF ProvisionsElasticsearch, ShouldInject
  <2> QED
    BY <2>1 DEF Init, Objects
<1> QED
  BY <1>1, <1>2, <1>3, <1>4 DEF Init, TypeOK, Operators, Objects

(* The types, through the start of the operator.                           *)
LEMMA TypeStart ==
    ASSUME TypeOK, StartupList \/ StartupPatch \/ StartupStatusPatch
    PROVE  TypeOK'
<1>1. /\ op \in Operators /\ objs \in Objects
      /\ cr \in Instance /\ given \in Instance /\ asked \in Instance
      /\ op.orig \in Instance /\ op.inst \in Instance
      /\ OperatorAt("idle") \in Operators
  BY OperatorTyped DEF OperatorSteps
<1>2. CASE StartupList
  <2>1. AutodetectTypeOK'
    BY <1>2, DetectionTyped DEF StartupList, RemovalFails
  <2>2. op' \in Operators
    <3>1. Upgradable(cr) => ManagedInstance(cr) \in Instance
      BY <1>1, Upgrades
    <3> QED
      BY <1>1, <1>2, <3>1
      DEF StartupList, StartControllers, Operators, OperatorSteps
  <2>3. objs' \in Objects
    BY <1>1, <1>2 DEF StartupList, Objects
  <2>4. pending' \in BOOLEAN
    BY <1>2 DEF StartupList, StartControllers, TypeOK
  <2> QED
    BY <1>2, <2>1, <2>2, <2>3, <2>4
    DEF StartupList, TypeOK, Operators, Objects
<1>3. CASE StartupPatch
  <2>1. AutodetectTypeOK'
    BY <1>3, DetectionTyped DEF StartupPatch
  <2>2. op' \in Operators
    BY <1>1, <1>3 DEF StartupPatch, StartControllers, Operators, OperatorSteps
  <2>3. cr' \in Instance
    <3>1. Patched(cr, op.orig, op.inst) \in Instance
      BY <1>1, PatchedInstance DEF OnlyPatched
    <3>2. ASSUME NEW d \in Default(Patched(cr, op.orig, op.inst))
          PROVE  d \in Instance
      BY <3>1, DefaultOpts DEF OnlyOptions
    <3> QED
      BY <1>1, <1>3, <3>2 DEF StartupPatch
  <2>4. pending' \in BOOLEAN /\ astray' \in BOOLEAN
    BY <1>3 DEF StartupPatch, StartControllers, TypeOK
  <2> QED
    BY <1>1, <1>3, <2>1, <2>2, <2>3, <2>4
    DEF StartupPatch, TypeOK, Operators, Objects
<1>4. CASE StartupStatusPatch
  <2>1. AutodetectTypeOK'
    BY <1>4, DetectionTyped DEF StartupStatusPatch
  <2>2. op' \in Operators /\ pending' \in BOOLEAN
    BY <1>1, <1>4 DEF StartupStatusPatch, StartControllers
  <2>3. cr' \in Instance
    <3>1. [cr EXCEPT !.ver = op.inst.ver] \in Instance
      BY <1>1 DEF Instance
    <3> QED
      BY <1>1, <1>4, <3>1 DEF StartupStatusPatch
  <2> QED
    BY <1>1, <1>4, <2>1, <2>2, <2>3
    DEF StartupStatusPatch, TypeOK, Operators, Objects
<1> QED
  BY <1>2, <1>3, <1>4

(* The types, through the steps of a pass up to apply.                     *)
LEMMA TypeRender ==
    ASSUME TypeOK,
           ReconcileGet \/ NormalizeRest \/ newStrategy \/ CreateCronJob
    PROVE  TypeOK'
<1>1. /\ op \in Operators
      /\ cr \in Instance /\ given \in Instance /\ asked \in Instance
      /\ op.orig \in Instance /\ op.inst \in Instance /\ op.str \in Manifests
  BY OperatorTyped
<1>2. AutodetectTypeOK'
  BY DetectionTyped
  DEF ReconcileGet, NormalizeRest, newStrategy, CreateCronJob
<1>3. CASE ReconcileGet
  <2>1. normalizeSecurity(normalizeTypes(cr), GetPlatform) \in Instance
    BY <1>1, NormalParts DEF Normal
  <2>2. op' \in Operators
    BY <1>1, <1>3, <2>1
    DEF ReconcileGet, Operators, OperatorSteps, NoManifest, Manifests
  <2> QED
    BY <1>2, <1>3, <2>2 DEF ReconcileGet, TypeOK, Operators
<1>4. CASE NormalizeRest
  <2>1. normalizeStorage(normalizeSAR(op.inst, GetPlatform)) \in Instance
    BY <1>1, NormalParts DEF Normal
  <2>2. op' \in Operators
    BY <1>1, <1>4, <2>1 DEF NormalizeRest, Operators, OperatorSteps
  <2> QED
    BY <1>2, <1>4, <2>2 DEF NormalizeRest, TypeOK, Operators
<1>5. CASE newStrategy
  <2> DEFINE inst == strategyKafka(op.inst)
  <2>1. inst \in Instance
    BY <1>1, KafkaInstance
  <2>2. op' = [op EXCEPT !.pc = "cronjobs", !.inst = inst,
                         !.str = For(inst, GetPlatform)]
    BY <1>5 DEF newStrategy
  <2> HIDE DEF inst
  <2>3. For(inst, GetPlatform) \in Manifests
    BY <2>1, ForManifest
  <2>4. op' \in Operators
    BY <1>1, <2>1, <2>2, <2>3 DEF Operators, OperatorSteps
  <2> QED
    BY <1>2, <1>5, <2>4 DEF newStrategy, TypeOK, Operators
<1>6. CASE CreateCronJob
  <2>1. op' \in Operators
    <3>1. ASSUME NEW next \in AllJobs
          PROVE  [op EXCEPT !.str.jobs = @ \cup
                    {[job |-> next, version |-> CronJobsVersion]}] \in Operators
      <4>1. [job |-> next, version |-> CronJobsVersion]
               \in [job : AllJobs, version : BatchVersions]
        BY DEF CronJobsVersion, BatchVersions
      <4>2. [op.str EXCEPT !.jobs = @ \cup
               {[job |-> next, version |-> CronJobsVersion]}] \in Manifests
        BY <1>1, <4>1 DEF Manifests
      <4> QED
        BY <1>1, <4>2 DEF Operators
    <3>2. [op EXCEPT !.pc = "provision"] \in Operators
      BY <1>1 DEF Operators, OperatorSteps
    <3> QED
      BY <1>6, <3>1, <3>2 DEF CreateCronJob, Goto, AllJobs
  <2> QED
    BY <1>2, <1>6, <2>1 DEF CreateCronJob, TypeOK, Operators
<1> QED
  BY <1>3, <1>4, <1>5, <1>6


(* An operator that stops leaves the objects and the CR as they are.       *)
LEMMA TypeExit ==
    ASSUME TypeOK, Exit, Succeeds \/ Event
    PROVE  TypeOK'
<1>1. OperatorAt("detecting") \in Operators
  BY OperatorTyped DEF OperatorSteps
<1>2. faults' \in 0..MaxFaults /\ events' \in 0..MaxEvents
  BY CountersTyped DEF TypeOK
<1>3. AutodetectTypeOK'
  BY <1>2, DetectionStarts DEF TypeOK, AutodetectTypeOK, Exit
<1> QED
  BY <1>1, <1>3 DEF Exit, TypeOK, Operators

(* The types, through the stages of apply.                                 *)
LEMMA TypeApply ==
    ASSUME TypeOK,
           \/ autoProvisionElasticsearch \/ applyUpgrades
           \/ applyElasticsearches \/ applyKafkas \/ applyCronJobs
           \/ applyDeployments \/ applyExposure
    PROVE  TypeOK'
<1>1. /\ op \in Operators /\ objs \in Objects
      /\ cr \in Instance /\ given \in Instance /\ asked \in Instance
      /\ op.orig \in Instance /\ op.inst \in Instance /\ op.str \in Manifests
      /\ OperatorAt("idle") \in Operators
      /\ \A step \in OperatorSteps : Goto(step) => op' \in Operators
  BY OperatorTyped DEF OperatorSteps
<1>2. pending \in BOOLEAN /\ fresh \in BOOLEAN
  BY DEF TypeOK
<1>3. ASSUME Keep(<<cr, fresh>>), Succeeds \/ Fails,
             op' \in Operators, objs' \in Objects, pending' \in BOOLEAN
      PROVE  TypeOK'
  <2>1. AutodetectTypeOK'
    BY <1>3, DetectionTyped DEF Keep
  <2> QED
    BY <1>1, <1>2, <1>3, <2>1 DEF Keep, TypeOK, Operators, Objects
<1>4. CASE autoProvisionElasticsearch
  <2>1. CASE Exit
    BY <1>4, <2>1, TypeExit DEF autoProvisionElasticsearch
  <2>2. CASE Goto("upgrade") /\ Keep(<<cr, objs, pending>>) /\ UNCHANGED fresh
    <3>1. op' \in Operators
      BY <1>1, <2>2 DEF OperatorSteps
    <3>2. Keep(<<cr, fresh>>) /\ objs' \in Objects /\ pending' \in BOOLEAN
      BY <1>1, <1>2, <2>2 DEF Keep
    <3> QED
      BY <1>3, <1>4, <3>1, <3>2 DEF autoProvisionElasticsearch
  <2> QED
    BY <1>4, <2>1, <2>2 DEF autoProvisionElasticsearch
<1>5. CASE applyUpgrades
  <2> DEFINE due == op.inst.ver \notin {0, Latest}
             upgraded == IF due THEN ManagedInstance(op.inst) ELSE op.inst
  <2>1. upgraded \in Instance
    BY <1>1, Upgrades DEF ManagedInstance
  <2>2. [upgraded EXCEPT !.ver = Latest] \in Instance
    <3> HIDE DEF upgraded
    <3> QED
      BY <2>1, LatestAssumption DEF Instance
  <2>3. \/ op' = [op EXCEPT !.pc = "elasticsearches",
                            !.inst = [upgraded EXCEPT !.ver = Latest]]
        \/ op' = OperatorAt("idle")
    BY <1>5 DEF applyUpgrades, Requeue, Return
  <2> HIDE DEF upgraded
  <2>4. op' \in Operators
    BY <1>1, <2>2, <2>3 DEF Operators, OperatorSteps
  <2>5. objs' \in Objects
    BY <1>1, <1>5 DEF applyUpgrades, Objects
  <2> QED
    BY <1>2, <1>3, <1>5, <2>4, <2>5 DEF applyUpgrades, RemovalFails, Requeue
<1>6. CASE applyElasticsearches
  <2>1. [objs EXCEPT !.es = op.str.es] \in Objects
    BY <1>1 DEF Objects, Manifests
  <2> QED
    BY <1>1, <1>2, <1>3, <1>6, <2>1
    DEF applyElasticsearches, Stage, Requeue, Return, OperatorSteps
<1>7. CASE applyKafkas
  <2>1. [objs EXCEPT !.kafka = op.str.kafka] \in Objects
    BY <1>1 DEF Objects, Manifests
  <2> QED
    BY <1>1, <1>2, <1>3, <1>7, <2>1
    DEF applyKafkas, Stage, Requeue, Return, OperatorSteps
<1>8. CASE applyCronJobs
  <2>1. Jobs(op.str.jobs) \in SUBSET AllJobs
    BY <1>1 DEF Jobs, Manifests
  <2>2. [objs EXCEPT !.jobs = Jobs(op.str.jobs)] \in Objects
    BY <1>1, <2>1 DEF Objects
  <2>3. CASE Exit /\ Succeeds
    BY <2>3, TypeExit
  <2>4. CASE Stage(TRUE, CronJobsVersion \in cluster.batch,
                   [objs EXCEPT !.jobs = Jobs(op.str.jobs)], "deployments")
    BY <1>1, <1>2, <1>3, <2>2, <2>4
    DEF Stage, Requeue, Return, OperatorSteps
  <2> QED
    BY <1>8, <2>3, <2>4 DEF applyCronJobs
<1>9. CASE applyDeployments
  <2>1. [objs EXCEPT !.deployments = op.str.deployments,
                     !.proxy = op.str.proxy] \in Objects
    BY <1>1 DEF Objects, Manifests
  <2> QED
    BY <1>1, <1>2, <1>3, <1>9, <2>1
    DEF applyDeployments, Stage, Requeue, Return, OperatorSteps
<1>10. CASE applyExposure
  <2>1. /\ [objs EXCEPT !.route = op.str.exposure = "route"] \in Objects
        /\ [objs EXCEPT !.ingress = op.str.exposure = "ingress"] \in Objects
    BY <1>1 DEF Objects, Manifests
  <2>2. objs' \in Objects /\ op' \in Operators /\ pending' \in BOOLEAN
    BY <1>1, <1>2, <1>10, <2>1
    DEF applyExposure, Stage, Requeue, Return, OperatorSteps
  <2> QED
    BY <1>3, <1>10, <2>2 DEF applyExposure, Stage
<1> QED
  BY <1>4, <1>5, <1>6, <1>7, <1>8, <1>9, <1>10

(* The types, through the writes of a pass.                                *)
LEMMA TypeStore ==
    ASSUME TypeOK, StoreInstance \/ StoreStatus
    PROVE  TypeOK'
<1>1. /\ op \in Operators
      /\ cr \in Instance /\ given \in Instance /\ asked \in Instance
      /\ op.orig \in Instance /\ op.inst \in Instance
      /\ OperatorAt("idle") \in Operators
      /\ \A step \in OperatorSteps : Goto(step) => op' \in Operators
  BY OperatorTyped DEF OperatorSteps
<1>2. AutodetectTypeOK'
  BY DetectionTyped DEF StoreInstance, StoreStatus
<1>3. CASE StoreInstance
  <2>1. [op.inst EXCEPT !.ver = cr.ver] \in Instance
    BY <1>1 DEF Instance
  <2>2. \A d \in Default([op.inst EXCEPT !.ver = cr.ver]) : d \in Instance
    BY <2>1, DefaultOpts DEF OnlyOptions
  <2>3. cr' \in Instance /\ op' \in Operators /\ pending' \in BOOLEAN
    BY <1>1, <1>3, <2>2
    DEF StoreInstance, Write, Requeue, Return, Operators, OperatorSteps,
        Goto, TypeOK
  <2> QED
    BY <1>2, <1>3, <2>3 DEF StoreInstance, TypeOK, Operators
<1>4. CASE StoreStatus
  <2>1. [cr EXCEPT !.ver = op.inst.ver] \in Instance
    BY <1>1 DEF Instance
  <2>2. cr' \in Instance /\ op' \in Operators /\ pending' \in BOOLEAN
    BY <1>1, <1>4, <2>1 DEF StoreStatus, Write, Requeue, Return, TypeOK
  <2> QED
    BY <1>2, <1>4, <2>2 DEF StoreStatus, TypeOK, Operators
<1> QED
  BY <1>3, <1>4

(* The types, through what happens beside the operator.                    *)
LEMMA TypeSurroundings ==
    ASSUME TypeOK, Background \/ Environment \/ UserEdit \/ Crash
    PROVE  TypeOK'
<1>1. CASE Background
  <2>1. AutodetectTypeOK'
    BY <1>1, DetectTyped, TickTyped DEF Background, TypeOK
  <2> QED
    BY <1>1, <2>1 DEF Background, TypeOK
<1>2. CASE Environment
  <2>1. AutodetectTypeOK'
    BY <1>2, ClusterChangeTyped DEF Environment, TypeOK
  <2>2. objs' \in Objects
    BY <1>2, OperatorTyped DEF Environment, Objects
  <2> QED
    BY <1>2, <2>1, <2>2 DEF Environment, TypeOK, Objects
<1>3. CASE UserEdit
  <2>1. AutodetectTypeOK'
    BY <1>3, DetectionTyped DEF UserEdit
  <2>2. PICK edit \in Edits : \E spec \in Default(Edited(cr, edit)) :
          spec # cr /\ Write(spec) /\ asked' = spec
    BY <1>3 DEF UserEdit
  <2>3. PICK spec \in Default(Edited(cr, edit)) :
          spec # cr /\ Write(spec) /\ asked' = spec
    BY <2>2
  <2>4. Edited(cr, edit) \in Instance
    BY EditedInstance, ConfigurationAssumption, OperatorTyped
  <2>5. spec \in Instance
    BY <2>4, DefaultOpts DEF OnlyOptions
  <2> QED
    BY <1>3, <2>1, <2>3, <2>5 DEF UserEdit, Write, TypeOK
<1>4. CASE Crash
  BY <1>4, TypeExit DEF Crash
<1> QED
  BY <1>1, <1>2, <1>3, <1>4

(* The types, when nothing happens.                                        *)
LEMMA TypeStutters ==
    ASSUME TypeOK, UNCHANGED vars
    PROVE  TypeOK'
<1>1. AutodetectTypeOK'
  BY DetectionTyped DEF vars
<1> QED
  BY <1>1 DEF vars, TypeOK

(* Every copy of the CR, in the store and in the hands of the operator, is *)
(* an instance with each flag once, whatever normalize, the strategies,    *)
(* the routines, the patches and the webhook make of one another's result, *)
(* and the configuration holds what the detection may write.               *)
THEOREM ConfigurationTypeCorrect == Spec => []TypeOK
<1>1. Init => TypeOK
  BY TypeInit
<1>2. TypeOK /\ [Next]_vars => TypeOK'
  <2> SUFFICES ASSUME TypeOK, [Next]_vars PROVE TypeOK'
    OBVIOUS
  <2>1. CASE UNCHANGED vars
    BY <2>1, TypeStutters
  <2>2. CASE Operator
    BY <2>2, TypeStart, TypeRender, TypeApply, TypeStore
    DEF Operator, Reconcile
  <2>3. CASE Background \/ Environment \/ UserEdit \/ Crash
    BY <2>3, TypeSurroundings
  <2> QED
    BY <2>1, <2>2, <2>3 DEF Next
<1> QED
  BY <1>1, <1>2, PTL DEF Spec


-----------------------------------------------------------------------------
(* The choices of the user.                                                *)

(* The fields that are choices of the user.                                *)
SameFields(a, c) ==
    /\ c.security = a.security /\ c.deps = a.deps /\ c.cleaner = a.cleaner
    /\ c.nodes = a.nodes /\ c.ui = a.ui /\ c.provisioned = a.provisioned

(* A writer that leaves everything but the options, the version and a SAR  *)
(* that nobody chose, and among the options the servers of Elasticsearch   *)
(* and the brokers of the producer, keeps the choices.                     *)
LEMMA KeepsChoices ==
    ASSUME NEW a \in Instance, NEW c \in Instance, SameFields(a, c),
           a.sar # "nil" => c.sar = a.sar
    PROVE  /\ KeepsFields(a, c)
           /\ Named(c.opts["storage"], "es.server-urls")
                  = Named(a.opts["storage"], "es.server-urls")
              /\ Named(c.opts["collector"], "kafka.producer.brokers")
                  = Named(a.opts["collector"], "kafka.producer.brokers")
              => Keeps(a, c)
<1>1. SameFields(a, c)
  OBVIOUS
<1>2. /\ a.opts["storage"] \in SUBSET Option
      /\ c.opts["storage"] \in SUBSET Option
  BY DEF Instance, Sections
<1>3. KeepsFields(a, c)
  BY <1>1 DEF SameFields, KeepsFields, IsRestriction
<1>4. ASSUME Named(c.opts["storage"], "es.server-urls")
               = Named(a.opts["storage"], "es.server-urls"),
             Named(c.opts["collector"], "kafka.producer.brokers")
               = Named(a.opts["collector"], "kafka.producer.brokers")
      PROVE  KeepsOptions(a, c)
  <2>1. "es.server-urls" \in Names(a.opts["storage"]) <=>
          "es.server-urls" \in Names(c.opts["storage"])
    BY <1>2, <1>4, OptionNames
  <2> QED
    BY <1>1, <1>4, <2>1 DEF SameFields, KeepsOptions, Brokers
<1> QED
  BY <1>3, <1>4 DEF Keeps

(* The three writers of that kind: the routines, the webhook and a write   *)
(* of the status.                                                          *)
LEMMA WritersKeep ==
    ASSUME NEW spec \in Instance
    PROVE  /\ Upgradable(spec) => Keeps(spec, ManagedInstance(spec))
           /\ \A d \in Default(spec) : d \in Instance /\ Keeps(spec, d)
           /\ \A v \in 0..Latest :
                 /\ [spec EXCEPT !.ver = v] \in Instance
                 /\ Keeps(spec, [spec EXCEPT !.ver = v])
<1>0. "storage" \in Sections /\ "collector" \in Sections
  BY DEF Sections
<1>1. ASSUME Upgradable(spec)
      PROVE  Keeps(spec, ManagedInstance(spec))
  <2> DEFINE new == ManagedInstance(spec)
  <2>1. /\ new \in Instance
        /\ new = [spec EXCEPT !.opts = new.opts, !.nested = new.nested,
                              !.sar = new.sar, !.ver = Latest]
        /\ spec.sar # "nil" => new.sar = spec.sar
        /\ \A s \in Sections :
             \A f \in {"es.server-urls", "kafka.producer.brokers"} :
                Named(new.opts[s], f) = Named(spec.opts[s], f)
    BY <1>1, Upgrades
  <2> HIDE DEF new
  <2>2. SameFields(spec, new)
    BY <2>1 DEF SameFields, Instance
  <2>3. Keeps(spec, new)
    BY <1>0, <2>1, <2>2, KeepsChoices
  <2> QED
    BY <2>3 DEF new
<1>2. ASSUME NEW d \in Default(spec)
      PROVE  d \in Instance /\ Keeps(spec, d)
  <2>1. /\ d \in Instance
        /\ d = [spec EXCEPT !.opts = d.opts, !.nested = d.nested]
    BY DefaultOpts DEF OnlyOptions
  <2>2. SameFields(spec, d) /\ d.sar = spec.sar
    BY <2>1 DEF SameFields, Instance
  <2>3. \A s \in Sections :
          \A f \in {"es.server-urls", "kafka.producer.brokers"} :
             Named(d.opts[s], f) = Named(spec.opts[s], f)
    BY DefaultFlags
  <2> QED
    BY <1>0, <2>1, <2>2, <2>3, KeepsChoices
<1>3. ASSUME NEW v \in 0..Latest
      PROVE  /\ [spec EXCEPT !.ver = v] \in Instance
             /\ Keeps(spec, [spec EXCEPT !.ver = v])
  <2>1. [spec EXCEPT !.ver = v] \in Instance
    BY DEF Instance
  <2> DEFINE new == [spec EXCEPT !.ver = v]
  <2>2. /\ SameFields(spec, new) /\ new.sar = spec.sar
        /\ new.opts = spec.opts /\ new \in Instance
    BY <2>1 DEF SameFields, Instance
  <2> HIDE DEF new
  <2>3. Keeps(spec, new)
    BY <2>2, KeepsChoices
  <2> QED
    BY <2>1, <2>3 DEF new
<1> QED
  BY <1>1, <1>2, <1>3

(* The steps of a pass, between the read of the CR and its last write.     *)
PassSteps == {"sar", "exposure", "cronjobs", "provision", "upgrade",
              "elasticsearches", "kafkas", "applyCronJobs", "deployments",
              "expose", "store"}

(* The inductive invariant of ChoicesKept: what the passes make of their   *)
(* copy keeps the choices of the copy, and what the start patches was nil  *)
(* in the CR and still is, or is no choice.                                *)
ChoicesInv ==
    /\ KeepsFields(asked, cr)
    /\ ~astray => KeepsOptions(asked, cr)
    /\ op.pc \in PassSteps => Keeps(op.orig, op.inst)
    /\ op.pc = "startupPatch" =>
         /\ cr.sar = op.orig.sar
         /\ op.orig.sar # "nil" => op.inst.sar = op.orig.sar
         /\ \A s \in Sections :
               \A f \in {"es.server-urls", "kafka.producer.brokers"} :
                  Named(op.inst.opts[s], f) = Named(op.orig.opts[s], f)

(* The CR as it is found is the choice of the user.                        *)
LEMMA ChoicesInit ==
    Init => ChoicesInv
BY KeepsReflexive DEF Init, ChoicesInv, OperatorAt, PassSteps, Keeps

(* What a step that goes to an idle or a starting operator needs.          *)
LEMMA ChoicesIdle ==
    ASSUME ChoicesInv, Keeps(cr, cr'), UNCHANGED <<asked, astray>>,
           op'.pc \notin PassSteps, op'.pc # "startupPatch"
    PROVE  ChoicesInv'
<1>1. KeepsFields(asked', cr') /\ (~astray' => KeepsOptions(asked', cr'))
  BY KeepsTransitive DEF ChoicesInv, Keeps
<1> QED
  BY <1>1 DEF ChoicesInv

(* The start patches no SAR of the user away, and no option unless it goes *)
(* astray, even when the user edits between the list and the patch.        *)
LEMMA ChoicesStart ==
    ASSUME TypeOK, ChoicesInv,
           StartupList \/ StartupPatch \/ StartupStatusPatch
    PROVE  ChoicesInv'
<1>1. /\ op \in Operators
      /\ cr \in Instance /\ given \in Instance /\ asked \in Instance
      /\ op.orig \in Instance /\ op.inst \in Instance
  BY OperatorTyped
<1>2. StartControllers => op'.pc = "idle"
  BY DEF StartControllers, OperatorAt
<1>3. "idle" \notin PassSteps /\ "startupPatch" \notin PassSteps
      /\ "startupStatus" \notin PassSteps
  BY DEF PassSteps
<1>4. CASE StartupList
  <2>1. CASE StartControllers
    BY <1>2, <1>3, <1>4, <2>1, ChoicesIdle, KeepsReflexive DEF StartupList
  <2>2. CASE /\ Upgradable(cr)
             /\ op' = [op EXCEPT !.pc = "startupPatch", !.orig = cr,
                                 !.inst = ManagedInstance(cr)]
    <3>1. /\ op'.pc = "startupPatch" /\ op'.orig = cr
          /\ op'.inst = ManagedInstance(cr)
      BY <1>1, <2>2 DEF Operators
    <3>2. LET new == ManagedInstance(cr)
          IN  /\ cr.sar # "nil" => new.sar = cr.sar
              /\ \A s \in Sections :
                   \A f \in {"es.server-urls", "kafka.producer.brokers"} :
                      Named(new.opts[s], f) = Named(cr.opts[s], f)
      BY <1>1, <2>2, Upgrades
    <3>3. UNCHANGED <<cr, asked, astray>>
      BY <1>4 DEF StartupList
    <3> QED
      BY <1>3, <3>1, <3>2, <3>3 DEF ChoicesInv
  <2> QED
    BY <1>4, <2>1, <2>2 DEF StartupList
<1>5. CASE StartupPatch
  <2>1. CASE StartControllers /\ UNCHANGED <<cr, astray>>
    <3>1. UNCHANGED <<cr, asked, astray>>
      BY <1>5, <2>1 DEF StartupPatch
    <3>2. Keeps(cr, cr')
      BY <3>1, KeepsReflexive
    <3> QED
      BY <1>2, <1>3, <2>1, <3>1, <3>2, ChoicesIdle
  <2>2. CASE /\ cr' \in Default(Patched(cr, op.orig, op.inst))
             /\ op' = [op EXCEPT !.pc = "startupStatus"]
    <3> DEFINE p == Patched(cr, op.orig, op.inst)
    <3> HIDE DEF p
    <3>0. /\ op.pc = "startupPatch" /\ asked' = asked
          /\ astray' = (astray \/ p.opts # Merged(cr, op.orig, op.inst))
      BY <1>5, <2>2, <1>1 DEF StartupPatch, StartControllers, OperatorAt,
                              Operators, p
    <3>1. /\ OnlyPatched(cr, p)
          /\ p.sar = IF op.inst.sar # op.orig.sar THEN op.inst.sar ELSE cr.sar
          /\ ~astray' => \A s \in Sections : p.opts[s] =
                MergedOptions(cr.opts[s], op.orig.opts[s], op.inst.opts[s])
      <4>1. p = Patched(cr, op.orig, op.inst)
        BY DEF p
      <4>2. /\ OnlyPatched(cr, p)
            /\ p.sar = IF op.inst.sar # op.orig.sar THEN op.inst.sar
                       ELSE cr.sar
            /\ p.opts = Merged(cr, op.orig, op.inst) =>
                 \A s \in Sections : p.opts[s] =
                   MergedOptions(cr.opts[s], op.orig.opts[s], op.inst.opts[s])
        BY <1>1, <4>1, PatchedInstance
      <4> QED
        BY <3>0, <4>2
    <3>2. cr.sar # "nil" => p.sar = cr.sar
      BY <3>0, <3>1 DEF ChoicesInv
    <3>3. ASSUME ~astray', NEW s \in Sections,
                 NEW f \in {"es.server-urls", "kafka.producer.brokers"}
          PROVE  Named(p.opts[s], f) = Named(cr.opts[s], f)
      <4>1. Named(op.inst.opts[s], f) = Named(op.orig.opts[s], f)
        BY <3>0 DEF ChoicesInv
      <4>2. cr.opts[s] \in Options /\ op.orig.opts[s] \in Options
            /\ op.inst.opts[s] \in Options
        BY <1>1, InstanceOpts
      <4> DEFINE mine == cr.opts[s]
                 old == op.orig.opts[s]
                 new == op.inst.opts[s]
      <4>3. p.opts[s] = MergedOptions(mine, old, new)
        BY <3>1, <3>3
      <4> HIDE DEF mine, old, new
      <4>4. Named(MergedOptions(mine, old, new), f) = Named(mine, f)
        BY <4>1, <4>2, PatchOptions DEF mine, old, new
      <4> QED
        BY <4>3, <4>4 DEF mine
    <3>4. p \in Instance /\ SameFields(cr, p)
      <4>1. /\ cr \in Instance /\ p \in Instance
            /\ p = [cr EXCEPT !.sar = p.sar, !.opts = p.opts,
                              !.nested = p.nested]
        BY <1>1, <3>1 DEF OnlyPatched
      <4>2. SameFields(cr, p)
        <5> DEFINE x == p.sar
                   y == p.opts
                   z == p.nested
        <5>1. p = [cr EXCEPT !.sar = x, !.opts = y, !.nested = z]
          BY <4>1
        <5> HIDE DEF x, y, z
        <5> QED
          BY <4>1, <5>1 DEF SameFields, Instance
      <4> QED
        BY <4>1, <4>2
    <3>5. KeepsFields(cr, p) /\ (~astray' => Keeps(cr, p))
      <4>1. "storage" \in Sections /\ "collector" \in Sections
        BY DEF Sections
      <4> QED
        BY <1>1, <3>2, <3>3, <3>4, <4>1, KeepsChoices
    <3>6. Keeps(p, cr')
      BY <2>2, <3>4, WritersKeep DEF p
    <3>7. KeepsFields(cr, cr') /\ (~astray' => KeepsOptions(cr, cr'))
      BY <3>5, <3>6, KeepsTransitive DEF Keeps
    <3>8. op'.pc = "startupStatus"
      BY <1>1, <2>2 DEF Operators
    <3>9. KeepsFields(asked, cr') /\ (~astray' => KeepsOptions(asked, cr'))
      BY <3>0, <3>7, KeepsTransitive DEF ChoicesInv
    <3> QED
      BY <1>3, <3>0, <3>8, <3>9 DEF ChoicesInv
  <2> QED
    BY <1>5, <2>1, <2>2 DEF StartupPatch
<1>6. CASE StartupStatusPatch
  <2>1. op.inst.ver \in 0..Latest
    BY <1>1 DEF Instance
  <2>2. Keeps(cr, cr')
    BY <1>1, <1>6, <2>1, WritersKeep, KeepsReflexive DEF StartupStatusPatch
  <2> QED
    BY <1>2, <1>3, <1>6, <2>2, ChoicesIdle DEF StartupStatusPatch
<1> QED
  BY <1>4, <1>5, <1>6

(* A step of a pass that does not touch the CR and makes of the copy       *)
(* something that keeps its choices.                                       *)
LEMMA ChoicesPass ==
    ASSUME ChoicesInv, op.pc \in PassSteps, UNCHANGED <<cr, asked, astray>>,
           op'.orig = op.orig, Keeps(op.inst, op'.inst),
           op'.pc # "startupPatch"
    PROVE  ChoicesInv'
<1>1. Keeps(op'.orig, op'.inst)
  BY KeepsTransitive DEF ChoicesInv
<1> QED
  BY <1>1 DEF ChoicesInv

(* normalize and the provisioning of Kafka keep the choices of the copy.   *)
LEMMA ChoicesRender ==
    ASSUME TypeOK, ChoicesInv,
           ReconcileGet \/ NormalizeRest \/ newStrategy \/ CreateCronJob
    PROVE  ChoicesInv'
<1>1. /\ op \in Operators /\ cr \in Instance
      /\ op.orig \in Instance /\ op.inst \in Instance
  BY OperatorTyped
<1>2. CASE ReconcileGet
  <2> DEFINE new == normalizeSecurity(normalizeTypes(cr), GetPlatform)
  <2>1. Keeps(cr, new)
    BY <1>1, NormalParts DEF Normal
  <2>2. op'.pc = "sar" /\ op'.orig = cr /\ op'.inst = new
    BY <1>2 DEF ReconcileGet
  <2>3. UNCHANGED <<cr, asked, astray>>
    BY <1>2 DEF ReconcileGet
  <2> HIDE DEF new
  <2> QED
    BY <2>1, <2>2, <2>3 DEF ChoicesInv
<1>3. CASE NormalizeRest
  <2>1. Keeps(op.inst, normalizeStorage(normalizeSAR(op.inst, GetPlatform)))
    BY <1>1, NormalParts DEF Normal
  <2>2. /\ op'.pc = "exposure" /\ op'.orig = op.orig
        /\ op'.inst = normalizeStorage(normalizeSAR(op.inst, GetPlatform))
        /\ op.pc \in PassSteps
    BY <1>1, <1>3 DEF NormalizeRest, Operators, PassSteps
  <2> QED
    BY <1>3, <2>1, <2>2, ChoicesPass DEF NormalizeRest
<1>4. CASE newStrategy
  <2>1. Keeps(op.inst, strategyKafka(op.inst))
    BY <1>1, KafkaInstance
  <2>2. /\ op'.pc = "cronjobs" /\ op'.orig = op.orig
        /\ op'.inst = strategyKafka(op.inst)
        /\ op.pc \in PassSteps
    BY <1>1, <1>4 DEF newStrategy, Operators, PassSteps
  <2> QED
    BY <1>4, <2>1, <2>2, ChoicesPass DEF newStrategy
<1>5. CASE CreateCronJob
  <2>1. /\ op'.pc \in {"cronjobs", "provision"} /\ op'.orig = op.orig
        /\ op'.inst = op.inst /\ op.pc \in PassSteps
    BY <1>1, <1>5 DEF CreateCronJob, Goto, Operators, PassSteps
  <2> QED
    BY <1>5, <2>1, ChoicesPass, KeepsReflexive DEF CreateCronJob
<1> QED
  BY <1>2, <1>3, <1>4, <1>5

(* The routines keep the choices of the copy; the stages leave it.         *)
LEMMA ChoicesApply ==
    ASSUME TypeOK, ChoicesInv,
           \/ autoProvisionElasticsearch \/ applyUpgrades
           \/ applyElasticsearches \/ applyKafkas \/ applyCronJobs
           \/ applyDeployments \/ applyExposure
    PROVE  ChoicesInv'
<1>1. op \in Operators /\ op.inst \in Instance /\ op.pc \in OperatorSteps
  BY OperatorTyped
<1>2. UNCHANGED <<cr, asked, astray>>
  BY DEF autoProvisionElasticsearch, applyUpgrades, applyElasticsearches,
         applyKafkas, applyCronJobs, applyDeployments, applyExposure, Stage,
         Keep, Exit
<1>3. op.pc \in PassSteps
  BY DEF autoProvisionElasticsearch, applyUpgrades, applyElasticsearches,
         applyKafkas, applyCronJobs, applyDeployments, applyExposure, PassSteps
<1>4. CASE op'.pc \in {"idle", "detecting"}
  BY <1>2, <1>4, ChoicesIdle, KeepsReflexive DEF PassSteps
<1>5. CASE \E step \in PassSteps : Goto(step)
  <2>1. op'.pc \in PassSteps /\ op'.orig = op.orig /\ op'.inst = op.inst
    BY <1>1, <1>5 DEF Goto, Operators
  <2> QED
    BY <1>2, <1>3, <2>1, ChoicesPass, KeepsReflexive DEF PassSteps
<1>6. Exit \/ Return => op'.pc \in {"idle", "detecting"}
  BY DEF Exit, Return, OperatorAt
<1>7. CASE applyUpgrades
  <2> DEFINE due == op.inst.ver \notin {0, Latest}
             upgraded == IF due THEN ManagedInstance(op.inst) ELSE op.inst
  <2>1. upgraded \in Instance /\ Keeps(op.inst, upgraded)
    <3>1. CASE Upgradable(op.inst)
      BY <1>1, <3>1, Upgrades, WritersKeep, KeepsReflexive
    <3>2. CASE ~Upgradable(op.inst)
      BY <1>1, <3>2, KeepsReflexive DEF ManagedInstance
    <3> QED
      BY <3>1, <3>2
  <2>2. \/ op' = [op EXCEPT !.pc = "elasticsearches",
                            !.inst = [upgraded EXCEPT !.ver = Latest]]
        \/ Return
    BY <1>7 DEF applyUpgrades, Requeue
  <2> HIDE DEF upgraded
  <2>3. Latest \in 0..Latest
    BY LatestAssumption
  <2>4. Keeps(upgraded, [upgraded EXCEPT !.ver = Latest])
    BY <2>1, <2>3, WritersKeep
  <2>5. Keeps(op.inst, [upgraded EXCEPT !.ver = Latest])
    BY <2>1, <2>4, KeepsTransitive
  <2>6. CASE op' = [op EXCEPT !.pc = "elasticsearches",
                              !.inst = [upgraded EXCEPT !.ver = Latest]]
    <3>1. /\ op'.pc = "elasticsearches" /\ op'.orig = op.orig
          /\ op'.inst = [upgraded EXCEPT !.ver = Latest]
      BY <1>1, <2>6 DEF Operators
    <3> QED
      BY <1>2, <1>3, <2>5, <3>1, ChoicesPass
  <2> QED
    BY <1>4, <1>6, <2>2, <2>6
<1>8. CASE ~applyUpgrades
  BY <1>4, <1>5, <1>6, <1>8
  DEF autoProvisionElasticsearch, applyElasticsearches, applyKafkas,
      applyCronJobs, applyDeployments, applyExposure, Stage, Requeue, PassSteps
<1> QED
  BY <1>7, <1>8

(* A pass writes over the CR it has read, or not at all.                   *)
LEMMA ChoicesStore ==
    ASSUME TypeOK, ChoicesInv, StoreInstance \/ StoreStatus
    PROVE  ChoicesInv'
<1>1. /\ op \in Operators /\ cr \in Instance
      /\ op.orig \in Instance /\ op.inst \in Instance
      /\ cr.ver \in 0..Latest /\ op.inst.ver \in 0..Latest
  BY OperatorTyped DEF Instance
<1>2. op'.pc \in {"idle", "status"} /\ UNCHANGED <<asked, astray>>
  <2>1. Goto("status") => op'.pc = "status"
    BY <1>1 DEF Goto, Operators
  <2>2. Return \/ Requeue => op'.pc = "idle"
    BY DEF Requeue, Return, OperatorAt
  <2>3. \A spec : op' = [op EXCEPT !.pc = "status", !.orig = spec]
                    => op'.pc = "status"
    BY <1>1 DEF Operators
  <2>4. CASE StoreInstance
    BY <2>1, <2>2, <2>3, <2>4 DEF StoreInstance
  <2>5. CASE StoreStatus
    BY <2>2, <2>5 DEF StoreStatus
  <2> QED
    BY <2>4, <2>5
<1>3. Keeps(cr, cr')
  <2>1. CASE cr' = cr
    BY <2>1, KeepsReflexive
  <2>2. CASE StoreInstance /\ cr' # cr
    <3> DEFINE i == [op.inst EXCEPT !.ver = cr.ver]
    <3>1. op.pc = "store" /\ cr = op.orig /\ cr' \in Default(i)
      BY <2>2 DEF StoreInstance, Write
    <3>2. Keeps(cr, op.inst)
      BY <3>1 DEF ChoicesInv, PassSteps
    <3>3. i \in Instance /\ Keeps(op.inst, i)
      BY <1>1, WritersKeep
    <3> HIDE DEF i
    <3>4. Keeps(i, cr')
      BY <3>1, <3>3, WritersKeep
    <3> QED
      BY <3>2, <3>3, <3>4, KeepsTransitive
  <2>3. CASE StoreStatus /\ cr' # cr
    <3>1. cr' = [cr EXCEPT !.ver = op.inst.ver]
      BY <2>3 DEF StoreStatus, Write
    <3> QED
      BY <1>1, <3>1, WritersKeep
  <2> QED
    BY <2>1, <2>2, <2>3
<1> QED
  BY <1>2, <1>3, ChoicesIdle DEF PassSteps

(* An edit makes new choices; nothing else beside the operator does.       *)
LEMMA ChoicesSurroundings ==
    ASSUME TypeOK, ChoicesInv,
           Background \/ Environment \/ UserEdit \/ Crash \/ UNCHANGED vars
    PROVE  ChoicesInv'
<1>1. CASE UNCHANGED <<cr, asked, astray, op>>
  BY <1>1 DEF ChoicesInv
<1>2. CASE Crash
  <2>1. op'.pc = "detecting" /\ UNCHANGED <<cr, asked, astray>>
    BY <1>2 DEF Crash, Exit, OperatorAt
  <2> QED
    BY <2>1, ChoicesIdle, KeepsReflexive DEF PassSteps
<1>3. CASE UserEdit
  <2>1. PICK edit \in Edits : \E spec \in Default(Edited(cr, edit)) :
          spec # cr /\ Write(spec) /\ asked' = spec
    BY <1>3 DEF UserEdit
  <2>2. PICK spec \in Default(Edited(cr, edit)) :
          spec # cr /\ Write(spec) /\ asked' = spec
    BY <2>1
  <2> DEFINE e == Edited(cr, edit)
  <2>3. e \in Instance /\ cr \in Instance
        /\ e = [cr EXCEPT !.security = e.security, !.opts = e.opts,
                          !.nested = e.nested]
    BY EditedInstance, ConfigurationAssumption, OperatorTyped
  <2>4. spec = [e EXCEPT !.opts = spec.opts, !.nested = spec.nested]
    BY <2>3, DefaultOpts DEF OnlyOptions
  <2> HIDE DEF e
  <2>5. spec.sar = cr.sar
    <3>1. e.sar = cr.sar
      BY <2>3 DEF Instance
    <3>2. spec.sar = e.sar
      BY <2>3, <2>4 DEF Instance
    <3> QED
      BY <3>1, <3>2
  <2>6. cr' = spec /\ asked' = spec /\ op' = op
    BY <1>3, <2>2 DEF UserEdit, Write
  <2>7. Keeps(asked', cr')
    BY <2>6, KeepsReflexive
  <2> QED
    BY <2>5, <2>6, <2>7 DEF ChoicesInv, Keeps
<1> QED
  BY <1>1, <1>2, <1>3 DEF Background, Environment, vars

(* What the user has written explicitly - no security, a SAR, the jobs, the*)
(* nodes, a menu, servers of Elasticsearch, brokers - survives every later *)
(* pass, upgrade and default: normalize fills in only what is empty, the   *)
(* routines and autoProvisionKafka do not touch it, and a copy that was    *)
(* read before an edit is patched in (at the start) or refused (a pass).   *)
(* Servers and brokers are excepted once the merge patch of the start was  *)
(* not what the routines changed flag by flag, as it is not when it finds  *)
(* or removes nested objects; all else survives that patch as well.        *)
THEOREM ChoicesKeptHolds == Spec => []ChoicesKept
<1>1. Init => TypeOK /\ ChoicesInv
  BY TypeInit, ChoicesInit
<1>2. TypeOK /\ TypeOK' /\ ChoicesInv /\ [Next]_vars => ChoicesInv'
  <2> SUFFICES ASSUME TypeOK, ChoicesInv, [Next]_vars PROVE ChoicesInv'
    OBVIOUS
  <2> QED
    BY ChoicesStart, ChoicesRender, ChoicesApply, ChoicesStore,
       ChoicesSurroundings DEF Next, Operator, Reconcile
<1>3. ChoicesInv => ChoicesKept
  BY DEF ChoicesInv, KeepsFields, KeepsOptions, ChoicesKept, StorageKept,
         Brokers, ShouldInject
<1> QED
  BY <1>1, <1>2, <1>3, ConfigurationTypeCorrect, PTL DEF Spec


-----------------------------------------------------------------------------
(* The flags of an upgraded instance.  g is the instance that was given, f *)
(* a flag that a routine renames to h in section s.                        *)

Wanted(g, s, f, h) ==
    Texts(g.opts[s], IF h \in queryServers \cap Names(g.opts[s]) THEN h ELSE f)
IsNew(g, spec, s, f, h) ==
    /\ Texts(spec.opts[s], f) = {}
    /\ Texts(spec.opts[s], h) = Wanted(g, s, f, h)
    /\ h = "admin.http.host-port" =>
         Texts(spec.opts[s], "admin-http-port") = {}
IsOld(g, spec, s, f, h) ==
    /\ Texts(spec.opts[s], f) = Texts(g.opts[s], f)
    /\ h \in queryServers => Texts(spec.opts[s], h) = Texts(g.opts[s], h)
Affected(g, v, s, f) ==
    11 <= g.ver /\ g.ver < v /\ f \in Names(g.opts[s])

(* All flags are migrated; each flag is migrated, or the instance has its  *)
(* old version and the flag as it was.                                     *)
AllNew(g, spec) ==
    \A r \in Renamed : \A s \in r[2] :
        Affected(g, r[1], s, r[3]) => IsNew(g, spec, s, r[3], r[4])
Versioned(g, spec) == g.ver >= 11 => spec.ver \in {g.ver, Latest}
Progress(g, spec) ==
    /\ Versioned(g, spec)
    /\ \A r \in Renamed : \A s \in r[2] : Affected(g, r[1], s, r[3]) =>
          \/ IsNew(g, spec, s, r[3], r[4])
          \/ spec.ver = g.ver /\ IsOld(g, spec, s, r[3], r[4])

(* The entries of Renamed: the routines come before the latest version, in *)
(* the sections they migrate, and the flags are tracked.                   *)
LEMMA RenamedEntries ==
    ASSUME NEW r \in Renamed
    PROVE  /\ r[1] \in 15..22
           /\ r[2] \subseteq Sections
           /\ r[3] \in Tracked /\ r[3] # "es.tls.enabled"
           /\ r[4] \in Tracked
<1>1. r[1] \in 15..22
  BY DEF Renamed
<1>2. r[2] \subseteq Sections
  BY DEF Renamed, Sections
<1>3. r[3] \in Tracked /\ r[3] # "es.tls.enabled"
  BY DEF Renamed, Tracked, Watched
<1>4. r[4] \in Tracked
  BY DEF Renamed, Tracked, Watched
<1> QED
  BY <1>1, <1>2, <1>3, <1>4

(* A flag the user had given has a value to migrate.                       *)
LEMMA WantedNonempty ==
    ASSUME NEW g \in Instance, NEW s \in Sections, NEW f, NEW h,
           f \in Names(g.opts[s])
    PROVE  Wanted(g, s, f, h) # {} /\ Texts(g.opts[s], f) # {}
<1>1. g.opts[s] \in SUBSET Option
  BY DEF Instance
<1> QED
  BY <1>1, OptionNames DEF Wanted

(* Whoever only completes flags makes no progress, and undoes none.        *)
LEMMA ProgressCompletes ==
    ASSUME NEW g \in Instance, NEW a, NEW c, Completes(a, c)
    PROVE  /\ AllNew(g, a) => AllNew(g, c)
           /\ Progress(g, a) /\ c.ver = a.ver => Progress(g, c)
<1>1. ASSUME NEW r \in Renamed, NEW s \in r[2], Affected(g, r[1], s, r[3])
      PROVE  /\ IsNew(g, a, s, r[3], r[4]) => IsNew(g, c, s, r[3], r[4])
             /\ IsOld(g, a, s, r[3], r[4]) => IsOld(g, c, s, r[3], r[4])
  <2>1. s \in Sections /\ r[3] \in Tracked /\ r[3] # "es.tls.enabled"
        /\ r[4] \in Tracked
    BY RenamedEntries
  <2> DEFINE f == r[3]
             h == r[4]
  <2> HIDE DEF f, h
  <2>2. Texts(c.opts[s], f) = Texts(a.opts[s], f)
    BY <2>1 DEF Completes, Texts, f
  <2>3. Texts(a.opts[s], h) # {} \/ h # "es.tls.enabled" =>
           Texts(c.opts[s], h) = Texts(a.opts[s], h)
    <3>1. Texts(a.opts[s], h) # {} => Named(a.opts[s], h) # {}
      BY DEF Texts
    <3>2. Texts(a.opts[s], h) # {} \/ h # "es.tls.enabled" =>
            Named(c.opts[s], h) = Named(a.opts[s], h)
      BY <2>1, <3>1 DEF Completes, h
    <3> QED
      BY <3>2 DEF Texts
  <2>4. Texts(c.opts[s], "admin-http-port")
          = Texts(a.opts[s], "admin-http-port")
    <3>1. "admin-http-port" \in Tracked /\ "admin-http-port" # "es.tls.enabled"
      BY DEF Tracked, Watched
    <3> QED
      BY <2>1, <3>1 DEF Completes, Texts
  <2>5. f \in Names(g.opts[s])
    BY <1>1 DEF Affected, f
  <2>6. Wanted(g, s, f, h) # {}
    BY <2>1, <2>5, WantedNonempty
  <2>7. h \in queryServers => h # "es.tls.enabled"
    BY DEF queryServers
  <2>8. IsNew(g, a, s, f, h) => IsNew(g, c, s, f, h)
    BY <2>2, <2>3, <2>4, <2>6 DEF IsNew
  <2>9. IsOld(g, a, s, f, h) => IsOld(g, c, s, f, h)
    BY <2>2, <2>3, <2>7 DEF IsOld
  <2> QED
    BY <2>8, <2>9 DEF f, h
<1>2. AllNew(g, a) => AllNew(g, c)
  BY <1>1 DEF AllNew
<1>3. Progress(g, a) /\ c.ver = a.ver => Progress(g, c)
  BY <1>1 DEF Progress, Versioned
<1> QED
  BY <1>2, <1>3

(* Where a migration begins, and where it ends.                            *)
LEMMA ProgressEnds ==
    ASSUME NEW g \in Instance, NEW a
    PROVE  /\ Progress(g, g)
           /\ AllNew(g, a) /\ Versioned(g, a) => Progress(g, a)
           /\ Progress(g, a) /\ a.ver = Latest => AllNew(g, a)
<1>1. Progress(g, g)
  BY DEF Progress, Versioned, IsOld
<1>2. AllNew(g, a) /\ Versioned(g, a) => Progress(g, a)
  BY DEF AllNew, Progress
<1>3. ASSUME Progress(g, a), a.ver = Latest PROVE AllNew(g, a)
  <2>1. ASSUME NEW r \in Renamed, NEW s \in r[2], Affected(g, r[1], s, r[3])
        PROVE  g.ver # Latest
    <3>1. g.ver < r[1] /\ r[1] \in 15..22 /\ g.ver \in 0..Latest
      BY <2>1, RenamedEntries DEF Affected, Instance
    <3> QED
      BY <3>1, LatestAssumption
  <2> QED
    BY <1>3, <2>1 DEF Progress, AllNew
<1> QED
  BY <1>1, <1>2, <1>3

(* A routine that moves a flag, of an instance that has it or had it.      *)
LEMMA MovesNew ==
    ASSUME NEW g \in Instance, NEW a, NEW new, NEW s \in Sections,
           NEW f, NEW h, f \in Names(g.opts[s]),
           h \notin queryServers, h # "admin.http.host-port",
           IsNew(g, a, s, f, h) \/ IsOld(g, a, s, f, h),
           Moves(a.opts[s], new.opts[s], f, h)
    PROVE  IsNew(g, new, s, f, h)
<1>1. Texts(g.opts[s], f) # {} /\ Wanted(g, s, f, h) = Texts(g.opts[s], f)
  BY WantedNonempty DEF Wanted
<1> QED
  BY <1>1 DEF IsNew, IsOld, Moves

(* After the routines all flags are migrated, those that a patch without   *)
(* its version had migrated before included.                               *)
LEMMA ProgressUpgrades ==
    ASSUME NEW g \in Instance, NEW a \in Instance, Progress(g, a),
           Upgradable(a)
    PROVE  AllNew(g, ManagedInstance(a))
<1> DEFINE new == ManagedInstance(a)
<1>1. Migrates(a, new)
  BY Upgrades
<1>2. CASE a.ver = Latest
  BY <1>2, UpgradesLatest, ProgressEnds
<1>3. CASE a.ver # Latest
  <2> SUFFICES ASSUME NEW r \in Renamed, NEW s \in r[2],
                      Affected(g, r[1], s, r[3])
               PROVE  IsNew(g, new, s, r[3], r[4])
    BY DEF AllNew
  <2> HIDE DEF new
  <2>1. /\ a.ver < r[1]
        /\ IsNew(g, a, s, r[3], r[4]) \/ IsOld(g, a, s, r[3], r[4])
        /\ r[3] \in Names(g.opts[s])
    BY <1>3 DEF Progress, Versioned, Affected
  <2>2. s \in Sections
    BY RenamedEntries
  <2> DEFINE all == Sections \ {"ingress"}
             moved(v, on, f, h) == r[1] = v /\ s \in on /\ r[3] = f /\ r[4] = h
  <2>3. \/ moved(15, all, "collector.grpc.tls.client.ca",
                          "collector.grpc.tls.client-ca")
        \/ moved(15, {"collector"}, "health-check-http-port",
                                    "admin.http.host-port")
        \/ moved(15, {"query"}, "health-check-http-port", "admin-http-port")
        \/ moved(17, all, "es.tls", "es.tls.enabled")
        \/ moved(18, {"collector"}, "collector.port",
                                    "collector.tchan-server.host-port")
        \/ moved(20, all, "es.max-num-spans", "es.max-doc-count")
        \/ moved(22, {"query"}, "query.port", "query.grpc-server.host-port")
        \/ moved(22, {"query"}, "query.port", "query.http-server.host-port")
        \/ moved(22, {"agent"}, "jaeger.tags", "agent.tags")
        \/ moved(22, {"allInOne", "collector"}, "jaeger.tags",
                                                "collector.tags")
    BY DEF Renamed
  <2> DEFINE v == r[1]
             f == r[3]
             h == r[4]
  <2>4. /\ a.ver < v
        /\ IsNew(g, a, s, f, h) \/ IsOld(g, a, s, f, h)
        /\ f \in Names(g.opts[s])
    BY <2>1
  <2>5. CASE h \notin queryServers \cup {"admin.http.host-port"}
    <3>1. Moves(a.opts[s], new.opts[s], f, h)
      <4>1. s \in all
        BY <2>3, <2>5 DEF Sections
      <4>2. a.ver \in Int
        BY DEF Instance
      <4> HIDE DEF all, v, f, h
      <4> QED
        BY <1>1, <2>3, <2>4, <2>5, <4>1, <4>2
        DEF Migrates, queryServers, v, f, h, all
    <3> HIDE DEF v, f, h
    <3>2. IsNew(g, new, s, f, h)
      BY <2>2, <2>4, <2>5, <3>1, MovesNew
    <3> QED
      BY <3>2 DEF f, h
  <2>6. CASE h = "admin.http.host-port"
    <3>1. /\ v = 15 /\ s = "collector" /\ f = "health-check-http-port"
      BY <2>3, <2>6
    <3> HIDE DEF v, f, h
    <3>2. a.ver < 15 /\ a.ver < 18 /\ s \in all
      <4>1. a.ver \in Int
        BY DEF Instance
      <4> QED
        BY <2>4, <3>1, <4>1 DEF Sections
    <3>3. Texts(g.opts[s], f) # {} /\ Wanted(g, s, f, h) = Texts(g.opts[s], f)
      BY <2>2, <2>4, <2>6, WantedNonempty DEF Wanted, queryServers
    <3>4. /\ Texts(new.opts[s], "admin-http-port") = {}
          /\ Texts(new.opts[s], f) = {}
          /\ Texts(a.opts[s], f) # {} =>
               Texts(new.opts[s], h) = Texts(a.opts[s], f)
          /\ Texts(a.opts[s], f) = {}
               /\ Texts(a.opts[s], "admin-http-port") = {} =>
                  Texts(new.opts[s], h) = Texts(a.opts[s], h)
      BY <1>1, <2>6, <3>1, <3>2 DEF Migrates
    <3>5. IsNew(g, new, s, f, h)
      BY <2>4, <2>6, <3>3, <3>4 DEF IsNew, IsOld
    <3> QED
      BY <3>5 DEF f, h
  <2>7. CASE h \in queryServers
    <3>1. v = 22 /\ s = "query" /\ f = "query.port"
      BY <2>3, <2>7 DEF queryServers
    <3> HIDE DEF v, f, h
    <3>2. /\ Texts(new.opts[s], f) = {}
          /\ Texts(a.opts[s], h) # {} =>
               Texts(new.opts[s], h) = Texts(a.opts[s], h)
          /\ Texts(a.opts[s], h) = {} /\ Texts(a.opts[s], f) # {} =>
               Texts(new.opts[s], h) = Texts(a.opts[s], f)
      BY <1>1, <2>4, <2>7, <3>1 DEF Migrates
    <3>3. /\ Texts(g.opts[s], f) # {} /\ Wanted(g, s, f, h) # {}
          /\ Wanted(g, s, f, h) = IF Texts(g.opts[s], h) # {}
                                  THEN Texts(g.opts[s], h)
                                  ELSE Texts(g.opts[s], f)
      <4>1. g.opts[s] \in SUBSET Option
        BY <2>2 DEF Instance
      <4>2. h \in Names(g.opts[s]) <=> Texts(g.opts[s], h) # {}
        BY <4>1, OptionNames
      <4> QED
        BY <2>2, <2>4, <2>7, <4>2, WantedNonempty DEF Wanted
    <3>4. h # "admin.http.host-port"
      BY <2>7 DEF queryServers
    <3>5. IsNew(g, new, s, f, h)
      BY <2>4, <2>7, <3>2, <3>3, <3>4 DEF IsNew, IsOld
    <3> QED
      BY <3>5 DEF f, h
  <2> QED
    BY <2>5, <2>6, <2>7
<1> QED
  BY <1>2, <1>3

(* The patch of the start, unless it goes astray, migrates the stored CR,  *)
(* whatever the user has completed in it since it was listed.              *)
LEMMA ProgressPatched ==
    ASSUME NEW g \in Instance, NEW spec \in Instance, NEW from \in Instance,
           NEW to \in Instance, AllNew(g, to), Completes(from, spec),
           NEW p, p = Patched(spec, from, to),
           p.opts = Merged(spec, from, to)
    PROVE  AllNew(g, p)
<1> SUFFICES ASSUME NEW r \in Renamed, NEW s \in r[2],
                    Affected(g, r[1], s, r[3])
             PROVE  IsNew(g, p, s, r[3], r[4])
  BY DEF AllNew
<1>1. /\ s \in Sections /\ r[3] \in Tracked /\ r[3] # "es.tls.enabled"
      /\ r[4] \in Tracked
  BY RenamedEntries
<1> DEFINE f == r[3]
           h == r[4]
<1>2. /\ IsNew(g, to, s, f, h) /\ f \in Names(g.opts[s])
      /\ Wanted(g, s, f, h) # {}
  BY <1>1, WantedNonempty DEF AllNew, Affected
<1>3. f \in Tracked /\ f # "es.tls.enabled" /\ h \in Tracked
  BY <1>1
<1> HIDE DEF f, h
<1> DEFINE mine == spec.opts[s]
           old == from.opts[s]
           new == to.opts[s]
           merged == p.opts[s]
<1>4. p.opts[s] = MergedOptions(spec.opts[s], from.opts[s], to.opts[s])
  BY <1>1, PatchedInstance
<1>5. mine \in Options /\ old \in Options /\ new \in Options
  BY <1>1, InstanceOpts
<1>6. \A x \in Tracked : x # "es.tls.enabled" \/ Named(old, x) # {} =>
         Named(mine, x) = Named(old, x)
  BY <1>1 DEF Completes
<1>7. /\ Texts(new, f) = {}
      /\ Texts(new, h) = Wanted(g, s, f, h)
      /\ h = "admin.http.host-port" => Texts(new, "admin-http-port") = {}
  BY <1>2 DEF IsNew
<1>8. merged = MergedOptions(mine, old, new)
  BY <1>4
<1> HIDE DEF mine, old, new, merged
<1>9. /\ \A x \in Names(new) :
           (Named(old, x) # {} => Named(mine, x) = Named(old, x)) =>
              Named(merged, x) = Named(new, x)
      /\ \A x : x \notin Names(new) /\ Named(mine, x) = Named(old, x) =>
           Named(merged, x) = {}
  BY <1>5, <1>8, PatchOptions
<1>10. \A x : x \in Names(new) <=> Texts(new, x) # {}
  BY <1>5, OptionNames DEF Options
<1>11. Texts(merged, f) = {}
  BY <1>3, <1>6, <1>7, <1>9, <1>10 DEF Texts
<1>12. Texts(merged, h) = Wanted(g, s, f, h)
  <2>1. h \in Names(new)
    BY <1>2, <1>7, <1>10
  <2>2. Named(merged, h) = Named(new, h)
    BY <1>3, <1>6, <1>9, <2>1
  <2> QED
    BY <1>7, <2>2 DEF Texts
<1>13. h = "admin.http.host-port" => Texts(merged, "admin-http-port") = {}
  <2>1. "admin-http-port" \in Tracked /\ "admin-http-port" # "es.tls.enabled"
    BY DEF Tracked, Watched
  <2> QED
    BY <1>6, <1>7, <1>9, <1>10, <2>1 DEF Texts
<1>14. IsNew(g, p, s, f, h)
  BY <1>11, <1>12, <1>13 DEF IsNew, merged
<1> QED
  BY <1>14 DEF f, h


(* Instances with the same options complete each other.                    *)
LEMMA CompletesOpts ==
    ASSUME NEW a, NEW c, c.opts = a.opts
    PROVE  Completes(a, c)
BY DEF Completes

(* What applyUpgrades leaves in the copy of a pass.                        *)
LEMMA UpgradedNew ==
    ASSUME NEW g \in Instance, NEW a \in Instance, Progress(g, a)
    PROVE  LET new == IF a.ver \notin {0, Latest} THEN ManagedInstance(a)
                      ELSE a
           IN  new \in Instance /\ AllNew(g, new)
<1>1. a.ver \in 0..Latest /\ g.ver \in 0..Latest
  BY DEF Instance
<1>2. CASE g.ver < 11
  <2>1. \A new : AllNew(g, new)
    BY <1>1, <1>2 DEF AllNew, Affected
  <2> QED
    BY <2>1, Upgrades DEF ManagedInstance
<1>3. CASE g.ver >= 11 /\ a.ver = Latest
  BY <1>3, ProgressEnds
<1>4. CASE g.ver >= 11 /\ a.ver # Latest
  <2>1. a.ver = g.ver
    BY <1>4 DEF Progress, Versioned
  <2>2. Upgradable(a) /\ a.ver # 0
    BY <1>1, <1>4, <2>1, LatestAssumption DEF Upgradable
  <2> QED
    BY <1>4, <2>2, Upgrades, ProgressUpgrades
<1> QED
  BY <1>1, <1>2, <1>3, <1>4

(* The inductive invariant of FlagsMigrated: the CR has each flag migrated *)
(* or, at its old version, as it was; so has the copy of a pass until      *)
(* applyUpgrades, and then all flags migrated; what the start patches is   *)
(* migrated, and the CR still has what the patch is relative to.  It holds *)
(* as long as the patch has not gone astray.                               *)
FlagsInv ==
    /\ Progress(given, cr)
    /\ op.pc \in {"sar", "exposure", "cronjobs", "provision", "upgrade"} =>
         Progress(given, op.inst)
    /\ op.pc \in {"elasticsearches", "kafkas", "applyCronJobs", "deployments",
                  "expose", "store", "startupPatch"} =>
         op.inst.ver = Latest /\ AllNew(given, op.inst)
    /\ op.pc = "startupPatch" => Completes(op.orig, cr)
    /\ op.pc = "startupStatus" => op.inst.ver = Latest /\ AllNew(given, cr)
    /\ op.pc = "status" => op.inst.ver = Latest /\ AllNew(given, op.orig)

(* At the beginning every flag is as it was.                               *)
LEMMA FlagsInit ==
    Init => FlagsInv
<1> SUFFICES ASSUME Init PROVE FlagsInv
  OBVIOUS
<1>1. given \in Instance /\ cr = given /\ op.pc = "detecting"
  BY ConfigurationAssumption DEF Init, OperatorAt
<1> QED
  BY <1>1, ProgressEnds DEF FlagsInv

(* What a step that goes to an idle or a stopped operator needs.           *)
LEMMA FlagsIdle ==
    ASSUME Progress(given', cr'), op'.pc \in {"idle", "detecting"}
    PROVE  FlagsInv'
BY DEF FlagsInv

(* No step leads back from a patch that went astray.                       *)
LEMMA AstrayStays ==
    ASSUME astray, [Next]_vars
    PROVE  astray'
<1>1. CASE UNCHANGED vars
  BY <1>1 DEF vars
<1>2. CASE StartupList \/ StartupPatch \/ StartupStatusPatch
  BY <1>2 DEF StartupList, StartupPatch, StartupStatusPatch
<1>3. CASE Reconcile
  <2>1. UNCHANGED astray
    BY <1>3 DEF Reconcile, ReconcileGet, NormalizeRest, newStrategy,
                CreateCronJob, autoProvisionElasticsearch, applyUpgrades,
                applyElasticsearches, applyKafkas, applyCronJobs,
                applyDeployments, applyExposure, StoreInstance, StoreStatus,
                Stage, Keep, Exit
  <2> QED
    BY <2>1
<1>4. CASE Background \/ Environment \/ UserEdit \/ Crash
  BY <1>4 DEF Background, Environment, UserEdit, Crash, Exit
<1> QED
  BY <1>1, <1>2, <1>3, <1>4 DEF Next, Operator

(* The start writes the flags first and the version last.                  *)
LEMMA FlagsStart ==
    ASSUME TypeOK, FlagsInv, ~astray',
           StartupList \/ StartupPatch \/ StartupStatusPatch
    PROVE  FlagsInv'
<1>1. /\ op \in Operators
      /\ cr \in Instance /\ given \in Instance
      /\ op.orig \in Instance /\ op.inst \in Instance
  BY OperatorTyped
<1>2. StartControllers => op'.pc = "idle"
  BY DEF StartControllers, OperatorAt
<1>3. given' = given /\ Progress(given, cr)
  BY DEF StartupList, StartupPatch, StartupStatusPatch, FlagsInv
<1>4. CASE StartupList
  <2>1. CASE StartControllers
    BY <1>2, <1>3, <1>4, <2>1, FlagsIdle DEF StartupList
  <2>2. CASE /\ Upgradable(cr)
             /\ op' = [op EXCEPT !.pc = "startupPatch", !.orig = cr,
                                 !.inst = ManagedInstance(cr)]
    <3>1. /\ op'.pc = "startupPatch" /\ op'.orig = cr
          /\ op'.inst = ManagedInstance(cr)
      BY <1>1, <2>2 DEF Operators
    <3>2. /\ AllNew(given, ManagedInstance(cr))
          /\ ManagedInstance(cr).ver = Latest
      BY <1>1, <1>3, <2>2, ProgressUpgrades, Upgrades
    <3>3. cr' = cr /\ Completes(cr, cr)
      BY <1>4, CompletesOpts DEF StartupList
    <3> QED
      BY <1>3, <3>1, <3>2, <3>3 DEF FlagsInv
  <2> QED
    BY <1>4, <2>1, <2>2 DEF StartupList
<1>5. CASE StartupPatch
  <2>1. CASE StartControllers /\ UNCHANGED cr
    BY <1>2, <1>3, <2>1, FlagsIdle
  <2>2. CASE /\ cr' \in Default(Patched(cr, op.orig, op.inst))
             /\ op' = [op EXCEPT !.pc = "startupStatus"]
    <3> DEFINE p == Patched(cr, op.orig, op.inst)
    <3> HIDE DEF p
    <3>1. /\ op.inst.ver = Latest /\ AllNew(given, op.inst)
          /\ Completes(op.orig, cr)
      BY <1>5 DEF FlagsInv, StartupPatch
    <3>0. p.opts = Merged(cr, op.orig, op.inst)
      BY <1>1, <1>5, <2>2 DEF StartupPatch, StartControllers, OperatorAt,
                              Operators, p
    <3>2. AllNew(given, p)
      <4>1. p = Patched(cr, op.orig, op.inst)
        BY DEF p
      <4> QED
        BY <1>1, <3>0, <3>1, <4>1, ProgressPatched
    <3>3. OnlyPatched(cr, p)
      <4>1. p = Patched(cr, op.orig, op.inst)
        BY DEF p
      <4> QED
        BY <1>1, <4>1, PatchedInstance
    <3>4. p \in Instance /\ p.ver = cr.ver
      <4> DEFINE x == p.sar
                 y == p.opts
                 z == p.nested
      <4>1. /\ cr \in Instance /\ p \in Instance
            /\ p = [cr EXCEPT !.sar = x, !.opts = y, !.nested = z]
        BY <1>1, <3>3 DEF OnlyPatched
      <4> HIDE DEF x, y, z
      <4> QED
        BY <4>1 DEF Instance
    <3>5. cr' \in Default(p)
      BY <2>2 DEF p
    <3>6. Completes(p, cr') /\ OnlyOptions(p, cr')
      BY <3>4, <3>5, DefaultFlags, DefaultOpts
    <3>7. cr'.ver = cr.ver
      BY <3>4, <3>6 DEF OnlyOptions, Instance
    <3>8. AllNew(given, cr')
      BY <1>1, <3>2, <3>6, ProgressCompletes
    <3>9. Versioned(given, cr')
      BY <1>3, <3>7 DEF Progress, Versioned
    <3>10. Progress(given, cr')
      BY <1>1, <3>8, <3>9, ProgressEnds
    <3>11. op'.pc = "startupStatus" /\ op'.inst = op.inst
      BY <1>1, <2>2 DEF Operators
    <3> QED
      BY <1>3, <3>1, <3>8, <3>10, <3>11 DEF FlagsInv
  <2> QED
    BY <1>5, <2>1, <2>2 DEF StartupPatch
<1>6. CASE StartupStatusPatch
  <2>1. CASE cr' = cr
    BY <1>2, <1>3, <1>6, <2>1, FlagsIdle DEF StartupStatusPatch
  <2>2. CASE cr' = [cr EXCEPT !.ver = op.inst.ver]
    <3>1. op.inst.ver = Latest /\ AllNew(given, cr)
      BY <1>6 DEF FlagsInv, StartupStatusPatch
    <3>2. cr'.opts = cr.opts /\ cr'.ver = Latest
      BY <1>1, <2>2, <3>1 DEF Instance
    <3>3. AllNew(given, cr') /\ Versioned(given, cr')
      BY <1>1, <3>1, <3>2, CompletesOpts, ProgressCompletes DEF Versioned
    <3>4. Progress(given, cr')
      BY <1>1, <3>3, ProgressEnds
    <3> QED
      BY <1>2, <1>3, <1>6, <3>4, FlagsIdle DEF StartupStatusPatch
  <2> QED
    BY <1>6, <2>1, <2>2 DEF StartupStatusPatch
<1> QED
  BY <1>4, <1>5, <1>6

(* A pass does not lose a flag before applyUpgrades.                       *)
LEMMA FlagsRender ==
    ASSUME TypeOK, FlagsInv,
           ReconcileGet \/ NormalizeRest \/ newStrategy \/ CreateCronJob
    PROVE  FlagsInv'
<1>1. /\ op \in Operators /\ cr \in Instance /\ given \in Instance
      /\ op.orig \in Instance /\ op.inst \in Instance
  BY OperatorTyped
<1>2. UNCHANGED <<cr, given>> /\ Progress(given, cr)
  BY DEF ReconcileGet, NormalizeRest, newStrategy, CreateCronJob, FlagsInv
<1>3. ASSUME NEW a, NEW c, Progress(given, a), Normal(a, c)
      PROVE  Progress(given, c)
  BY <1>1, <1>3, CompletesOpts, ProgressCompletes DEF Normal
<1>4. CASE ReconcileGet
  <2> DEFINE new == normalizeSecurity(normalizeTypes(cr), GetPlatform)
  <2>1. op'.pc = "sar" /\ op'.inst = new
    BY <1>4 DEF ReconcileGet
  <2>2. Normal(cr, new)
    BY <1>1, NormalParts
  <2> HIDE DEF new
  <2> QED
    BY <1>2, <1>3, <2>1, <2>2 DEF FlagsInv
<1>5. CASE NormalizeRest
  <2> DEFINE new == normalizeStorage(normalizeSAR(op.inst, GetPlatform))
  <2>1. op'.pc = "exposure" /\ op'.inst = new /\ Progress(given, op.inst)
    BY <1>1, <1>5 DEF NormalizeRest, Operators, FlagsInv
  <2>2. Normal(op.inst, new)
    BY <1>1, NormalParts
  <2> HIDE DEF new
  <2> QED
    BY <1>2, <1>3, <2>1, <2>2 DEF FlagsInv
<1>6. CASE newStrategy
  <2> DEFINE new == strategyKafka(op.inst)
  <2>1. op'.pc = "cronjobs" /\ op'.inst = new /\ Progress(given, op.inst)
    BY <1>1, <1>6 DEF newStrategy, Operators, FlagsInv
  <2>2. Completes(op.inst, new) /\ new.ver = op.inst.ver
    BY <1>1, KafkaInstance
  <2> HIDE DEF new
  <2>3. Progress(given, new)
    BY <1>1, <2>1, <2>2, ProgressCompletes
  <2> QED
    BY <1>2, <2>1, <2>3 DEF FlagsInv
<1>7. CASE CreateCronJob
  <2>1. /\ op'.pc \in {"cronjobs", "provision"} /\ op'.inst = op.inst
        /\ Progress(given, op.inst)
    BY <1>1, <1>7 DEF CreateCronJob, Goto, Operators, FlagsInv
  <2> QED
    BY <1>2, <2>1 DEF FlagsInv
<1> QED
  BY <1>4, <1>5, <1>6, <1>7

(* After applyUpgrades all flags of the copy are migrated.                 *)
LEMMA FlagsApply ==
    ASSUME TypeOK, FlagsInv,
           \/ autoProvisionElasticsearch \/ applyUpgrades
           \/ applyElasticsearches \/ applyKafkas \/ applyCronJobs
           \/ applyDeployments \/ applyExposure
    PROVE  FlagsInv'
<1>1. op \in Operators /\ op.inst \in Instance /\ given \in Instance
  BY OperatorTyped
<1>2. UNCHANGED <<cr, given>> /\ Progress(given', cr')
  BY DEF autoProvisionElasticsearch, applyUpgrades, applyElasticsearches,
         applyKafkas, applyCronJobs, applyDeployments, applyExposure, Stage,
         Keep, Exit, FlagsInv
<1>3. CASE op'.pc \in {"idle", "detecting"}
  BY <1>2, <1>3, FlagsIdle
<1>4. Exit \/ Return => op'.pc \in {"idle", "detecting"}
  BY DEF Exit, Return, OperatorAt
<1>5. CASE autoProvisionElasticsearch
  <2>1. CASE Goto("upgrade")
    <3>1. op'.pc = "upgrade" /\ op'.inst = op.inst /\ Progress(given, op.inst)
      BY <1>1, <1>5, <2>1 DEF Goto, Operators, FlagsInv,
                              autoProvisionElasticsearch
    <3> QED
      BY <1>2, <3>1 DEF FlagsInv
  <2> QED
    BY <1>3, <1>4, <1>5, <2>1 DEF autoProvisionElasticsearch
<1>6. CASE applyUpgrades
  <2> DEFINE due == op.inst.ver \notin {0, Latest}
             upgraded == IF due THEN ManagedInstance(op.inst) ELSE op.inst
             new == [upgraded EXCEPT !.ver = Latest]
  <2>1. Progress(given, op.inst)
    BY <1>6 DEF FlagsInv, applyUpgrades
  <2>2. upgraded \in Instance /\ AllNew(given, upgraded)
    BY <1>1, <2>1, UpgradedNew
  <2>3. \/ op' = [op EXCEPT !.pc = "elasticsearches", !.inst = new]
        \/ Return
    BY <1>6 DEF applyUpgrades, Requeue
  <2> HIDE DEF upgraded
  <2>4. new.opts = upgraded.opts /\ new.ver = Latest
    BY <2>2 DEF Instance
  <2> HIDE DEF new
  <2>5. AllNew(given, new)
    BY <1>1, <2>2, <2>4, CompletesOpts, ProgressCompletes
  <2>6. CASE op' = [op EXCEPT !.pc = "elasticsearches", !.inst = new]
    <3>1. op'.pc = "elasticsearches" /\ op'.inst = new
      BY <1>1, <2>6 DEF Operators
    <3> QED
      BY <1>2, <2>4, <2>5, <3>1 DEF FlagsInv
  <2> QED
    BY <1>3, <1>4, <2>3, <2>6
<1>7. CASE applyElasticsearches \/ applyKafkas \/ applyCronJobs
             \/ applyDeployments \/ applyExposure
  <2>1. op.inst.ver = Latest /\ AllNew(given, op.inst)
    BY <1>7 DEF FlagsInv, applyElasticsearches, applyKafkas, applyCronJobs,
                applyDeployments, applyExposure
  <2>2. CASE \E step \in {"kafkas", "applyCronJobs", "deployments", "expose",
                          "store"} : Goto(step)
    <3>1. /\ op'.pc \in {"kafkas", "applyCronJobs", "deployments", "expose",
                         "store"}
          /\ op'.inst = op.inst
      BY <1>1, <2>2 DEF Goto, Operators
    <3> QED
      BY <1>2, <2>1, <3>1 DEF FlagsInv
  <2> QED
    BY <1>3, <1>4, <1>7, <2>2
    DEF applyElasticsearches, applyKafkas, applyCronJobs, applyDeployments,
        applyExposure, Stage, Requeue
<1> QED
  BY <1>5, <1>6, <1>7

(* Instances that differ in their labels only.                             *)
LEMMA SameInstances ==
    ASSUME NEW i \in Instance, NEW j \in Instance, Same(i, j)
    PROVE  /\ i.opts = j.opts /\ i.ver = j.ver /\ i.strategy = j.strategy
           /\ i.storage = j.storage /\ i.security = j.security
           /\ i.deps = j.deps /\ i.cleaner = j.cleaner
           /\ i.ingress = j.ingress /\ i.provisioned = j.provisioned
<1> DEFINE x == [i EXCEPT !.labels = {}]
           y == [j EXCEPT !.labels = {}]
<1>1. x = y
  BY DEF Same
<1>2. /\ x.opts = i.opts /\ x.ver = i.ver /\ x.strategy = i.strategy
      /\ x.storage = i.storage /\ x.security = i.security
      /\ x.deps = i.deps /\ x.cleaner = i.cleaner
      /\ x.ingress = i.ingress /\ x.provisioned = i.provisioned
  BY DEF Instance
<1>3. /\ y.opts = j.opts /\ y.ver = j.ver /\ y.strategy = j.strategy
      /\ y.storage = j.storage /\ y.security = j.security
      /\ y.deps = j.deps /\ y.cleaner = j.cleaner
      /\ y.ingress = j.ingress /\ y.provisioned = j.provisioned
  BY DEF Instance
<1> HIDE DEF x, y
<1> QED
  BY <1>1, <1>2, <1>3

(* A pass writes the flags first and the version last.                     *)
LEMMA FlagsStore ==
    ASSUME TypeOK, FlagsInv, StoreInstance \/ StoreStatus
    PROVE  FlagsInv'
<1>1. /\ op \in Operators /\ cr \in Instance /\ given \in Instance
      /\ op.orig \in Instance /\ op.inst \in Instance
  BY OperatorTyped
<1>2. given' = given /\ Progress(given, cr)
  BY DEF StoreInstance, StoreStatus, FlagsInv
<1>3. Requeue \/ Return => op'.pc = "idle"
  BY DEF Requeue, Return, OperatorAt
<1>4. CASE StoreInstance
  <2>0. op.inst.ver = Latest /\ AllNew(given, op.inst)
    BY <1>4 DEF StoreInstance, FlagsInv
  <2>1. CASE Same(op.inst, op.orig) /\ Goto("status") /\ UNCHANGED cr
    <3>1. op.orig.opts = op.inst.opts
      BY <1>1, <2>1, SameInstances
    <3>2. AllNew(given, op.orig)
      BY <1>1, <2>0, <3>1, CompletesOpts, ProgressCompletes
    <3>3. op'.pc = "status" /\ op'.inst = op.inst /\ op'.orig = op.orig
      BY <1>1, <2>1 DEF Goto, Operators
    <3> QED
      BY <1>2, <2>0, <2>1, <3>2, <3>3 DEF FlagsInv
  <2>2. CASE \E spec \in Default([op.inst EXCEPT !.ver = cr.ver]) :
               /\ Write(spec)
               /\ op' = [op EXCEPT !.pc = "status", !.orig = spec]
    <3> DEFINE i == [op.inst EXCEPT !.ver = cr.ver]
    <3>1. PICK spec \in Default(i) :
               /\ Write(spec)
               /\ op' = [op EXCEPT !.pc = "status", !.orig = spec]
      BY <2>2
    <3>2. i \in Instance /\ i.opts = op.inst.opts /\ i.ver = cr.ver
      BY <1>1 DEF Instance
    <3> HIDE DEF i
    <3>3. AllNew(given, i)
      BY <1>1, <2>0, <3>2, CompletesOpts, ProgressCompletes
    <3>4. Completes(i, spec) /\ OnlyOptions(i, spec)
      BY <3>2, DefaultFlags, DefaultOpts
    <3>5. spec.ver = cr.ver
      BY <3>2, <3>4 DEF OnlyOptions, Instance
    <3>6. AllNew(given, spec) /\ Versioned(given, spec)
      BY <1>1, <1>2, <3>3, <3>4, <3>5, ProgressCompletes
      DEF Progress, Versioned
    <3>7. Progress(given, spec)
      BY <1>1, <3>6, ProgressEnds
    <3>8. /\ op'.pc = "status" /\ op'.inst = op.inst /\ op'.orig = spec
          /\ cr' = spec
      BY <1>1, <3>1 DEF Operators, Write
    <3> QED
      BY <1>2, <2>0, <3>6, <3>7, <3>8 DEF FlagsInv
  <2>3. CASE Requeue /\ UNCHANGED cr
    BY <1>2, <1>3, <2>3, FlagsIdle
  <2> QED
    BY <1>4, <2>1, <2>2, <2>3 DEF StoreInstance
<1>5. CASE StoreStatus
  <2>1. CASE UNCHANGED cr
    BY <1>2, <1>3, <1>5, <2>1, FlagsIdle DEF StoreStatus
  <2>2. CASE cr = op.orig /\ cr' = [cr EXCEPT !.ver = op.inst.ver]
    <3>1. op.inst.ver = Latest /\ AllNew(given, cr)
      BY <1>5, <2>2 DEF FlagsInv, StoreStatus
    <3>2. cr'.opts = cr.opts /\ cr'.ver = Latest
      BY <1>1, <2>2, <3>1 DEF Instance
    <3>3. AllNew(given, cr') /\ Versioned(given, cr')
      BY <1>1, <3>1, <3>2, CompletesOpts, ProgressCompletes DEF Versioned
    <3>4. Progress(given, cr')
      BY <1>1, <3>3, ProgressEnds
    <3> QED
      BY <1>2, <1>3, <1>5, <3>4, FlagsIdle DEF StoreStatus
  <2> QED
    BY <1>5, <2>1, <2>2 DEF StoreStatus, Write
<1> QED
  BY <1>4, <1>5

(* An edit between two writes completes flags and removes none.            *)
LEMMA FlagsSurroundings ==
    ASSUME TypeOK, FlagsInv,
           Background \/ Environment \/ UserEdit \/ Crash \/ UNCHANGED vars
    PROVE  FlagsInv'
<1>1. CASE UNCHANGED <<cr, given, op>>
  BY <1>1 DEF FlagsInv
<1>2. CASE Crash
  <2>1. op'.pc = "detecting" /\ cr' = cr /\ given' = given
    BY <1>2 DEF Crash, Exit, OperatorAt
  <2> QED
    BY <2>1, FlagsIdle DEF FlagsInv
<1>3. CASE UserEdit
  <2>1. PICK edit \in Edits : \E spec \in Default(Edited(cr, edit)) :
          spec # cr /\ Write(spec) /\ asked' = spec
    BY <1>3 DEF UserEdit
  <2>2. PICK spec \in Default(Edited(cr, edit)) :
          spec # cr /\ Write(spec) /\ asked' = spec
    BY <2>1
  <2> DEFINE e == Edited(cr, edit)
  <2>3. /\ e \in Instance /\ cr \in Instance /\ given \in Instance
        /\ e = [cr EXCEPT !.security = e.security, !.opts = e.opts,
                          !.nested = e.nested]
        /\ Completes(cr, e)
    BY EditedInstance, ConfigurationAssumption, OperatorTyped
  <2>4. /\ spec = [e EXCEPT !.opts = spec.opts, !.nested = spec.nested]
        /\ Completes(e, spec)
    BY <2>3, DefaultFlags, DefaultOpts DEF OnlyOptions
  <2> HIDE DEF e
  <2>5. spec.ver = cr.ver
    <3>1. e.ver = cr.ver
      BY <2>3 DEF Instance
    <3>2. spec.ver = e.ver
      BY <2>3, <2>4 DEF Instance
    <3> QED
      BY <3>1, <3>2
  <2>6. Completes(cr, spec)
    BY <2>3, <2>4, CompletesTransitive
  <2>7. cr' = spec /\ op' = op /\ given' = given
    BY <1>3, <2>2 DEF UserEdit, Write
  <2>8. Progress(given, spec)
    BY <2>3, <2>5, <2>6, ProgressCompletes DEF FlagsInv
  <2>9. op.pc = "startupPatch" => Completes(op.orig, spec)
    BY <2>6, CompletesTransitive DEF FlagsInv
  <2>10. op.pc = "startupStatus" => AllNew(given, spec)
    BY <2>3, <2>6, ProgressCompletes DEF FlagsInv
  <2> QED
    BY <2>7, <2>8, <2>9, <2>10 DEF FlagsInv
<1> QED
  BY <1>1, <1>2, <1>3 DEF Background, Environment, vars

(* An instance never carries the version of the operator with the flags of *)
(* an older one: the routines and the patches of ManagedInstances and of   *)
(* applyUpgrades migrate every flag before the version is written, a crash *)
(* or an edit between the two writes makes the routines run again, and     *)
(* running them again on what is migrated loses no value.  It is proved of *)
(* every behaviour in which the patch of the start does flag by flag what  *)
(* the routines did, that is, in which no edit or webhook has changed how  *)
(* the options are written between the list and the patch.                 *)
THEOREM FlagsMigratedHolds == Spec => []FlagsMigrated
<1>1. Init => TypeOK /\ (astray \/ FlagsInv)
  BY TypeInit, FlagsInit
<1>2. TypeOK /\ (astray \/ FlagsInv) /\ [Next]_vars => (astray \/ FlagsInv)'
  <2> SUFFICES ASSUME TypeOK, astray \/ FlagsInv, [Next]_vars, ~astray'
               PROVE  FlagsInv'
    OBVIOUS
  <2>1. FlagsInv
    BY AstrayStays
  <2> QED
    BY <2>1, FlagsStart, FlagsRender, FlagsApply, FlagsStore,
       FlagsSurroundings DEF Next, Operator, Reconcile
<1>3. TypeOK /\ (astray \/ FlagsInv) => FlagsMigrated
  <2> SUFFICES ASSUME TypeOK, FlagsInv, cr.ver = Latest, given.ver >= 11,
                      NEW r \in Renamed, NEW s \in r[2],
                      given.ver < r[1], r[3] \in Names(given.opts[s])
               PROVE  /\ r[3] \notin Names(cr.opts[s])
                      /\ Texts(cr.opts[s], r[4]) =
                           Texts(given.opts[s],
                                 IF r[4] \in queryServers
                                               \cap Names(given.opts[s])
                                 THEN r[4] ELSE r[3])
    BY DEF FlagsMigrated
  <2>1. given \in Instance /\ cr \in Instance /\ given.ver \in 0..Latest
    BY OperatorTyped DEF Instance
  <2>2. AllNew(given, cr)
    BY <2>1, ProgressEnds DEF FlagsInv
  <2>3. Affected(given, r[1], s, r[3])
    BY <2>1 DEF Affected
  <2>4. IsNew(given, cr, s, r[3], r[4])
    BY <2>2, <2>3 DEF AllNew
  <2>5. s \in Sections
    BY RenamedEntries
  <2>6. cr.opts[s] \in SUBSET Option
    BY <2>1, <2>5 DEF Instance
  <2>7. r[3] \notin Names(cr.opts[s])
    BY <2>4, <2>6, OptionNames DEF IsNew
  <2> QED
    BY <2>4, <2>7 DEF IsNew, Wanted
<1> QED
  BY <1>1, <1>2, <1>3, ConfigurationTypeCorrect, PTL DEF Spec


-----------------------------------------------------------------------------
(* What is stored reflects what is used.                                   *)

(* The conclusion of QuietMeansNormalized, of any instance and objects.    *)
Normalized(spec, platform, es, kafka, ob) ==
    /\ spec.ver = Latest
    /\ Same(strategyKafka(normalize(spec, platform)), spec)
    /\ ob.deployments = For(spec, platform).deployments
    /\ ob.proxy = OAuthProxy(spec)
    /\ ob.jobs = CronJobs(spec)
    /\ es => ob.es = ProvisionsElasticsearch(spec)
    /\ kafka => ob.kafka = ProvisionsKafka(spec)
    /\ IF platform = "openshift" THEN ob.route = spec.ingress
       ELSE ob.ingress = spec.ingress

(* What a pass that reads one platform makes of its copy, and renders.     *)
Prepared(spec, platform) == strategyKafka(normalize(spec, platform))
Rendered(str, spec, platform) ==
    LET m == For(Prepared(spec, platform), platform)
    IN  /\ str.exposure = m.exposure /\ str.proxy = m.proxy
        /\ str.es = m.es /\ str.kafka = m.kafka
        /\ str.deployments = m.deployments
Applying == {"elasticsearches", "kafkas", "applyCronJobs", "deployments",
             "expose", "store"}

(* The inductive invariant, of a pass under which nothing has changed: o   *)
(* is the operator, c the CR, p says whether the queue holds the request.  *)
Steady(o, c, p, ob, platform, es, kafka) ==
    /\ o.pc = "idle" /\ ~p => Normalized(c, platform, es, kafka, ob)
    /\ o.pc = "sar" =>
         o.inst = normalizeSecurity(normalizeTypes(o.orig), platform)
    /\ o.pc = "exposure" => o.inst = normalize(o.orig, platform)
    /\ o.pc \in {"cronjobs", "provision", "upgrade"} =>
         o.inst = Prepared(o.orig, platform)
    /\ o.pc \in Applying /\ o.orig.ver = Latest =>
         o.inst = Prepared(o.orig, platform)
    /\ o.pc \in {"cronjobs", "provision", "upgrade"} \cup Applying =>
         Rendered(o.str, o.orig, platform)
    /\ o.pc = "cronjobs" =>
         Jobs(o.str.jobs) \subseteq CronJobs(Prepared(o.orig, platform))
    /\ o.pc \in {"provision", "upgrade"} \cup Applying =>
         Jobs(o.str.jobs) = CronJobs(Prepared(o.orig, platform))
    /\ o.pc \in Applying \ {"elasticsearches"} /\ es => ob.es = o.str.es
    /\ o.pc \in {"applyCronJobs", "deployments", "expose", "store"} /\ kafka =>
         ob.kafka = o.str.kafka
    /\ o.pc \in {"deployments", "expose", "store"} =>
         ob.jobs = Jobs(o.str.jobs)
    /\ o.pc \in {"expose", "store"} =>
         ob.deployments = o.str.deployments /\ ob.proxy = o.str.proxy
    /\ o.pc = "store" =>
         IF platform = "openshift" THEN ob.route = (o.str.exposure = "route")
         ELSE ob.ingress = (o.str.exposure = "ingress")
    /\ o.pc = "status" /\ ~p /\ o.inst.ver = o.orig.ver =>
         Normalized(o.orig, platform, es, kafka, ob)

QuietInv ==
    /\ op.pc \in PassSteps \cup {"status"} /\ ~pending => cr = op.orig
    /\ op.pc \in Applying \cup {"status"} => op.inst.ver = Latest
    /\ fresh => Steady(op, cr, pending, objs, GetPlatform,
                       IsESOperatorIntegrationEnabled,
                       IsKafkaOperatorIntegrationEnabled)

(* The strategies say what is provisioned as the stages ask for it.        *)
LEMMA ForParts ==
    ASSUME NEW spec \in Instance, NEW platform
    PROVE  LET m == For(spec, platform)
           IN  /\ m.proxy = OAuthProxy(spec)
               /\ m.es = ProvisionsElasticsearch(spec)
               /\ m.kafka = ProvisionsKafka(spec)
               /\ m.exposure = IF ~spec.ingress THEN "none"
                               ELSE IF platform = "openshift" THEN "route"
                               ELSE "ingress"
               /\ m.deployments =
                    IF spec.strategy = "allInOne" THEN {"all-in-one"}
                    ELSE IF spec.strategy = "streaming"
                    THEN {"collector", "query", "ingester"}
                    ELSE {"collector", "query"}
<1>1. CASE spec.strategy = "allInOne"
  <2>1. For(spec, platform) = newAllInOneStrategy(spec, platform)
    BY <1>1 DEF For
  <2>2. ProvisionsElasticsearch(spec) = FALSE /\ ProvisionsKafka(spec) = FALSE
    BY <1>1 DEF ProvisionsElasticsearch, ProvisionsKafka
  <2> QED
    BY <1>1, <2>1, <2>2 DEF newAllInOneStrategy, Manifest
<1>2. CASE spec.strategy = "streaming"
  <2>1. For(spec, platform) = newStreamingStrategy(spec, platform)
    BY <1>2 DEF For
  <2>2. ProvisionsElasticsearch(spec) = ShouldInject(spec)
    BY <1>2 DEF ProvisionsElasticsearch, ShouldInject
  <2> QED
    BY <1>2, <2>1, <2>2 DEF newStreamingStrategy, Manifest
<1>3. CASE spec.strategy \notin {"allInOne", "streaming"}
  <2>1. For(spec, platform) = newProductionStrategy(spec, platform)
    BY <1>3 DEF For
  <2>2. /\ ProvisionsElasticsearch(spec) = ShouldInject(spec)
        /\ ProvisionsKafka(spec) = FALSE
    BY <1>3 DEF ProvisionsElasticsearch, ShouldInject, ProvisionsKafka
  <2> QED
    BY <1>3, <2>1, <2>2 DEF newProductionStrategy, Manifest
<1> QED
  BY <1>1, <1>2, <1>3

(* Labels make no difference to what is rendered.                          *)
LEMMA SameRendered ==
    ASSUME NEW i \in Instance, NEW j \in Instance, Same(i, j), NEW platform
    PROVE  /\ For(i, platform).deployments = For(j, platform).deployments
           /\ OAuthProxy(i) = OAuthProxy(j)
           /\ ProvisionsElasticsearch(i) = ProvisionsElasticsearch(j)
           /\ ProvisionsKafka(i) = ProvisionsKafka(j)
           /\ CronJobs(i) = CronJobs(j)
<1>1. /\ i.opts = j.opts /\ i.strategy = j.strategy
      /\ i.storage = j.storage /\ i.security = j.security
      /\ i.deps = j.deps /\ i.cleaner = j.cleaner
      /\ i.provisioned = j.provisioned
  BY SameInstances
<1>2. For(i, platform).deployments = For(j, platform).deployments
  BY <1>1, ForParts
<1>3. CronJobs(i) = CronJobs(j)
  BY <1>1 DEF CronJobs, EnableRollover
<1>4. ProvisionsElasticsearch(i) = ProvisionsElasticsearch(j)
  BY <1>1 DEF ProvisionsElasticsearch, ShouldInject
<1>5. ProvisionsKafka(i) = ProvisionsKafka(j)
  BY <1>1 DEF ProvisionsKafka
<1> QED
  BY <1>1, <1>2, <1>3, <1>4, <1>5 DEF OAuthProxy

(* A pass whose copy came out as it was read has rendered the CR.          *)
LEMMA SameNormalized ==
    ASSUME NEW orig \in Instance, orig.ver = Latest, NEW platform, NEW es,
           NEW kafka, NEW str, NEW ob,
           Same(Prepared(orig, platform), orig),
           Rendered(str, orig, platform),
           ob.deployments = str.deployments, ob.proxy = str.proxy,
           ob.jobs = CronJobs(Prepared(orig, platform)),
           es => ob.es = str.es, kafka => ob.kafka = str.kafka,
           IF platform = "openshift" THEN ob.route = (str.exposure = "route")
           ELSE ob.ingress = (str.exposure = "ingress")
    PROVE  Normalized(orig, platform, es, kafka, ob)
<1> DEFINE i == Prepared(orig, platform)
<1>1. i \in Instance
  BY NormalizeNormal, KafkaInstance DEF Prepared, Normal
<1>2. /\ str.proxy = OAuthProxy(i)
      /\ str.es = ProvisionsElasticsearch(i)
      /\ str.kafka = ProvisionsKafka(i)
      /\ str.deployments = For(i, platform).deployments
      /\ str.exposure = IF ~i.ingress THEN "none"
                        ELSE IF platform = "openshift" THEN "route"
                        ELSE "ingress"
  BY <1>1, ForParts DEF Rendered
<1>3. /\ For(i, platform).deployments = For(orig, platform).deployments
      /\ OAuthProxy(i) = OAuthProxy(orig)
      /\ ProvisionsElasticsearch(i) = ProvisionsElasticsearch(orig)
      /\ ProvisionsKafka(i) = ProvisionsKafka(orig)
      /\ CronJobs(i) = CronJobs(orig)
  BY <1>1, SameRendered
<1>4. i.ingress = orig.ingress /\ orig.ingress \in BOOLEAN
  BY <1>1, SameInstances DEF Instance
<1>5. IF platform = "openshift" THEN ob.route = orig.ingress
      ELSE ob.ingress = orig.ingress
  BY <1>2, <1>4
<1>6. ob.jobs = CronJobs(orig)
  BY <1>3
<1>7. Same(strategyKafka(normalize(orig, platform)), orig)
  BY DEF Prepared
<1> HIDE DEF i
<1> QED
  BY <1>2, <1>3, <1>5, <1>6, <1>7 DEF Normalized

(* The webhook cannot undo what a pass changed: it adds a flag only to a   *)
(* section without one of its kind, and no pass removes a flag.            *)
LEMMA DefaultOfPrepared ==
    ASSUME NEW orig \in Instance, NEW platform,
           orig \in Default(Prepared(orig, platform))
    PROVE  Prepared(orig, platform) = orig
<1> DEFINE i == Prepared(orig, platform)
           n == normalize(orig, platform)
<1>1. n \in Instance /\ n.opts = orig.opts
  BY NormalizeNormal DEF Normal
<1>2. i = strategyKafka(n)
  BY DEF Prepared
<1> HIDE DEF i, n
<1>3. /\ i \in Instance
      /\ \A s \in Sections : Names(n.opts[s]) \subseteq Names(i.opts[s])
  BY <1>1, <1>2, KafkaInstance
<1>4. orig \in Default(i)
  BY DEF i
<1>5. /\ orig.opts = i.opts => orig = i
      /\ \A s \in Sections : orig.opts[s] # i.opts[s] =>
            /\ Names(i.opts[s]) \cap EnabledFlags = {}
            /\ Names(orig.opts[s]) \cap EnabledFlags # {}
  BY <1>3, <1>4, DefaultFlags
<1>6. \A s \in Sections : orig.opts[s] = i.opts[s]
  BY <1>1, <1>3, <1>5
<1>7. orig.opts = i.opts
  BY <1>3, <1>6 DEF Instance
<1> QED
  BY <1>5, <1>7 DEF i


(* The operator is not quiet before it has made a pass.                    *)
LEMMA QuietInit ==
    Init => QuietInv
BY DEF Init, OperatorAt, QuietInv, Steady, Applying, PassSteps

(* An operator that starts, or has the request in its queue, promises      *)
(* nothing.                                                                *)
LEMMA QuietIdle ==
    ASSUME \/ op'.pc \in {"detecting", "startupPatch", "startupStatus"}
           \/ op'.pc = "idle" /\ pending'
    PROVE  QuietInv'
<1>1. op'.pc \notin PassSteps \cup {"status"} /\ op'.pc \notin Applying
  BY DEF PassSteps, Applying
<1>2. \A c, ob, pl, es, kf : Steady(op', c, pending', ob, pl, es, kf)
  BY DEF Steady, Applying
<1> QED
  BY <1>1, <1>2 DEF QuietInv

(* What a step of the operator sees of the configuration.                  *)
LEMMA SeenUnchanged ==
    ASSUME UNCHANGED config
    PROVE  /\ GetPlatform' = GetPlatform
           /\ IsESOperatorIntegrationEnabled' = IsESOperatorIntegrationEnabled
           /\ IsKafkaOperatorIntegrationEnabled'
                = IsKafkaOperatorIntegrationEnabled
BY DEF GetPlatform, IsESOperatorIntegrationEnabled,
       IsKafkaOperatorIntegrationEnabled

(* The start ends with the request in the queue.                           *)
LEMMA QuietStart ==
    ASSUME TypeOK, StartupList \/ StartupPatch \/ StartupStatusPatch
    PROVE  QuietInv'
<1>1. op \in Operators
  BY OperatorTyped
<1>2. StartControllers => op'.pc = "idle" /\ pending'
  BY DEF StartControllers, OperatorAt
<1>3. CASE StartupList
  <2>1. \A i : op' = [op EXCEPT !.pc = "startupPatch", !.orig = cr, !.inst = i]
                 => op'.pc = "startupPatch"
    BY <1>1 DEF Operators
  <2> QED
    BY <1>2, <1>3, <2>1, QuietIdle DEF StartupList
<1>4. CASE StartupPatch
  <2>1. op' = [op EXCEPT !.pc = "startupStatus"] => op'.pc = "startupStatus"
    BY <1>1 DEF Operators
  <2> QED
    BY <1>2, <1>4, <2>1, QuietIdle DEF StartupPatch
<1>5. CASE StartupStatusPatch
  BY <1>2, <1>5, QuietIdle DEF StartupStatusPatch
<1> QED
  BY <1>3, <1>4, <1>5

(* Under a platform that keeps still the steps of a pass are the functions *)
(* normalize, strategyKafka, For and CronJobs.                             *)
LEMMA QuietRender ==
    ASSUME TypeOK, QuietInv,
           ReconcileGet \/ NormalizeRest \/ newStrategy \/ CreateCronJob
    PROVE  QuietInv'
<1>1. /\ op \in Operators /\ cr \in Instance
      /\ op.orig \in Instance /\ op.inst \in Instance /\ op.str \in Manifests
  BY OperatorTyped
<1> DEFINE pl == GetPlatform
           es == IsESOperatorIntegrationEnabled
           kf == IsKafkaOperatorIntegrationEnabled
<1>2. /\ pl' = pl /\ es' = es /\ kf' = kf
      /\ UNCHANGED <<cr, objs>>
  BY SeenUnchanged
  DEF ReconcileGet, NormalizeRest, newStrategy, CreateCronJob, detection
<1> HIDE DEF pl, es, kf
<1>3. CASE ReconcileGet
  <2>1. /\ op'.pc = "sar" /\ op'.orig = cr
        /\ op'.inst = normalizeSecurity(normalizeTypes(cr), pl)
    BY <1>3 DEF ReconcileGet, pl
  <2>2. Steady(op', cr', pending', objs', pl', es', kf')
    BY <1>2, <2>1 DEF Steady, Applying
  <2> QED
    BY <1>2, <2>1, <2>2 DEF QuietInv, Applying, pl, es, kf
<1>4. CASE NormalizeRest
  <2>1. /\ op'.pc = "exposure" /\ op'.orig = op.orig /\ op.pc = "sar"
        /\ op'.inst = normalizeStorage(normalizeSAR(op.inst, pl))
        /\ fresh' = fresh /\ pending' = pending
    BY <1>1, <1>4 DEF NormalizeRest, Operators, pl
  <2>2. ASSUME fresh
        PROVE  Steady(op', cr', pending', objs', pl', es', kf')
    <3>1. op.inst = normalizeSecurity(normalizeTypes(op.orig), pl)
      BY <2>1, <2>2 DEF QuietInv, Steady, pl
    <3>2. op'.inst = normalize(op'.orig, pl)
      BY <2>1, <3>1 DEF normalize
    <3> QED
      BY <1>2, <2>1, <3>2 DEF Steady, Applying
  <2>3. ~pending => cr = op.orig
    BY <2>1 DEF QuietInv, PassSteps
  <2> QED
    BY <1>2, <2>1, <2>2, <2>3 DEF QuietInv, Applying, pl, es, kf
<1>5. CASE newStrategy
  <2> DEFINE inst == strategyKafka(op.inst)
  <2>1. /\ op' = [op EXCEPT !.pc = "cronjobs", !.inst = inst,
                            !.str = For(inst, pl)]
        /\ op.pc = "exposure" /\ fresh' = fresh /\ pending' = pending
    BY <1>5 DEF newStrategy, pl
  <2>2. inst \in Instance
    BY <1>1, KafkaInstance
  <2> HIDE DEF inst
  <2>3. /\ op'.pc = "cronjobs" /\ op'.orig = op.orig /\ op'.inst = inst
        /\ op'.str = For(inst, pl)
    BY <1>1, <2>1 DEF Operators
  <2>4. For(inst, pl).jobs = {}
    BY <2>2, ForManifest
  <2>5. ASSUME fresh
        PROVE  Steady(op', cr', pending', objs', pl', es', kf')
    <3>1. op.inst = normalize(op.orig, pl)
      BY <2>1, <2>5 DEF QuietInv, Steady, pl
    <3>2. inst = Prepared(op.orig, pl)
      BY <3>1 DEF Prepared, inst
    <3>3. Rendered(op'.str, op'.orig, pl) /\ Jobs(op'.str.jobs) = {}
      BY <2>3, <2>4, <3>2 DEF Rendered, Jobs
    <3> QED
      BY <1>2, <2>3, <3>2, <3>3 DEF Steady, Applying
  <2>6. ~pending => cr = op.orig
    BY <2>1 DEF QuietInv, PassSteps
  <2> QED
    BY <1>2, <2>1, <2>3, <2>5, <2>6 DEF QuietInv, Applying, pl, es, kf
<1>6. CASE CreateCronJob
  <2> DEFINE jobs == op.str.jobs
             missing == CronJobs(op.inst) \ Jobs(jobs)
             next == IF "spark" \in missing THEN "spark"
                     ELSE IF "cleaner" \in missing THEN "cleaner"
                     ELSE "rollover"
             job == [job |-> next, version |-> CronJobsVersion]
  <2>1. /\ op.pc = "cronjobs" /\ fresh' = fresh /\ pending' = pending
        /\ IF missing = {} THEN op' = [op EXCEPT !.pc = "provision"]
           ELSE op' = [op EXCEPT !.str.jobs = @ \cup {job}]
    BY <1>6 DEF CreateCronJob, Goto
  <2>2. missing # {} => next \in missing
    BY DEF CronJobs, AllJobs
  <2>3. job.job = next
    OBVIOUS
  <2> HIDE DEF missing, next, job
  <2>4. /\ op'.orig = op.orig /\ op'.inst = op.inst
        /\ op'.str.exposure = op.str.exposure /\ op'.str.proxy = op.str.proxy
        /\ op'.str.es = op.str.es /\ op'.str.kafka = op.str.kafka
        /\ op'.str.deployments = op.str.deployments
        /\ missing = {} => op'.pc = "provision" /\ op'.str.jobs = jobs
        /\ missing # {} => op'.pc = "cronjobs" /\ op'.str.jobs = jobs \cup {job}
    <3>1. CASE missing = {}
      BY <1>1, <2>1, <3>1 DEF Operators
    <3>2. CASE missing # {}
      BY <1>1, <2>1, <3>2 DEF Operators, Manifests
    <3> QED
      BY <3>1, <3>2
  <2>5. ASSUME fresh
        PROVE  Steady(op', cr', pending', objs', pl', es', kf')
    <3>1. /\ op.inst = Prepared(op.orig, pl)
          /\ Rendered(op.str, op.orig, pl)
          /\ Jobs(jobs) \subseteq CronJobs(op.inst)
      BY <2>1, <2>5 DEF QuietInv, Steady, pl
    <3>2. Rendered(op'.str, op'.orig, pl)
      BY <2>4, <3>1 DEF Rendered
    <3>3. CASE missing = {}
      <4>1. Jobs(op'.str.jobs) = CronJobs(op.inst)
        BY <2>4, <3>1, <3>3 DEF missing
      <4> QED
        BY <1>2, <2>4, <3>1, <3>2, <3>3, <4>1 DEF Steady, Applying
    <3>4. CASE missing # {}
      <4>1. Jobs(op'.str.jobs) = Jobs(jobs) \cup {next}
        BY <2>3, <2>4, <3>4 DEF Jobs
      <4>2. Jobs(op'.str.jobs) \subseteq CronJobs(op.inst)
        BY <2>2, <3>1, <3>4, <4>1 DEF missing
      <4> QED
        BY <1>2, <2>4, <3>1, <3>2, <3>4, <4>2 DEF Steady, Applying
    <3> QED
      BY <3>3, <3>4
  <2>6. ~pending => cr = op.orig
    BY <2>1 DEF QuietInv, PassSteps
  <2>7. op'.pc \in {"cronjobs", "provision"}
    BY <2>4
  <2> QED
    BY <1>2, <2>1, <2>4, <2>5, <2>6, <2>7 DEF QuietInv, Applying, pl, es, kf
<1> QED
  BY <1>3, <1>4, <1>5, <1>6


(* A pass that goes on without touching its copy, the manifests or the CR. *)
LEMMA QuietGoes ==
    ASSUME TypeOK, QuietInv, UNCHANGED <<cr, config, fresh, pending>>,
           NEW step \in PassSteps, Goto(step), op.pc \in PassSteps,
           step \in Applying => op.pc \in Applying,
           fresh => Steady(op', cr', pending', objs', GetPlatform',
                           IsESOperatorIntegrationEnabled',
                           IsKafkaOperatorIntegrationEnabled')
    PROVE  QuietInv'
<1>1. op'.pc = step /\ op'.orig = op.orig /\ op'.inst = op.inst
  BY OperatorTyped DEF Goto, Operators
<1>2. op'.pc # "status"
  BY <1>1 DEF PassSteps
<1> QED
  BY <1>1, <1>2 DEF QuietInv

(* A stage brings its objects to the manifests, or the pass ends with the  *)
(* request in the queue.                                                   *)
LEMMA QuietApply ==
    ASSUME TypeOK, QuietInv,
           \/ autoProvisionElasticsearch \/ applyUpgrades
           \/ applyElasticsearches \/ applyKafkas \/ applyCronJobs
           \/ applyDeployments \/ applyExposure
    PROVE  QuietInv'
<1>1. /\ op \in Operators /\ op.inst \in Instance /\ op.orig \in Instance
      /\ objs \in Objects
  BY OperatorTyped
<1>2. CASE Exit \/ Requeue
  <2>1. \/ op'.pc = "detecting"
        \/ op'.pc = "idle" /\ pending'
    BY <1>2 DEF Exit, Requeue, Return, OperatorAt
  <2> QED
    BY <2>1, QuietIdle
<1> DEFINE pl == GetPlatform
           es == IsESOperatorIntegrationEnabled
           kf == IsKafkaOperatorIntegrationEnabled
<1>3. ASSUME Keep(cr)
      PROVE  pl' = pl /\ es' = es /\ kf' = kf /\ UNCHANGED <<cr, config>>
  BY <1>3, SeenUnchanged DEF Keep, detection
<1>4. ASSUME NEW step, Goto(step)
      PROVE  /\ op'.pc = step /\ op'.orig = op.orig /\ op'.inst = op.inst
             /\ op'.str = op.str
  BY <1>1, <1>4 DEF Goto, Operators
<1>5. fresh => Steady(op, cr, pending, objs, pl, es, kf)
  BY DEF QuietInv
<1>6. {"upgrade", "elasticsearches", "kafkas", "applyCronJobs", "deployments",
       "expose", "store", "provision"} \subseteq PassSteps
  BY DEF PassSteps
<1> HIDE DEF pl, es, kf
<1>7. CASE autoProvisionElasticsearch
  <2>1. CASE Goto("upgrade") /\ Keep(<<cr, objs, pending>>) /\ UNCHANGED fresh
    <3>1. /\ op.pc = "provision" /\ Keep(cr)
          /\ UNCHANGED <<cr, objs, pending, fresh>>
      BY <1>7, <2>1 DEF autoProvisionElasticsearch, Keep
    <3>2. fresh => Steady(op', cr', pending', objs', pl', es', kf')
      BY <1>3, <1>4, <1>5, <2>1, <3>1 DEF Steady, Applying
    <3>3. "upgrade" \notin Applying
      BY DEF Applying
    <3> QED
      BY <1>3, <1>6, <2>1, <3>1, <3>2, <3>3, QuietGoes DEF pl, es, kf
  <2> QED
    BY <1>2, <1>7, <2>1 DEF autoProvisionElasticsearch
<1>8. CASE applyUpgrades
  <2> DEFINE due == op.inst.ver \notin {0, Latest}
             upgraded == IF due THEN ManagedInstance(op.inst) ELSE op.inst
             new == [upgraded EXCEPT !.ver = Latest]
  <2>1. upgraded \in Instance
    BY <1>1, Upgrades DEF ManagedInstance
  <2>2. op.inst.ver = Latest => upgraded = op.inst
    OBVIOUS
  <2>3. CASE /\ op' = [op EXCEPT !.pc = "elasticsearches", !.inst = new]
             /\ UNCHANGED pending
    <3> HIDE DEF upgraded
    <3>1. new.ver = Latest /\ (op.inst.ver = Latest => new = op.inst)
      BY <1>1, <2>1, <2>2 DEF Instance
    <3> HIDE DEF new
    <3>2. /\ op'.pc = "elasticsearches" /\ op'.inst = new
          /\ op'.orig = op.orig /\ op'.str = op.str
      BY <1>1, <2>3 DEF Operators
    <3>3. op.pc = "upgrade" /\ Keep(cr) /\ fresh' = fresh
      BY <1>8 DEF applyUpgrades, Keep
    <3>4. ASSUME fresh
          PROVE  Steady(op', cr', pending', objs', pl', es', kf')
      <4>1. op.inst = Prepared(op.orig, pl)
        BY <1>5, <3>3, <3>4 DEF Steady
      <4>2. op.inst.ver = op.orig.ver
        <5>1. LET n == normalize(op.orig, pl)
              IN  n \in Instance /\ n.ver = op.orig.ver
          BY <1>1, NormalizeNormal DEF Normal
        <5> QED
          BY <4>1, <5>1, KafkaInstance DEF Prepared
      <4>3. /\ Rendered(op.str, op.orig, pl)
            /\ Jobs(op.str.jobs) = CronJobs(Prepared(op.orig, pl))
        BY <1>5, <3>3, <3>4 DEF Steady
      <4> QED
        BY <1>3, <3>1, <3>2, <3>3, <4>1, <4>2, <4>3 DEF Steady, Applying
    <3>5. ~pending => cr = op.orig
      BY <3>3 DEF QuietInv, PassSteps
    <3> QED
      BY <1>3, <2>3, <3>1, <3>2, <3>3, <3>4, <3>5 DEF QuietInv, pl, es, kf
  <2> QED
    BY <1>2, <1>8, <2>3 DEF applyUpgrades
<1>9. CASE applyElasticsearches
  <2>1. op.pc = "elasticsearches" /\ Keep(cr) /\ fresh' = fresh
    BY <1>9 DEF applyElasticsearches, Stage, Keep
  <2>2. CASE Goto("kafkas") /\ UNCHANGED pending
               /\ ((objs' = objs /\ ~es)
                   \/ objs' = [objs EXCEPT !.es = op.str.es])
    <3>1. es => objs'.es = op.str.es
      BY <1>1, <2>2 DEF Objects
    <3>2. fresh => Steady(op', cr', pending', objs', pl', es', kf')
      BY <1>3, <1>4, <1>5, <2>1, <2>2, <3>1 DEF Steady, Applying
    <3> QED
      BY <1>3, <1>6, <2>1, <2>2, <3>2, QuietGoes DEF Applying, pl, es, kf
  <2> QED
    BY <1>2, <1>9, <2>2 DEF applyElasticsearches, Stage, es
<1>10. CASE applyKafkas
  <2>1. op.pc = "kafkas" /\ Keep(cr) /\ fresh' = fresh
    BY <1>10 DEF applyKafkas, Stage, Keep
  <2>2. CASE Goto("applyCronJobs") /\ UNCHANGED pending
               /\ ((objs' = objs /\ ~kf)
                   \/ objs' = [objs EXCEPT !.kafka = op.str.kafka])
    <3>1. (kf => objs'.kafka = op.str.kafka) /\ objs'.es = objs.es
      BY <1>1, <2>2 DEF Objects
    <3>2. fresh => Steady(op', cr', pending', objs', pl', es', kf')
      BY <1>3, <1>4, <1>5, <2>1, <2>2, <3>1 DEF Steady, Applying
    <3> QED
      BY <1>3, <1>6, <2>1, <2>2, <3>2, QuietGoes DEF Applying, pl, es, kf
  <2> QED
    BY <1>2, <1>10, <2>2 DEF applyKafkas, Stage, kf
<1>11. CASE applyCronJobs
  <2>1. CASE ~Exit
    <3>1. /\ op.pc = "applyCronJobs"
          /\ Stage(TRUE, CronJobsVersion \in cluster.batch,
                   [objs EXCEPT !.jobs = Jobs(op.str.jobs)], "deployments")
      BY <1>11, <2>1 DEF applyCronJobs
    <3>2. Keep(cr) /\ fresh' = fresh
      BY <3>1 DEF Stage, Keep
    <3>3. CASE Goto("deployments") /\ UNCHANGED pending
                 /\ objs' = [objs EXCEPT !.jobs = Jobs(op.str.jobs)]
      <4>1. /\ objs'.jobs = Jobs(op.str.jobs)
            /\ objs'.es = objs.es /\ objs'.kafka = objs.kafka
        BY <1>1, <3>3 DEF Objects
      <4>2. fresh => Steady(op', cr', pending', objs', pl', es', kf')
        BY <1>3, <1>4, <1>5, <3>1, <3>2, <3>3, <4>1 DEF Steady, Applying
      <4> QED
        BY <1>3, <1>6, <3>1, <3>2, <3>3, <4>2, QuietGoes
        DEF Applying, pl, es, kf
    <3> QED
      BY <1>2, <3>1, <3>3 DEF Stage
  <2> QED
    BY <1>2, <2>1
<1>12. CASE applyDeployments
  <2>1. op.pc = "deployments" /\ Keep(cr) /\ fresh' = fresh
    BY <1>12 DEF applyDeployments, Stage, Keep
  <2>2. CASE Goto("expose") /\ UNCHANGED pending
               /\ objs' = [objs EXCEPT !.deployments = op.str.deployments,
                                       !.proxy = op.str.proxy]
    <3>1. /\ objs'.deployments = op.str.deployments
          /\ objs'.proxy = op.str.proxy
          /\ objs'.es = objs.es /\ objs'.kafka = objs.kafka
          /\ objs'.jobs = objs.jobs
      BY <1>1, <2>2 DEF Objects
    <3>2. fresh => Steady(op', cr', pending', objs', pl', es', kf')
      BY <1>3, <1>4, <1>5, <2>1, <2>2, <3>1 DEF Steady, Applying
    <3> QED
      BY <1>3, <1>6, <2>1, <2>2, <3>2, QuietGoes DEF Applying, pl, es, kf
  <2> QED
    BY <1>2, <1>12, <2>2 DEF applyDeployments, Stage
<1>13. CASE applyExposure
  <2>1. op.pc = "expose" /\ Keep(cr) /\ fresh' = fresh
    BY <1>13 DEF applyExposure, Stage, Keep
  <2>2. CASE Goto("store") /\ UNCHANGED pending
               /\ objs' = IF pl = "openshift"
                          THEN [objs EXCEPT !.route = op.str.exposure = "route"]
                          ELSE [objs EXCEPT
                                  !.ingress = op.str.exposure = "ingress"]
    <3>1. /\ IF pl = "openshift" THEN objs'.route = (op.str.exposure = "route")
             ELSE objs'.ingress = (op.str.exposure = "ingress")
          /\ objs'.es = objs.es /\ objs'.kafka = objs.kafka
          /\ objs'.jobs = objs.jobs /\ objs'.deployments = objs.deployments
          /\ objs'.proxy = objs.proxy
      BY <1>1, <2>2 DEF Objects
    <3>2. fresh => Steady(op', cr', pending', objs', pl', es', kf')
      BY <1>3, <1>4, <1>5, <2>1, <2>2, <3>1 DEF Steady, Applying
    <3> QED
      BY <1>3, <1>6, <2>1, <2>2, <3>2, QuietGoes DEF Applying, pl, es, kf
  <2> QED
    BY <1>2, <1>13, <2>2 DEF applyExposure, Stage, pl
<1> QED
  BY <1>7, <1>8, <1>9, <1>10, <1>11, <1>12, <1>13

(* A pass that writes nothing has rendered the CR; one that writes brings  *)
(* the request back, because the webhook cannot undo the difference.       *)
LEMMA QuietStore ==
    ASSUME TypeOK, QuietInv, StoreInstance \/ StoreStatus
    PROVE  QuietInv'
<1>1. /\ op \in Operators /\ cr \in Instance
      /\ op.orig \in Instance /\ op.inst \in Instance
      /\ pending \in BOOLEAN
  BY OperatorTyped DEF TypeOK
<1> DEFINE pl == GetPlatform
           es == IsESOperatorIntegrationEnabled
           kf == IsKafkaOperatorIntegrationEnabled
<1>2. /\ pl' = pl /\ es' = es /\ kf' = kf
      /\ UNCHANGED <<objs, fresh>>
  BY SeenUnchanged DEF StoreInstance, StoreStatus, detection
<1>3. fresh => Steady(op, cr, pending, objs, pl, es, kf)
  BY DEF QuietInv
<1> HIDE DEF pl, es, kf
<1>4. CASE Requeue
  <2>1. op'.pc = "idle" /\ pending'
    BY <1>4 DEF Requeue, Return, OperatorAt
  <2> QED
    BY <2>1, QuietIdle
<1>5. CASE StoreInstance
  <2>0. op.pc = "store" /\ op.inst.ver = Latest /\ (~pending => cr = op.orig)
    BY <1>5 DEF StoreInstance, QuietInv, Applying, PassSteps
  <2>1. ASSUME fresh, op.orig.ver = Latest, Same(op.inst, op.orig)
        PROVE  Normalized(op.orig, pl, es, kf, objs)
    <3>1. /\ op.inst = Prepared(op.orig, pl)
          /\ Rendered(op.str, op.orig, pl)
          /\ objs.jobs = CronJobs(Prepared(op.orig, pl))
          /\ objs.deployments = op.str.deployments
          /\ objs.proxy = op.str.proxy
          /\ es => objs.es = op.str.es
          /\ kf => objs.kafka = op.str.kafka
          /\ IF pl = "openshift" THEN objs.route = (op.str.exposure = "route")
             ELSE objs.ingress = (op.str.exposure = "ingress")
      BY <1>3, <2>0, <2>1 DEF Steady, Applying
    <3> QED
      BY <1>1, <2>1, <3>1, SameNormalized
  <2>2. CASE /\ Same(op.inst, op.orig) /\ Goto("status")
             /\ UNCHANGED <<cr, pending>>
    <3>1. op'.pc = "status" /\ op'.inst = op.inst /\ op'.orig = op.orig
      BY <1>1, <2>2 DEF Goto, Operators
    <3>2. op.orig.ver = Latest
      BY <1>1, <2>0, <2>2, SameInstances
    <3>3. fresh => Steady(op', cr', pending', objs', pl', es', kf')
      BY <1>2, <2>1, <2>2, <3>1, <3>2 DEF Steady, Applying
    <3> QED
      BY <1>2, <2>0, <2>2, <3>1, <3>3 DEF QuietInv, pl, es, kf
  <2>3. CASE /\ ~Same(op.inst, op.orig) /\ cr = op.orig
             /\ \E spec \in Default([op.inst EXCEPT !.ver = cr.ver]) :
                   /\ Write(spec)
                   /\ op' = [op EXCEPT !.pc = "status", !.orig = spec]
    <3>1. PICK spec \in Default([op.inst EXCEPT !.ver = cr.ver]) :
                   /\ Write(spec)
                   /\ op' = [op EXCEPT !.pc = "status", !.orig = spec]
      BY <2>3
    <3>2. /\ op'.pc = "status" /\ op'.inst = op.inst /\ op'.orig = spec
          /\ cr' = spec /\ pending' = (pending \/ spec # cr)
      BY <1>1, <3>1 DEF Operators, Write
    <3>3. ASSUME fresh, ~pending', op.inst.ver = spec.ver
          PROVE  FALSE
      <4>1. spec = op.orig /\ op.orig.ver = Latest
        BY <2>0, <2>3, <3>2, <3>3
      <4>2. op.inst = Prepared(op.orig, pl)
        BY <1>3, <2>0, <3>3, <4>1 DEF Steady, Applying
      <4>3. [op.inst EXCEPT !.ver = cr.ver] = op.inst
        BY <1>1, <2>0, <2>3, <4>1 DEF Instance
      <4>4. op.orig \in Default(Prepared(op.orig, pl))
        BY <3>1, <4>1, <4>2, <4>3
      <4>5. op.inst = op.orig
        BY <1>1, <4>2, <4>4, DefaultOfPrepared
      <4> QED
        BY <2>3, <4>5 DEF Same
    <3>4. fresh => Steady(op', cr', pending', objs', pl', es', kf')
      BY <1>2, <3>2, <3>3 DEF Steady, Applying
    <3> QED
      BY <1>2, <2>0, <3>2, <3>4 DEF QuietInv, pl, es, kf
  <2> QED
    BY <1>4, <1>5, <2>2, <2>3 DEF StoreInstance
<1>6. CASE StoreStatus
  <2>0. op.pc = "status" /\ (~pending => cr = op.orig)
    BY <1>6 DEF StoreStatus, QuietInv
  <2>1. CASE op.inst.ver = op.orig.ver /\ Return /\ UNCHANGED <<cr, pending>>
    <3>1. op'.pc = "idle"
      BY <2>1 DEF Return, OperatorAt
    <3>2. fresh /\ ~pending => Normalized(cr, pl, es, kf, objs)
      BY <1>3, <2>0, <2>1 DEF Steady
    <3>3. fresh => Steady(op', cr', pending', objs', pl', es', kf')
      BY <1>2, <2>1, <3>1, <3>2 DEF Steady, Applying
    <3> QED
      BY <1>2, <3>1, <3>3 DEF QuietInv, PassSteps, Applying, pl, es, kf
  <2>2. CASE /\ op.inst.ver # op.orig.ver /\ cr = op.orig
             /\ Write([cr EXCEPT !.ver = op.inst.ver]) /\ Return
    <3>1. [cr EXCEPT !.ver = op.inst.ver].ver = op.inst.ver
      BY <1>1 DEF Instance
    <3>2. [cr EXCEPT !.ver = op.inst.ver] # cr
      BY <2>2, <3>1
    <3>3. op'.pc = "idle" /\ pending'
      BY <2>2, <3>2 DEF Return, OperatorAt, Write
    <3> QED
      BY <3>3, QuietIdle
  <2> QED
    BY <1>4, <1>6, <2>1, <2>2 DEF StoreStatus
<1> QED
  BY <1>5, <1>6

(* An edit brings the request, a change of the configuration or of the     *)
(* cluster ends the freshness, a crash the pass.                           *)
LEMMA QuietSurroundings ==
    ASSUME TypeOK, QuietInv,
           Background \/ Environment \/ UserEdit \/ Crash \/ UNCHANGED vars
    PROVE  QuietInv'
<1> DEFINE pl == GetPlatform
           es == IsESOperatorIntegrationEnabled
           kf == IsKafkaOperatorIntegrationEnabled
<1>1. CASE Background
  <2>1. UNCHANGED <<cr, op, objs, pending>>
        /\ (fresh' => fresh /\ pl' = pl /\ es' = es /\ kf' = kf)
    BY <1>1 DEF Background, Seen
  <2> HIDE DEF pl, es, kf
  <2>2. fresh' => Steady(op', cr', pending', objs', pl', es', kf')
    BY <2>1 DEF QuietInv, pl, es, kf
  <2> QED
    BY <2>1, <2>2 DEF QuietInv, pl, es, kf
<1>2. CASE Environment
  BY <1>2 DEF Environment, QuietInv
<1>3. CASE UserEdit
  <2>1. PICK edit \in Edits : \E spec \in Default(Edited(cr, edit)) :
          spec # cr /\ Write(spec) /\ asked' = spec
    BY <1>3 DEF UserEdit
  <2>2. pending' /\ op' = op /\ objs' = objs /\ fresh' = fresh
        /\ pl' = pl /\ es' = es /\ kf' = kf
    BY <1>3, <2>1, SeenUnchanged DEF UserEdit, Write, detection
  <2> HIDE DEF pl, es, kf
  <2>3. fresh => Steady(op', cr', pending', objs', pl', es', kf')
    <3>1. fresh => Steady(op, cr, pending, objs, pl, es, kf)
      BY DEF QuietInv, pl, es, kf
    <3> QED
      BY <2>2, <3>1 DEF Steady
  <2> QED
    BY <2>2, <2>3 DEF QuietInv, pl, es, kf
<1>4. CASE Crash
  <2>1. op'.pc = "detecting"
    BY <1>4 DEF Crash, Exit, OperatorAt
  <2> QED
    BY <2>1, QuietIdle
<1>5. CASE UNCHANGED vars
  <2>1. /\ UNCHANGED <<cr, op, objs, pending, fresh>>
        /\ pl' = pl /\ es' = es /\ kf' = kf
    BY <1>5, SeenUnchanged DEF vars, detection
  <2> QED
    BY <2>1 DEF QuietInv
<1> QED
  BY <1>1, <1>2, <1>3, <1>4, <1>5

(* When the queue is empty and nothing has changed under the last pass,    *)
(* the CR is at the version of the operator and a fixed point of normalize *)
(* and of the strategy, and the objects are those of this CR: apply may    *)
(* render before the upgrade, because an upgrade that changes anything, a  *)
(* flag of the webhook and a change of the version all bring the request   *)
(* back.                                                                   *)
THEOREM QuietMeansNormalizedHolds == Spec => []QuietMeansNormalized
<1>1. Init => TypeOK /\ QuietInv
  BY TypeInit, QuietInit
<1>2. TypeOK /\ QuietInv /\ [Next]_vars => QuietInv'
  <2> SUFFICES ASSUME TypeOK, QuietInv, [Next]_vars PROVE QuietInv'
    OBVIOUS
  <2> QED
    BY QuietStart, QuietRender, QuietApply, QuietStore,
       QuietSurroundings DEF Next, Operator, Reconcile
<1>3. QuietInv => QuietMeansNormalized
  <2> SUFFICES ASSUME QuietInv, Quiet, fresh PROVE QuietMeansNormalized
    BY DEF QuietMeansNormalized
  <2>1. Normalized(cr, GetPlatform, IsESOperatorIntegrationEnabled,
                   IsKafkaOperatorIntegrationEnabled, objs)
    BY DEF QuietInv, Steady, Quiet
  <2> QED
    BY <2>1 DEF Normalized, QuietMeansNormalized
<1> QED
  BY <1>1, <1>2, <1>3, ConfigurationTypeCorrect, PTL DEF Spec
=============================================================================
