---------------------------- MODULE ClientProofs ----------------------------
(***************************************************************************)
(* What a process leaves to the next is a checkpoint that was seen         *)
(* finalized, and its tasks exclude each other as the lock says: for every *)
(* set of networks, directories, options and queries, and every number of  *)
(* processes.                                                              *)
(***************************************************************************)
EXTENDS Client, SequenceTheorems, FiniteSetTheorems, TLAPS

----------------------------------------------------------------------------
(* The configuration.                                                      *)

(* A source of options over another.                                       *)
LEMMA MergeFacts ==
    ASSUME NEW f, NEW g
    PROVE  /\ DOMAIN merge(f, g) = DOMAIN f \cup DOMAIN g
           /\ \A x \in DOMAIN g : merge(f, g)[x] = g[x]
           /\ \A x \in DOMAIN f : x \notin DOMAIN g => merge(f, g)[x] = f[x]
BY DEF merge

(* What is built from a configuration alone is that configuration.         *)
LEMMA BuildOfConfig ==
    ASSUME NEW c, DOMAIN c = Fields, build([config |-> c]) # Err
    PROVE  /\ DOMAIN build([config |-> c]) = Fields
           /\ \A f \in Fields : build([config |-> c])[f] = c[f]
           /\ c.data_dir # None
<1> DEFINE builder == [config |-> c]
           own == Without(builder, {"network", "config"})
           merged == merge(merge(merge(Absent, Flags), c), own)
           ages == [chain |-> c.chain, max_checkpoint_age |-> c.max_checkpoint_age]
           default == [default_checkpoint |-> c.default_checkpoint]
<1>1. DOMAIN builder = {"config"} /\ builder.config = c
  OBVIOUS
<1>2. DOMAIN own = {}
  BY DEF Without
<1>3. /\ build(builder) = merge(merge(default, merged), ages)
      /\ merged.data_dir # None
  <2> HIDE DEF builder
  <2>1. "network" \notin DOMAIN builder /\ "config" \in DOMAIN builder
    BY <1>1
  <2>2. build(builder) = IF \/ DOMAIN c = {}
                            \/ ~ {"consensus_rpc", "execution_rpc"} \subseteq DOMAIN merged
                            \/ merged.data_dir = None
                         THEN Err
                         ELSE merge(merge(default, merged), ages)
    BY <1>1, <2>1 DEF build
  <2> HIDE DEF merged, default, ages
  <2> QED BY <2>2 DEF builder
<1>4. Optional \subseteq Fields /\ {"load_external_fallback", "strict_checkpoint_age"} \subseteq Fields
      /\ {"chain", "max_checkpoint_age", "default_checkpoint", "data_dir"} \subseteq Fields
  BY DEF Fields, Required, Optional
<1>5. DOMAIN Absent = Optional /\ DOMAIN Flags \subseteq Fields
  BY <1>4 DEF Absent, Flags
<1>6. DOMAIN merged = Fields /\ \A f \in Fields : merged[f] = c[f]
  <2> DEFINE low == merge(Absent, Flags)
             mid == merge(low, c)
  <2>1. DOMAIN low \subseteq Fields
    BY <1>4, <1>5, MergeFacts
  <2> HIDE DEF low
  <2>2. DOMAIN mid = Fields /\ \A f \in Fields : mid[f] = c[f]
    <3>1. DOMAIN mid = DOMAIN low \cup DOMAIN c /\ \A f \in DOMAIN c : mid[f] = c[f]
      BY MergeFacts
    <3> QED BY <2>1, <3>1
  <2> HIDE DEF mid, own
  <2>3. DOMAIN merge(mid, own) = Fields /\ \A f \in Fields : merge(mid, own)[f] = c[f]
    <3>1. /\ DOMAIN merge(mid, own) = DOMAIN mid \cup DOMAIN own
          /\ \A f \in DOMAIN mid : f \notin DOMAIN own => merge(mid, own)[f] = mid[f]
      BY MergeFacts
    <3> QED BY <1>2, <2>2, <3>1
  <2> QED BY <2>3 DEF mid, low
<1> HIDE DEF merged, own
<1>7. /\ DOMAIN merge(default, merged) = Fields
      /\ \A f \in Fields : merge(default, merged)[f] = c[f]
  <2>1. DOMAIN default = {"default_checkpoint"}
    OBVIOUS
  <2> HIDE DEF default
  <2>2. /\ DOMAIN merge(default, merged) = DOMAIN default \cup DOMAIN merged
        /\ \A f \in DOMAIN merged : merge(default, merged)[f] = merged[f]
    BY MergeFacts
  <2> QED BY <1>4, <1>6, <2>1, <2>2
<1>8. /\ DOMAIN ages = {"chain", "max_checkpoint_age"}
      /\ \A f \in DOMAIN ages : ages[f] = c[f]
  OBVIOUS
<1> HIDE DEF ages, default
<1>9. /\ DOMAIN build(builder) = Fields
      /\ \A f \in Fields : build(builder)[f] = c[f]
  <2> DEFINE m == merge(default, merged)
  <2>1. DOMAIN m = Fields /\ \A f \in Fields : m[f] = c[f]
    BY <1>7
  <2>2. build(builder) = merge(m, ages)
    BY <1>3
  <2> HIDE DEF m, builder
  <2>3. /\ DOMAIN merge(m, ages) = DOMAIN m \cup DOMAIN ages
        /\ \A f \in DOMAIN ages : merge(m, ages)[f] = ages[f]
        /\ \A f \in DOMAIN m : f \notin DOMAIN ages => merge(m, ages)[f] = m[f]
    BY MergeFacts
  <2> QED BY <1>4, <1>8, <2>1, <2>2, <2>3
<1>10. c.data_dir # None
  BY <1>3, <1>4, <1>6
<1> QED BY <1>9, <1>10

(* What the options of a built-in network, or of none, are.                *)
LEMMA BaseFacts ==
    ASSUME NEW n \in Networks
    PROVE  /\ DOMAIN base_config(n) \subseteq Fields
           /\ {"chain", "default_checkpoint", "max_checkpoint_age"} \subseteq DOMAIN base_config(n)
           /\ {"checkpoint", "data_dir"} \cap DOMAIN base_config(n) = {}
           /\ base_config(n).chain \in {n, None}
           /\ base_config(n).default_checkpoint \in Checkpoint \cup {EmptyCheckpoint}
           /\ base_config(n).default_checkpoint.network \in {n, None}
<1> USE DEF Fields, Required, Optional
<1>1. CASE n \in BuiltIn
  <2> DEFINE all == [rpc |-> TRUE, chain |-> n, consensus_rpc |-> TRUE,
                     default_checkpoint |-> default_checkpoint[n],
                     max_checkpoint_age |-> max_checkpoint_age]
             fields == IF n = "goerli" THEN {"consensus_rpc"} ELSE {}
  <2>1. base_config(n) = [f \in DOMAIN all \ fields |-> all[f]]
    BY <1>1 DEF base_config, Without
  <2>2. DOMAIN all = {"rpc", "chain", "consensus_rpc", "default_checkpoint", "max_checkpoint_age"}
    OBVIOUS
  <2>3. all.chain = n /\ all.default_checkpoint = default_checkpoint[n]
    OBVIOUS
  <2> HIDE DEF all
  <2>4. /\ base_config(n).chain = n
        /\ base_config(n).default_checkpoint = default_checkpoint[n]
        /\ DOMAIN base_config(n) = DOMAIN all \ fields
    BY <2>1, <2>2, <2>3
  <2>5. default_checkpoint[n] \in Checkpoint /\ default_checkpoint[n].network = n
    BY <1>1, ClientAssumption
  <2> QED BY <2>2, <2>4, <2>5
<1>2. CASE n \notin BuiltIn
  <2> DEFINE none == [rpc |-> TRUE, chain |-> None, default_checkpoint |-> EmptyCheckpoint,
                      max_checkpoint_age |-> 0]
  <2>1. base_config(n) = none
    BY <1>2 DEF base_config
  <2>2. DOMAIN none = {"rpc", "chain", "default_checkpoint", "max_checkpoint_age"}
    OBVIOUS
  <2>3. EmptyCheckpoint.network = None
    BY DEF EmptyCheckpoint
  <2> QED BY <2>1, <2>2, <2>3
<1> QED BY <1>1, <1>2

(* What the command line gives, whether or not anything is given there.    *)
LEMMA ProviderFacts ==
    ASSUME NEW n, NEW cli, DOMAIN cli \subseteq CliFields
    PROVE  /\ DOMAIN as_provider(n, cli) \subseteq CliFields
           /\ "data_dir" \in DOMAIN as_provider(n, cli)
           /\ as_provider(n, cli).data_dir = get_data_dir(n, cli)
           /\ "checkpoint" \in DOMAIN as_provider(n, cli) =>
                 /\ "checkpoint" \in DOMAIN cli
                 /\ as_provider(n, cli).checkpoint = cli.checkpoint
<1> DEFINE dir == [data_dir |-> get_data_dir(n, cli)]
           low == merge(Flags, dir)
<1>1. DOMAIN dir = {"data_dir"} /\ dir.data_dir = get_data_dir(n, cli)
  OBVIOUS
<1>2. DOMAIN Flags = {"load_external_fallback", "strict_checkpoint_age"}
  BY DEF Flags
<1> HIDE DEF dir
<1>3. DOMAIN low = DOMAIN Flags \cup DOMAIN dir /\ \A x \in DOMAIN dir : low[x] = dir[x]
  BY MergeFacts
<1>4. as_provider(n, cli) = merge(low, cli)
  BY DEF as_provider, dir
<1> HIDE DEF low
<1>5. /\ DOMAIN merge(low, cli) = DOMAIN low \cup DOMAIN cli
      /\ \A x \in DOMAIN cli : merge(low, cli)[x] = cli[x]
      /\ \A x \in DOMAIN low : x \notin DOMAIN cli => merge(low, cli)[x] = low[x]
  BY MergeFacts
<1>6. merge(low, cli).data_dir = get_data_dir(n, cli)
  <2>1. CASE "data_dir" \in DOMAIN cli
    BY <1>5, <2>1 DEF get_data_dir
  <2>2. CASE "data_dir" \notin DOMAIN cli
    BY <1>1, <1>3, <1>5, <2>2
  <2> QED BY <2>1, <2>2
<1> QED BY <1>1, <1>2, <1>3, <1>4, <1>5, <1>6 DEF CliFields, Optional

(* The configuration that is read from the file has its directory from the *)
(* command line alone, its network from the file or built in.              *)
LEMMA FileFacts ==
    ASSUME NEW n \in Networks, NEW toml, NEW cli,
           Options(toml, Fields, Dirs), Options(cli, CliFields, (Dirs \ Networks) \cup {n}),
           "chain" \in DOMAIN toml => toml.chain = n,
           "default_checkpoint" \in DOMAIN toml => toml.default_checkpoint.network = n,
           from_file(n, toml, cli) # Err
    PROVE  LET c == from_file(n, toml, cli) IN
           /\ DOMAIN c = Fields
           /\ c.chain \in {n, None}
           /\ c.default_checkpoint \in Checkpoint \cup {EmptyCheckpoint}
           /\ c.default_checkpoint.network \in {n, None}
           /\ c.checkpoint \in Checkpoint \cup {None}
           /\ c.data_dir = get_data_dir(n, cli)
<1> DEFINE base == base_config(n)
           p == as_provider(n, cli)
           u == merge(base, toml)
           merged == merge(u, p)
<1>1. /\ DOMAIN p \subseteq CliFields /\ "data_dir" \in DOMAIN p
      /\ p.data_dir = get_data_dir(n, cli)
      /\ "checkpoint" \in DOMAIN p => "checkpoint" \in DOMAIN cli /\ p.checkpoint = cli.checkpoint
  BY ProviderFacts DEF Options
<1>2. /\ DOMAIN base \subseteq Fields
      /\ {"chain", "default_checkpoint", "max_checkpoint_age"} \subseteq DOMAIN base
      /\ {"checkpoint", "data_dir"} \cap DOMAIN base = {}
      /\ base.chain \in {n, None}
      /\ base.default_checkpoint \in Checkpoint \cup {EmptyCheckpoint}
      /\ base.default_checkpoint.network \in {n, None}
  BY BaseFacts
<1> HIDE DEF base, p
<1>3. /\ DOMAIN u = DOMAIN base \cup DOMAIN toml
      /\ \A x \in DOMAIN toml : u[x] = toml[x]
      /\ \A x \in DOMAIN base : x \notin DOMAIN toml => u[x] = base[x]
  BY MergeFacts
<1>4. /\ DOMAIN u \subseteq Fields
      /\ {"chain", "default_checkpoint", "max_checkpoint_age"} \subseteq DOMAIN u
      /\ u.chain \in {n, None}
      /\ u.default_checkpoint \in Checkpoint \cup {EmptyCheckpoint}
      /\ u.default_checkpoint.network \in {n, None}
      /\ "checkpoint" \in DOMAIN u => u.checkpoint \in Checkpoint \cup {None}
  <2> HIDE DEF u
  <2>1. /\ DOMAIN toml \subseteq Fields
        /\ "default_checkpoint" \in DOMAIN toml =>
              toml.default_checkpoint \in Checkpoint \cup {EmptyCheckpoint}
        /\ "checkpoint" \in DOMAIN toml => toml.checkpoint \in Checkpoint \cup {None}
    BY DEF Options
  <2> QED BY <1>2, <1>3, <2>1
<1> HIDE DEF u
<1>5. /\ DOMAIN merged = DOMAIN u \cup DOMAIN p
      /\ \A x \in DOMAIN p : merged[x] = p[x]
      /\ \A x \in DOMAIN u : x \notin DOMAIN p => merged[x] = u[x]
  BY MergeFacts
<1>6. /\ from_file(n, toml, cli) = merge(Absent, merged)
      /\ Required \subseteq DOMAIN merged
  BY DEF from_file, base, p, u
<1> HIDE DEF merged
<1>7. "chain" \notin CliFields /\ "default_checkpoint" \notin CliFields /\ CliFields \subseteq Fields
  BY DEF CliFields, Optional, Fields, Required
<1>8. /\ merged.chain = u.chain /\ merged.default_checkpoint = u.default_checkpoint
      /\ "data_dir" \in DOMAIN merged /\ merged.data_dir = get_data_dir(n, cli)
      /\ "checkpoint" \in DOMAIN merged => merged.checkpoint \in Checkpoint \cup {None}
      /\ DOMAIN merged \subseteq Fields
  <2>1. "checkpoint" \in DOMAIN cli => cli.checkpoint \in Checkpoint \cup {None}
    BY DEF Options
  <2> QED BY <1>1, <1>4, <1>5, <1>7, <2>1
<1>9. /\ DOMAIN merge(Absent, merged) = DOMAIN Absent \cup DOMAIN merged
      /\ \A x \in DOMAIN merged : merge(Absent, merged)[x] = merged[x]
      /\ \A x \in DOMAIN Absent : x \notin DOMAIN merged => merge(Absent, merged)[x] = Absent[x]
  BY MergeFacts
<1>10. DOMAIN Absent = Optional /\ \A x \in Optional : Absent[x] = None
  BY DEF Absent
<1> DEFINE c == merge(Absent, merged)
<1>11. DOMAIN c = Fields
  BY <1>6, <1>8, <1>9, <1>10 DEF Fields
<1>12. c.chain = u.chain /\ c.default_checkpoint = u.default_checkpoint
  <2>1. "chain" \in DOMAIN merged /\ "default_checkpoint" \in DOMAIN merged
    BY <1>6 DEF Required
  <2> QED BY <1>8, <1>9, <2>1
<1>13. c.data_dir = get_data_dir(n, cli)
  BY <1>8, <1>9
<1>14. c.checkpoint \in Checkpoint \cup {None}
  <2>1. "checkpoint" \in Optional
    BY DEF Optional
  <2>2. CASE "checkpoint" \in DOMAIN merged
    BY <1>8, <1>9, <2>2
  <2>3. CASE "checkpoint" \notin DOMAIN merged
    BY <1>9, <1>10, <2>1, <2>3
  <2> QED BY <2>2, <2>3
<1> HIDE DEF c
<1> QED BY <1>4, <1>6, <1>11, <1>12, <1>13, <1>14 DEF c

(* The configuration of a library client: its directory is the user's.     *)
LEMMA LibraryFacts ==
    ASSUME NEW b, NEW D, Options(b, BuilderFields, D \cup {None}),
           "network" \in DOMAIN b => b.network \in BuiltIn,
           "config" \in DOMAIN b =>
              DOMAIN b.config = Fields /\ Options(b.config, Fields, D \cup {None}),
           build(b) # Err
    PROVE  LET c == build(b) IN
           /\ DOMAIN c = Fields
           /\ c.chain \in Networks \cup {None}
           /\ c.default_checkpoint \in Checkpoint \cup {EmptyCheckpoint}
           /\ c.checkpoint \in Checkpoint \cup {None}
           /\ c.data_dir \in D
<1> DEFINE config_ == IF "config" \in DOMAIN b THEN b.config ELSE <<>>
           base == IF "network" \in DOMAIN b THEN base_config(b.network) ELSE config_
           own == Without(b, {"network", "config"})
           low == merge(Absent, Flags)
           mid == merge(low, config_)
           merged == merge(mid, own)
           default == [default_checkpoint |-> base.default_checkpoint]
           ages == [chain |-> base.chain, max_checkpoint_age |-> base.max_checkpoint_age]
           top == merge(default, merged)
<1>1. /\ build(b) = merge(top, ages)
      /\ DOMAIN base # {} /\ {"consensus_rpc", "execution_rpc"} \subseteq DOMAIN merged
      /\ merged.data_dir # None
  BY DEF build
<1>2. DOMAIN ages = {"chain", "max_checkpoint_age"} /\ ages.chain = base.chain
  OBVIOUS
<1>3. DOMAIN default = {"default_checkpoint"}
      /\ default.default_checkpoint = base.default_checkpoint
  OBVIOUS
<1> HIDE DEF ages, default
<1>4. /\ DOMAIN config_ \in {Fields, {}}
      /\ "chain" \in DOMAIN config_ => config_.chain \in Networks \cup {None}
      /\ "default_checkpoint" \in DOMAIN config_ =>
            config_.default_checkpoint \in Checkpoint \cup {EmptyCheckpoint}
      /\ "checkpoint" \in DOMAIN config_ => config_.checkpoint \in Checkpoint \cup {None}
      /\ "data_dir" \in DOMAIN config_ => config_.data_dir \in D \cup {None}
  <2>1. CASE "config" \in DOMAIN b
    BY <2>1 DEF Options
  <2>2. CASE "config" \notin DOMAIN b
    <3>1. config_ = <<>> /\ DOMAIN config_ = {}
      BY <2>2
    <3> QED BY <3>1
  <2> QED BY <2>1, <2>2
<1>5. {"chain", "default_checkpoint", "max_checkpoint_age"} \subseteq Fields
  BY DEF Fields, Required
<1>6. BuiltIn \subseteq Networks
  BY ClientAssumption
<1>7. /\ base.chain \in Networks \cup {None}
      /\ base.default_checkpoint \in Checkpoint \cup {EmptyCheckpoint}
  <2>1. CASE "network" \in DOMAIN b
    BY <1>6, <2>1, BaseFacts
  <2>2. CASE "network" \notin DOMAIN b
    <3> HIDE DEF config_
    <3> QED BY <1>1, <1>4, <1>5, <2>2
  <2> QED BY <2>1, <2>2
<1>8. /\ DOMAIN own = DOMAIN b \ {"network", "config"}
      /\ \A f \in DOMAIN own : own[f] = b[f]
  BY DEF Without
<1>9. /\ DOMAIN own \subseteq CliFields
      /\ "checkpoint" \in DOMAIN own => own.checkpoint \in Checkpoint \cup {None}
      /\ "data_dir" \in DOMAIN own => own.data_dir \in D \cup {None}
  <2> HIDE DEF own
  <2> QED BY <1>8 DEF Options, BuilderFields
<1>10. /\ DOMAIN low = Optional \cup {"load_external_fallback", "strict_checkpoint_age"}
       /\ low.checkpoint = None /\ low.data_dir = None
  <2>1. DOMAIN Absent = Optional /\ \A x \in Optional : Absent[x] = None
    BY DEF Absent
  <2>2. DOMAIN Flags = {"load_external_fallback", "strict_checkpoint_age"}
    BY DEF Flags
  <2>3. /\ DOMAIN low = DOMAIN Absent \cup DOMAIN Flags
        /\ \A x \in DOMAIN Absent : x \notin DOMAIN Flags => low[x] = Absent[x]
    BY MergeFacts
  <2>4. "checkpoint" \in Optional /\ "data_dir" \in Optional
    BY DEF Optional
  <2> HIDE DEF low
  <2> QED BY <2>1, <2>2, <2>3, <2>4
<1> HIDE DEF own, low, config_, base
<1>11. /\ DOMAIN mid = DOMAIN low \cup DOMAIN config_
       /\ \A x \in DOMAIN config_ : mid[x] = config_[x]
       /\ \A x \in DOMAIN low : x \notin DOMAIN config_ => mid[x] = low[x]
  BY MergeFacts
<1> HIDE DEF mid
<1>12. /\ DOMAIN merged = DOMAIN mid \cup DOMAIN own
       /\ \A x \in DOMAIN own : merged[x] = own[x]
       /\ \A x \in DOMAIN mid : x \notin DOMAIN own => merged[x] = mid[x]
  BY MergeFacts
<1> HIDE DEF merged
<1>13. /\ DOMAIN top = DOMAIN default \cup DOMAIN merged
       /\ \A x \in DOMAIN merged : top[x] = merged[x]
       /\ \A x \in DOMAIN default : x \notin DOMAIN merged => top[x] = default[x]
  BY MergeFacts
<1> HIDE DEF top
<1>14. /\ DOMAIN merge(top, ages) = DOMAIN top \cup DOMAIN ages
       /\ \A x \in DOMAIN ages : merge(top, ages)[x] = ages[x]
       /\ \A x \in DOMAIN top : x \notin DOMAIN ages => merge(top, ages)[x] = top[x]
  BY MergeFacts
<1> DEFINE c == merge(top, ages)
<1>15. /\ Optional \subseteq Fields /\ CliFields \subseteq Fields
       /\ "default_checkpoint" \notin CliFields /\ "default_checkpoint" \notin DOMAIN low
       /\ "checkpoint" \in Optional /\ "data_dir" \in Optional
       /\ "checkpoint" \notin DOMAIN ages /\ "data_dir" \notin DOMAIN ages
       /\ "default_checkpoint" \notin DOMAIN ages
  BY <1>2, <1>10 DEF Fields, Required, Optional, CliFields
<1>16. DOMAIN merged \subseteq Fields /\ DOMAIN low \subseteq DOMAIN merged
  <2>1. DOMAIN low \subseteq Fields
    BY <1>10, <1>15 DEF Fields, Required
  <2> QED BY <1>4, <1>9, <1>11, <1>12, <1>15, <2>1
<1>17. DOMAIN c = Fields
  <2>1. DOMAIN c = {"default_checkpoint", "chain", "max_checkpoint_age"} \cup DOMAIN merged
    BY <1>2, <1>3, <1>13, <1>14
  <2>2. Fields = Optional \cup {"load_external_fallback", "strict_checkpoint_age"}
                   \cup {"consensus_rpc", "execution_rpc"}
                   \cup {"default_checkpoint", "chain", "max_checkpoint_age"}
    BY DEF Fields, Required
  <2> HIDE DEF c
  <2> QED BY <1>1, <1>5, <1>10, <1>16, <2>1, <2>2
<1>18. c.chain = base.chain
  BY <1>2, <1>14
<1>19. c.default_checkpoint \in Checkpoint \cup {EmptyCheckpoint}
  <2>1. "default_checkpoint" \in DOMAIN merged =>
           /\ "default_checkpoint" \in DOMAIN config_
           /\ merged.default_checkpoint = config_.default_checkpoint
    BY <1>9, <1>11, <1>12, <1>15
  <2>2. c.default_checkpoint = top.default_checkpoint
    BY <1>3, <1>13, <1>14, <1>15
  <2> QED BY <1>3, <1>4, <1>7, <1>13, <2>1, <2>2
<1>20. /\ c.checkpoint = merged.checkpoint
       /\ c.data_dir = merged.data_dir
  BY <1>10, <1>13, <1>14, <1>15, <1>16
<1>21. merged.checkpoint \in Checkpoint \cup {None}
  BY <1>4, <1>9, <1>10, <1>11, <1>12, <1>15
<1>22. merged.data_dir \in D
  BY <1>1, <1>4, <1>9, <1>10, <1>11, <1>12, <1>15
<1> HIDE DEF c
<1> QED BY <1>1, <1>7, <1>17, <1>18, <1>19, <1>20, <1>21, <1>22 DEF c

(* The configuration of a process, and what it has to do with its start.   *)
ConfigOK(s, c) ==
    /\ DOMAIN c = Fields
    /\ c.chain \in Networks \cup {None}
    /\ c.default_checkpoint \in Checkpoint \cup {EmptyCheckpoint}
    /\ c.checkpoint \in Checkpoint \cup {None}
    /\ c.data_dir \in Dirs
    /\ c.data_dir \in Networks => c.chain \in {c.data_dir, None}
    /\ s.program = "main" /\ "data_dir" \notin DOMAIN s.cli =>
          c.data_dir \in Networks /\ c.default_checkpoint.network \in {c.data_dir, None}

(* The configuration of every start is so.                                 *)
LEMMA ConfigurationFacts ==
    ASSUME NEW s \in Starts, configuration(s) # Err
    PROVE  ConfigOK(s, configuration(s))
<1>0. Networks \subseteq Dirs /\ None \notin Dirs
  BY ClientAssumption
<1>1. CASE s.program = "library"
  <2>1. /\ Options(s.builder, BuilderFields, (Dirs \ Networks) \cup {None})
        /\ "network" \in DOMAIN s.builder => s.builder.network \in BuiltIn
        /\ "config" \in DOMAIN s.builder =>
              /\ DOMAIN s.builder.config = Fields
              /\ Options(s.builder.config, Fields, (Dirs \ Networks) \cup {None})
    BY <1>1, StartsAssumption
  <2>2. configuration(s) = build(s.builder)
    BY <1>1 DEF configuration
  <2> DEFINE D == Dirs \ Networks
             c == build(s.builder)
  <2>3. /\ DOMAIN c = Fields
        /\ c.chain \in Networks \cup {None}
        /\ c.default_checkpoint \in Checkpoint \cup {EmptyCheckpoint}
        /\ c.checkpoint \in Checkpoint \cup {None}
        /\ c.data_dir \in D
    <3> HIDE DEF D
    <3> QED BY <2>1, <2>2, LibraryFacts DEF D
  <2> QED BY <1>1, <2>2, <2>3 DEF ConfigOK
<1>2. CASE s.program # "library"
  <2>1. /\ s.program = "main" /\ s.network \in Networks
        /\ Options(s.toml, Fields, Dirs)
        /\ Options(s.cli, CliFields, (Dirs \ Networks) \cup {s.network})
        /\ "chain" \in DOMAIN s.toml => s.toml.chain = s.network
        /\ "default_checkpoint" \in DOMAIN s.toml =>
              s.toml.default_checkpoint.network = s.network
    BY <1>2, StartsAssumption
  <2> DEFINE c == from_file(s.network, s.toml, s.cli)
             d == build([config |-> c])
  <2>2. c # Err /\ configuration(s) = d
    BY <1>2 DEF configuration
  <2>3. /\ DOMAIN c = Fields
        /\ c.chain \in {s.network, None}
        /\ c.default_checkpoint \in Checkpoint \cup {EmptyCheckpoint}
        /\ c.default_checkpoint.network \in {s.network, None}
        /\ c.checkpoint \in Checkpoint \cup {None}
        /\ c.data_dir = get_data_dir(s.network, s.cli)
    BY <2>1, <2>2, FileFacts
  <2> HIDE DEF c
  <2>4. DOMAIN d = Fields /\ \A f \in Fields : d[f] = c[f]
    BY <2>2, <2>3, BuildOfConfig
  <2> HIDE DEF d
  <2>5. /\ d.chain = c.chain /\ d.default_checkpoint = c.default_checkpoint
        /\ d.checkpoint = c.checkpoint /\ d.data_dir = c.data_dir
    BY <2>4 DEF Fields, Required, Optional
  <2>6. /\ c.data_dir \in (Dirs \ Networks) \cup {s.network}
        /\ "data_dir" \notin DOMAIN s.cli => c.data_dir = s.network
    BY <2>1, <2>3 DEF get_data_dir, Options
  <2> QED BY <1>0, <2>1, <2>2, <2>3, <2>4, <2>5, <2>6 DEF ConfigOK
<1> QED BY <1>1, <1>2

----------------------------------------------------------------------------
(* The inductive invariant.                                                *)

Locking == Writing \cup Reading

(* start before the client has synced from the configured checkpoint, on   *)
(* the way through the fallbacks, and after the sync.                      *)
First == {"rpc", "sync"}
Retry == {"list", "chain_id", "fetch", "config", "replace", "resync"}
Done == {"save", "write_file", "pending"}

(* Where the tasks are: only the main one runs until start has returned.   *)
TasksOK ==
    /\ pc["main"] \in {"off", "warn"} \cup First \cup Retry \cup Done
    /\ pc["advance"] \in {"off", "advance", "duration", "sleep"}
    /\ pc["shutdown"] \in {"off", "save", "write_file"}
    /\ \A q \in Queries : pc[q] \in {"off", "answer"}
    /\ pc["main"] # "pending" => pc["advance"] = "off" /\ pc["shutdown"] = "off"
    /\ counter = 0 => pc["shutdown"] = "off"

(* A task that needs the lock has it or waits for it, once; a writer has   *)
(* it alone.                                                               *)
LockOK ==
    /\ \A t \in holders : pc[t] \in Locking
    /\ \A t \in holders : pc[t] \in Writing => holders = {t}
    /\ \A i \in DOMAIN queue : pc[queue[i]] \in Locking /\ queue[i] \notin holders
    /\ \A i, j \in DOMAIN queue : queue[i] = queue[j] => i = j
    /\ \A t \in Tasks : pc[t] \in Locking => t \in holders \/ \E i \in DOMAIN queue : queue[i] = t

(* What the process has, and where it is with it.                          *)
SetupOK ==
    /\ Up => /\ start \in Starts /\ ConfigOK(start, config)
             /\ checkpoint \in Checkpoint \cup {EmptyCheckpoint}
    /\ ~ Up => config = None /\ source = "config"
    /\ pc["main"] \in First => source = "config"
    /\ pc["main"] \in Retry => source # "config"
    /\ pc["main"] \in {"warn"} \cup Retry \cup Done => config.chain \in Networks
    /\ pc["main"] \in Done => finalized \in Epoch
    /\ pc["main"] \notin Done => last_checkpoint = None
    /\ last_checkpoint # None =>
          /\ last_checkpoint \in seen /\ last_checkpoint.network = config.chain
          /\ last_checkpoint.epoch <= finalized

(* What is on disk was seen finalized, in the default directory of a       *)
(* network by a client of that network; what was written in full is there  *)
(* until it is being overwritten.                                          *)
Overwriting == \E t \in {"main", "shutdown"} : pc[t] = "write_file"

DiskOK ==
    /\ \A d \in Dirs : file[d] \in Checkpoint =>
          file[d] \in seen /\ (d \in Networks => file[d].network = d)
    /\ \A d \in Dirs : saved[d] # None =>
          file[d] = saved[d] \/ (Overwriting /\ d = config.data_dir)
    /\ Overwriting => last_checkpoint # None /\ file[config.data_dir] = Torn

(* A client that started from the file is not behind what was saved.       *)
NotBehind ==
    Up /\ source = "config" /\ config.checkpoint = None /\ saved[config.data_dir] # None =>
        LET e == saved[config.data_dir].epoch IN
        /\ pc["main"] \notin Done => e <= checkpoint.epoch
        /\ pc["main"] \in Done => e <= finalized
        /\ last_checkpoint # None => e <= last_checkpoint.epoch

Inv ==
    /\ TypeOK /\ TasksOK /\ LockOK /\ SetupOK /\ DiskOK
    /\ StartsFromKnownCheckpoint /\ NotBehind

----------------------------------------------------------------------------
(* The lock.                                                               *)

(* The tasks of the process.                                               *)
LEMMA TaskFacts ==
    /\ "main" \in Tasks /\ "advance" \in Tasks /\ "shutdown" \in Tasks /\ Queries \subseteq Tasks
    /\ "main" \notin Queries /\ "advance" \notin Queries /\ "shutdown" \notin Queries
    /\ \A t \in Tasks : t \in {"main", "advance", "shutdown"} \/ t \in Queries
    /\ Locking \subseteq Labels /\ Writing \cap Reading = {}
    /\ "off" \notin Locking /\ "rpc" \notin Locking /\ "fetch" \notin Locking
    /\ "list" \notin Locking /\ "pending" \notin Locking /\ "sleep" \notin Locking
BY ClientAssumption DEF Tasks, Labels, Locking, Writing, Reading

(* A task that holds the lock, or is where it needs none, moves on.        *)
LEMMA GotoLock ==
    ASSUME TypeOK, LockOK, NEW t \in Tasks, NEW l \in Labels, Goto(t, l),
           t \in holders \/ pc[t] \notin Locking
    PROVE  /\ LockOK' /\ pc' \in [Tasks -> Labels]
           /\ holders' \subseteq Tasks /\ queue' \in Seq(Tasks)
           /\ pc'[t] = l /\ \A u \in Tasks \ {t} : pc'[u] = pc[u]
<1>1. /\ pc \in [Tasks -> Labels] /\ holders \subseteq Tasks /\ queue \in Seq(Tasks)
  BY DEF TypeOK
<1>2. /\ pc' \in [Tasks -> Labels] /\ pc'[t] = l /\ \A u \in Tasks \ {t} : pc'[u] = pc[u]
      /\ holders' = holders \ {t}
  BY <1>1 DEF Goto
<1>3. /\ Len(queue) \in Nat /\ DOMAIN queue = 1 .. Len(queue)
      /\ \A i \in DOMAIN queue : queue[i] \in Tasks /\ queue[i] # t
  <2>1. Len(queue) \in Nat /\ DOMAIN queue = 1 .. Len(queue)
    BY <1>1, LenProperties
  <2>2. \A i \in 1 .. Len(queue) : queue[i] \in Tasks
    BY <1>1, ElementOfSeq
  <2>3. \A i \in DOMAIN queue : queue[i] # t
    BY DEF LockOK
  <2> QED BY <2>1, <2>2, <2>3
<1>4. CASE l \in Locking
  <2>1. queue' = Append(queue, t)
    BY <1>4 DEF Goto, Locking
  <2>2. /\ queue' \in Seq(Tasks) /\ Len(queue') = Len(queue) + 1
        /\ \A i \in 1 .. Len(queue) : queue'[i] = queue[i]
        /\ queue'[Len(queue) + 1] = t
    BY <1>1, <2>1, AppendProperties
  <2>3. DOMAIN queue' = 1 .. Len(queue) + 1
    BY <2>2, LenProperties
  <2>4. \A i \in DOMAIN queue' :
           (i \in DOMAIN queue /\ queue'[i] = queue[i]) \/ (i = Len(queue) + 1 /\ queue'[i] = t)
    <3>1. \A i \in 1 .. Len(queue) + 1 : i \in 1 .. Len(queue) \/ i = Len(queue) + 1
      BY <1>3
    <3> QED BY <1>3, <2>2, <2>3, <3>1
  <2>5. /\ \A i \in DOMAIN queue : i \in DOMAIN queue' /\ queue'[i] = queue[i]
        /\ Len(queue) + 1 \in DOMAIN queue'
    BY <1>3, <2>2, <2>3
  <2>6. \A u \in holders' : pc'[u] \in Locking /\ (pc'[u] \in Writing => holders' = {u})
    BY <1>1, <1>2 DEF LockOK
  <2>7. \A i \in DOMAIN queue' : pc'[queue'[i]] \in Locking /\ queue'[i] \notin holders'
    BY <1>2, <1>3, <1>4, <2>4 DEF LockOK
  <2>8. \A i, j \in DOMAIN queue' : queue'[i] = queue'[j] => i = j
    BY <1>3, <2>4 DEF LockOK
  <2>9. \A u \in Tasks : pc'[u] \in Locking =>
           u \in holders' \/ \E i \in DOMAIN queue' : queue'[i] = u
    <3>1. TAKE u \in Tasks
    <3>2. CASE u = t
      BY <2>2, <2>5, <3>2
    <3>3. CASE u # t
      BY <1>2, <2>5, <3>3 DEF LockOK
    <3> QED BY <3>2, <3>3
  <2> QED BY <1>1, <1>2, <2>2, <2>6, <2>7, <2>8, <2>9 DEF LockOK
<1>5. CASE l \notin Locking
  <2>1. queue' = queue
    BY <1>5 DEF Goto, Locking
  <2>2. \A u \in holders' : pc'[u] \in Locking /\ (pc'[u] \in Writing => holders' = {u})
    BY <1>1, <1>2 DEF LockOK
  <2>3. \A i \in DOMAIN queue : pc'[queue[i]] \in Locking /\ queue[i] \notin holders'
    BY <1>2, <1>3 DEF LockOK
  <2>4. \A u \in Tasks : pc'[u] \in Locking =>
           u \in holders' \/ \E i \in DOMAIN queue : queue[i] = u
    BY <1>2, <1>5 DEF LockOK
  <2> QED BY <1>1, <1>2, <2>1, <2>2, <2>3, <2>4 DEF LockOK
<1> QED BY <1>4, <1>5

(* What is left of a queue without its k-th element.                       *)
Drop(q, k) == SubSeq(q, 1, k - 1) \o SubSeq(q, k + 1, Len(q))

(* It has the other elements, in their order.                              *)
LEMMA DropFacts ==
    ASSUME NEW S, NEW q \in Seq(S), NEW k \in 1 .. Len(q)
    PROVE  /\ Drop(q, k) \in Seq(S) /\ DOMAIN Drop(q, k) = 1 .. Len(q) - 1
           /\ \A i \in 1 .. Len(q) - 1 : Drop(q, k)[i] = IF i < k THEN q[i] ELSE q[i + 1]
<1> DEFINE r == Drop(q, k)
           a == SubSeq(q, 1, k - 1)
           b == SubSeq(q, k + 1, Len(q))
<1>0. Len(q) \in Nat /\ k \in Nat /\ k >= 1 /\ k <= Len(q)
  BY LenProperties
<1>1. /\ a \in Seq(S) /\ Len(a) = k - 1 /\ \A i \in 1 .. k - 1 : a[i] = q[i]
  <2>1. 1 \in Int /\ k - 1 \in Int /\ \A i \in 1 .. k - 1 : q[i] \in S
    <3>1. \A i \in 1 .. k - 1 : i \in 1 .. Len(q)
      BY <1>0
    <3> QED BY <1>0, <3>1, ElementOfSeq
  <2>2. /\ SubSeq(q, 1, k - 1) \in Seq(S)
        /\ Len(SubSeq(q, 1, k - 1)) = IF 1 <= k - 1 THEN (k - 1) - 1 + 1 ELSE 0
        /\ \A i \in 1 .. (k - 1) - 1 + 1 : SubSeq(q, 1, k - 1)[i] = q[1 + i - 1]
    BY <2>1, SubSeqProperties
  <2>3. \A i \in 1 .. k - 1 : 1 + i - 1 = i
    BY <1>0
  <2> QED BY <1>0, <2>2, <2>3
<1>2. /\ b \in Seq(S) /\ Len(b) = Len(q) - k /\ \A i \in 1 .. Len(q) - k : b[i] = q[k + i]
  <2>1. k + 1 \in Int /\ Len(q) \in Int /\ \A i \in k + 1 .. Len(q) : q[i] \in S
    <3>1. \A i \in k + 1 .. Len(q) : i \in 1 .. Len(q)
      BY <1>0
    <3> QED BY <1>0, <3>1, ElementOfSeq
  <2>2. /\ SubSeq(q, k + 1, Len(q)) \in Seq(S)
        /\ Len(SubSeq(q, k + 1, Len(q))) = IF k + 1 <= Len(q) THEN Len(q) - (k + 1) + 1 ELSE 0
        /\ \A i \in 1 .. Len(q) - (k + 1) + 1 :
              SubSeq(q, k + 1, Len(q))[i] = q[(k + 1) + i - 1]
    BY <2>1, SubSeqProperties
  <2>3. \A i \in 1 .. Len(q) - k : (k + 1) + i - 1 = k + i
    BY <1>0
  <2> QED BY <1>0, <2>2, <2>3
<1>r. r = a \o b
  BY DEF Drop
<1> HIDE DEF a, b, r
<1>3. /\ r \in Seq(S) /\ Len(r) = Len(a) + Len(b)
      /\ \A i \in 1 .. Len(a) + Len(b) : r[i] = IF i <= Len(a) THEN a[i] ELSE b[i - Len(a)]
  BY <1>1, <1>2, <1>r, ConcatProperties
<1>4. Len(r) = Len(q) - 1 /\ DOMAIN r = 1 .. Len(q) - 1
  <2>1. Len(r) = Len(q) - 1
    <3>1. Len(r) = Len(a) + Len(b) /\ Len(a) = k - 1 /\ Len(b) = Len(q) - k
      BY <1>1, <1>2, <1>3
    <3>2. (k - 1) + (Len(q) - k) = Len(q) - 1
      BY <1>0
    <3> QED BY <3>1, <3>2
  <2>2. DOMAIN r = 1 .. Len(r)
    BY <1>3, LenProperties
  <2> QED BY <2>1, <2>2
<1>5. ASSUME NEW i \in 1 .. Len(q) - 1
      PROVE  r[i] = IF i < k THEN q[i] ELSE q[i + 1]
  <2>1. CASE i < k
    <3>1. i \in 1 .. k - 1 /\ i <= Len(a) /\ i \in 1 .. Len(a) + Len(b)
      BY <1>0, <1>1, <1>2, <2>1
    <3> QED BY <1>1, <1>3, <2>1, <3>1
  <2>2. CASE ~ i < k
    <3>1. /\ ~ i <= Len(a) /\ i \in 1 .. Len(a) + Len(b)
          /\ i - Len(a) = i - k + 1 /\ i - k + 1 \in 1 .. Len(q) - k
          /\ k + (i - k + 1) = i + 1
      BY <1>0, <1>1, <1>2, <2>2
    <3>2. r[i] = b[i - k + 1]
      BY <1>3, <3>1
    <3>3. b[i - k + 1] = q[i + 1]
      BY <1>2, <3>1
    <3> QED BY <2>2, <3>2, <3>3
  <2> QED BY <2>1, <2>2
<1> QED BY <1>3, <1>4, <1>5 DEF r

----------------------------------------------------------------------------
(* The steps.                                                              *)

(* A task gets the lock.                                                   *)
LEMMA AcquireKeeps ==
    ASSUME Inv, NEW t \in Tasks, Acquire(t)
    PROVE  Inv'
<1> USE DEF Inv
<1>1. /\ now' = now /\ disk' = disk /\ setup' = setup /\ pc' = pc /\ source' = source
      /\ node' = node /\ counter' = counter /\ holders' = holders \cup {t} /\ may_acquire(t)
  BY DEF Acquire
<1>2. PICK k \in DOMAIN queue :
         queue[k] = t /\ queue' = SubSeq(queue, 1, k - 1) \o SubSeq(queue, k + 1, Len(queue))
  BY DEF Acquire
<1>3. queue \in Seq(Tasks) /\ Len(queue) \in Nat /\ DOMAIN queue = 1 .. Len(queue)
      /\ k \in Nat /\ k >= 1 /\ k <= Len(queue)
  <2>1. queue \in Seq(Tasks)
    BY DEF TypeOK
  <2> QED BY <2>1, LenProperties
<1>4. /\ queue' \in Seq(Tasks) /\ DOMAIN queue' = 1 .. Len(queue) - 1
      /\ \A i \in 1 .. Len(queue) - 1 : queue'[i] = IF i < k THEN queue[i] ELSE queue[i + 1]
  <2>1. k \in 1 .. Len(queue)
    BY <1>3
  <2>2. queue' = Drop(queue, k)
    BY <1>2 DEF Drop
  <2> HIDE DEF Inv
  <2> QED BY <1>3, <2>1, <2>2, DropFacts
<1> DEFINE J(i) == IF i < k THEN i ELSE i + 1
<1>5. \A i \in DOMAIN queue' : /\ J(i) \in DOMAIN queue /\ J(i) # k /\ queue'[i] = queue[J(i)]
  <2>1. \A i \in 1 .. Len(queue) - 1 : J(i) \in 1 .. Len(queue) /\ J(i) # k
    BY <1>3
  <2> QED BY <1>3, <1>4, <2>1
<1>6. \A i, j \in DOMAIN queue' : J(i) = J(j) => i = j
  BY <1>3, <1>4
<1>7. \A j \in DOMAIN queue : j # k => \E i \in DOMAIN queue' : queue'[i] = queue[j]
  <2>1. TAKE j \in DOMAIN queue
  <2>2. CASE j < k
    <3>1. j \in DOMAIN queue'
      BY <1>3, <1>4, <2>2
    <3> QED BY <1>3, <1>4, <2>2, <3>1
  <2>3. CASE j > k
    <3>1. j - 1 \in 1 .. Len(queue) - 1 /\ ~ j - 1 < k /\ (j - 1) + 1 = j
      BY <1>3, <2>3
    <3>2. queue'[j - 1] = queue[j]
      BY <1>4, <3>1
    <3> QED BY <1>4, <3>1, <3>2
  <2> QED BY <1>3, <2>2, <2>3
<1> HIDE DEF J
<1>8. pc[t] \in Locking /\ holders \subseteq Tasks
  BY <1>2 DEF LockOK, TypeOK
<1>9. LockOK'
  <2>1. \A u \in holders' : pc[u] \in Locking /\ (pc[u] \in Writing => holders' = {u})
    <3>1. CASE pc[t] \in Writing
      BY <1>1, <1>8, <3>1 DEF may_acquire
    <3>2. CASE pc[t] \notin Writing
      <4>1. \A h \in holders : pc[h] \in Reading
        BY <1>1, <3>2 DEF may_acquire
      <4>2. pc[t] \in Reading
        BY <1>8, <3>2 DEF Locking
      <4> QED BY <1>1, <4>1, <4>2, TaskFacts DEF Locking
    <3> QED BY <3>1, <3>2
  <2>2. \A i \in DOMAIN queue' : pc[queue'[i]] \in Locking /\ queue'[i] \notin holders'
    BY <1>1, <1>2, <1>5 DEF LockOK
  <2>3. \A i, j \in DOMAIN queue' : queue'[i] = queue'[j] => i = j
    BY <1>5, <1>6 DEF LockOK
  <2>4. \A u \in Tasks : pc[u] \in Locking =>
           u \in holders' \/ \E i \in DOMAIN queue' : queue'[i] = u
    <3>1. SUFFICES ASSUME NEW u \in Tasks, pc[u] \in Locking, u \notin holders'
                   PROVE  \E i \in DOMAIN queue' : queue'[i] = u
      OBVIOUS
    <3>2. PICK j \in DOMAIN queue : queue[j] = u
      BY <1>1, <3>1 DEF LockOK
    <3>3. j # k
      BY <1>1, <1>2, <3>1, <3>2
    <3> QED BY <1>7, <3>2, <3>3
  <2> QED BY <1>1, <2>1, <2>2, <2>3, <2>4 DEF LockOK
<1>10. TypeOK'
  BY <1>1, <1>4 DEF TypeOK, disk, setup, node
<1>11. TasksOK' /\ SetupOK'
  BY <1>1 DEF TasksOK, SetupOK, ConfigOK, Up, disk, setup, node
<1>12. DiskOK'
  BY <1>1 DEF DiskOK, Overwriting, disk, setup, node
<1>13. StartsFromKnownCheckpoint' /\ NotBehind'
  BY <1>1 DEF StartsFromKnownCheckpoint, UserNamed, NotBehind, Up, disk, setup, node
<1> QED BY <1>9, <1>10, <1>11, <1>12, <1>13

(* The process ends: what is on disk is left to the next.                  *)
LEMMA ExitKeeps ==
    ASSUME Inv, Exit, now' = now, boots' = boots, seen' = seen,
           file' \in [Dirs -> Checkpoint \cup {None, Torn}],
           saved' \in [Dirs -> Checkpoint \cup {None}],
           \A d \in Dirs : file'[d] \in Checkpoint =>
              file'[d] \in seen /\ (d \in Networks => file'[d].network = d),
           \A d \in Dirs : saved'[d] # None => file'[d] = saved'[d]
    PROVE  Inv'
<1>1. /\ pc' = [t \in Tasks |-> "off"] /\ holders' = {} /\ queue' = <<>>
      /\ start' = None /\ config' = None /\ source' = "config" /\ counter' = 0
      /\ checkpoint' = None /\ finalized' = None /\ last_checkpoint' = None
  BY DEF Exit
<1>2. \A t \in Tasks : pc'[t] = "off"
  BY <1>1
<1>3. TypeOK'
  <2>1. pc' \in [Tasks -> Labels]
    BY <1>1 DEF Labels
  <2>2. queue' \in Seq(Tasks)
    BY <1>1
  <2> QED BY <1>1, <2>1, <2>2 DEF TypeOK, Inv
<1>4. TasksOK'
  BY <1>1, <1>2, TaskFacts DEF TasksOK
<1>5. LockOK'
  BY <1>1, <1>2, TaskFacts DEF LockOK
<1>6. SetupOK'
  BY <1>1, <1>2, TaskFacts DEF SetupOK, Up, First, Retry, Done
<1>7. DiskOK'
  BY <1>1, <1>2, TaskFacts DEF DiskOK, Overwriting
<1>8. StartsFromKnownCheckpoint' /\ NotBehind'
  BY <1>1, <1>2, TaskFacts DEF StartsFromKnownCheckpoint, NotBehind, Up
<1> QED BY <1>3, <1>4, <1>5, <1>6, <1>7, <1>8 DEF Inv

(* The process ends while nothing is being written.                        *)
LEMMA QuietExitKeeps ==
    ASSUME Inv, Exit, now' = now, disk' = disk, ~ Overwriting
    PROVE  Inv'
<1>1. boots' = boots /\ seen' = seen /\ file' = file /\ saved' = saved
  BY DEF disk
<1>2. /\ file \in [Dirs -> Checkpoint \cup {None, Torn}]
      /\ saved \in [Dirs -> Checkpoint \cup {None}]
  BY DEF Inv, TypeOK
<1>3. /\ \A d \in Dirs : file[d] \in Checkpoint =>
            file[d] \in seen /\ (d \in Networks => file[d].network = d)
      /\ \A d \in Dirs : saved[d] # None => file[d] = saved[d]
  BY DEF Inv, DiskOK
<1> QED BY <1>1, <1>2, <1>3, ExitKeeps

(* The process is killed.                                                  *)
LEMMA StopKeeps ==
    ASSUME Inv, Up, Stop, now' = now, boots' = boots, file' = file, seen' = seen
    PROVE  Inv'
<1> DEFINE dir == config.data_dir
<1>1. /\ file \in [Dirs -> Checkpoint \cup {None, Torn}]
      /\ saved \in [Dirs -> Checkpoint \cup {None}]
  BY DEF Inv, TypeOK
<1>2. saved' = [saved EXCEPT ![dir] = IF file[dir] = Torn THEN None ELSE saved[dir]]
  BY DEF Stop
<1>3. dir \in Dirs
  BY DEF Inv, SetupOK, ConfigOK
<1>4. /\ \A d \in Dirs : file[d] \in Checkpoint =>
            file[d] \in seen /\ (d \in Networks => file[d].network = d)
      /\ \A d \in Dirs : saved[d] # None => file[d] = saved[d] \/ (Overwriting /\ d = dir)
      /\ Overwriting => file[dir] = Torn
  BY DEF Inv, DiskOK
<1> HIDE DEF dir
<1>5. saved' \in [Dirs -> Checkpoint \cup {None}]
  BY <1>1, <1>2, <1>3
<1>6. \A d \in Dirs : saved'[d] # None => file[d] = saved'[d]
  BY <1>1, <1>2, <1>3, <1>4
<1> QED BY <1>1, <1>4, <1>5, <1>6, ExitKeeps DEF Stop

(* The labels of the main task.                                            *)
LEMMA MainLabels ==
    /\ First \subseteq Labels /\ Retry \subseteq Labels /\ Done \subseteq Labels
    /\ "warn" \in Labels /\ "off" \in Labels
    /\ First \cap Retry = {} /\ First \cap Done = {} /\ Retry \cap Done = {}
    /\ "off" \notin First \cup Retry \cup Done /\ "warn" \notin First \cup Retry \cup Done
BY DEF First, Retry, Done, Labels, Writing, Reading

(* start goes on, before the client has synced.                            *)
LEMMA MainMoves ==
    ASSUME Inv, NEW l, At("main", l), l \in {"warn"} \cup First \cup Retry,
           NEW m \in {"warn"} \cup First \cup Retry, Goto("main", m),
           m \in First => source' = "config",
           m \in Retry => source' \in {"fallback", "external"},
           m \in {"warn"} \cup Retry => config.chain \in Networks,
           source' = "config" => source = "config",
           source' \in {"config", "fallback", "external"},
           now' = now, disk' = disk, setup' = setup, node' = node, counter' = counter
    PROVE  Inv'
<1> USE DEF Inv, disk, setup, node
<1>1. m \in Labels /\ ("main" \in holders \/ pc["main"] \notin Locking)
  BY MainLabels DEF At, Locking
<1>2. /\ LockOK' /\ pc' \in [Tasks -> Labels] /\ holders' \subseteq Tasks /\ queue' \in Seq(Tasks)
      /\ pc'["main"] = m /\ \A u \in Tasks \ {"main"} : pc'[u] = pc[u]
  BY <1>1, TaskFacts, GotoLock
<1>3. pc["main"] = l /\ l \notin Done /\ m \notin Done /\ l # "pending" /\ l # "off" /\ m # "off"
      /\ m # "pending" /\ m # "write_file" /\ l # "write_file"
  BY MainLabels DEF At, Done
<1>4. /\ pc'["advance"] = pc["advance"] /\ pc'["shutdown"] = pc["shutdown"]
      /\ \A q \in Queries : pc'[q] = pc[q]
  BY <1>2, TaskFacts
<1>5. TypeOK'
  BY <1>2 DEF TypeOK
<1>6. TasksOK'
  BY <1>2, <1>3, <1>4 DEF TasksOK
<1>7. SetupOK'
  BY <1>2, <1>3, MainLabels DEF SetupOK, ConfigOK, Up
<1>8. DiskOK'
  <2>1. Overwriting' <=> Overwriting
    BY <1>2, <1>3, <1>4 DEF Overwriting
  <2> QED BY <2>1 DEF DiskOK
<1>9. StartsFromKnownCheckpoint'
  BY <1>2, <1>3 DEF StartsFromKnownCheckpoint, UserNamed, Up
<1>10. NotBehind'
  BY <1>2, <1>3 DEF NotBehind, Up
<1> QED BY <1>2, <1>5, <1>6, <1>7, <1>8, <1>9, <1>10

(* Another task goes on.                                                   *)
LEMMA OtherMoves ==
    ASSUME Inv, NEW t \in Tasks, t # "main", NEW l \in Labels, Goto(t, l),
           t \in holders \/ pc[t] \notin Locking,
           pc[t] # "write_file", l # "write_file",
           t \in Queries => l \in {"off", "answer"},
           t = "advance" => pc["main"] = "pending" /\ l \in {"advance", "duration", "sleep"},
           t = "shutdown" => pc["main"] = "pending" /\ l = "save" /\ counter' # 0,
           counter' \in 0 .. 2, counter' = 0 => counter = 0,
           now' = now, disk' = disk, setup' = setup, node' = node, source' = source
    PROVE  Inv'
<1> USE DEF Inv, disk, setup, node
<1>1. /\ LockOK' /\ pc' \in [Tasks -> Labels] /\ holders' \subseteq Tasks /\ queue' \in Seq(Tasks)
      /\ pc'[t] = l /\ \A u \in Tasks \ {t} : pc'[u] = pc[u]
  BY TaskFacts, GotoLock
<1>2. pc'["main"] = pc["main"]
  BY <1>1, TaskFacts
<1>3. t \in {"advance", "shutdown"} \/ t \in Queries
  BY TaskFacts
<1>4. TypeOK'
  BY <1>1 DEF TypeOK
<1>5. TasksOK'
  <2>1. CASE t \in Queries
    <3>1. pc'["advance"] = pc["advance"] /\ pc'["shutdown"] = pc["shutdown"]
      BY <1>1, <2>1, TaskFacts
    <3>2. \A q \in Queries : pc'[q] \in {"off", "answer"}
      BY <1>1, <2>1, TaskFacts DEF TasksOK
    <3> QED BY <1>2, <3>1, <3>2 DEF TasksOK
  <2>2. CASE t = "advance"
    <3>1. pc'["shutdown"] = pc["shutdown"] /\ \A q \in Queries : pc'[q] = pc[q]
      BY <1>1, <2>2, TaskFacts
    <3> QED BY <1>1, <1>2, <2>2, <3>1 DEF TasksOK
  <2>3. CASE t = "shutdown"
    <3>1. pc'["advance"] = pc["advance"] /\ \A q \in Queries : pc'[q] = pc[q]
      BY <1>1, <2>3, TaskFacts
    <3> QED BY <1>1, <1>2, <2>3, <3>1 DEF TasksOK
  <2> QED BY <1>3, <2>1, <2>2, <2>3
<1>6. SetupOK'
  BY <1>2 DEF SetupOK, ConfigOK, Up
<1>7. DiskOK'
  <2>1. pc'["shutdown"] = "write_file" <=> pc["shutdown"] = "write_file"
    BY <1>1, TaskFacts
  <2>2. Overwriting' <=> Overwriting
    BY <1>2, <2>1 DEF Overwriting
  <2> QED BY <2>2 DEF DiskOK
<1>8. StartsFromKnownCheckpoint' /\ NotBehind'
  BY <1>2 DEF StartsFromKnownCheckpoint, UserNamed, NotBehind, Up
<1> QED BY <1>1, <1>4, <1>5, <1>6, <1>7, <1>8

(* Only the main task is past its start or on its way to it while it is    *)
(* not pending, and then the file is as it was saved.                      *)
LEMMA NotOverwriting ==
    ASSUME Inv, pc["main"] \notin {"pending", "write_file"}
    PROVE  ~ Overwriting
BY DEF Inv, TasksOK, Overwriting

(* A process starts from what the last one left.                           *)
LEMMA BuildKeeps ==
    ASSUME Inv, Build
    PROVE  Inv'
<1>1. /\ pc["main"] = "off" /\ boots < MaxBoots /\ boots' = boots + 1
      /\ start' \in Starts /\ config' = configuration(start') /\ config' # Err
      /\ checkpoint' = IF config'.checkpoint # None THEN config'.checkpoint
                                                    ELSE load_checkpoint(config')
      /\ Goto("main", "rpc")
      /\ now' = now /\ file' = file /\ seen' = seen /\ saved' = saved /\ source' = source
      /\ finalized' = finalized /\ last_checkpoint' = last_checkpoint /\ counter' = counter
  BY DEF Build, Up
<1>2. ConfigOK(start', config')
  BY <1>1, ConfigurationFacts
<1>3. /\ config'.data_dir \in Dirs /\ config'.checkpoint \in Checkpoint \cup {None}
      /\ config'.default_checkpoint \in Checkpoint \cup {EmptyCheckpoint}
      /\ DOMAIN config' = Fields
  BY <1>2 DEF ConfigOK
<1>4. "rpc" \in Labels /\ pc["main"] \notin Locking /\ "rpc" \in First
  BY <1>1, TaskFacts, MainLabels DEF First
<1>5. /\ LockOK' /\ pc' \in [Tasks -> Labels] /\ holders' \subseteq Tasks /\ queue' \in Seq(Tasks)
      /\ pc'["main"] = "rpc" /\ \A u \in Tasks \ {"main"} : pc'[u] = pc[u]
  BY <1>1, <1>4, TaskFacts, GotoLock DEF Inv
<1>6. /\ pc'["advance"] = pc["advance"] /\ pc'["shutdown"] = pc["shutdown"]
      /\ \A q \in Queries : pc'[q] = pc[q]
  BY <1>5, TaskFacts
<1>7. /\ source = "config" /\ last_checkpoint = None /\ pc["shutdown"] = "off"
  BY <1>1, MainLabels DEF Inv, SetupOK, TasksOK, Up
<1>8. /\ file \in [Dirs -> Checkpoint \cup {None, Torn}] /\ saved \in [Dirs -> Checkpoint \cup {None}]
  BY DEF Inv, TypeOK
<1> DEFINE d == config'.data_dir
<1>9. /\ load_checkpoint(config') = IF file[d] \in {None, Torn} THEN config'.default_checkpoint ELSE file[d]
      /\ load_checkpoint(config') \in Checkpoint \cup {EmptyCheckpoint}
      /\ file[d] \notin {None, Torn} => file[d] \in Checkpoint
  BY <1>3, <1>8 DEF load_checkpoint
<1>10. checkpoint' \in Checkpoint \cup {EmptyCheckpoint}
  BY <1>1, <1>3, <1>9
<1>11. ~ Overwriting /\ ~ Overwriting'
  BY <1>1, <1>5, <1>6, <1>7 DEF Overwriting
<1>12. TypeOK'
  <2>1. boots' \in 0 .. MaxBoots
    <3>1. boots \in 0 .. MaxBoots /\ MaxBoots \in Nat
      BY ClientAssumption DEF Inv, TypeOK
    <3> QED BY <1>1, <3>1
  <2> QED BY <1>1, <1>3, <1>5, <1>10, <2>1 DEF TypeOK, Inv
<1>13. TasksOK'
  BY <1>1, <1>4, <1>5, <1>6 DEF TasksOK, Inv
<1>14. SetupOK'
  BY <1>1, <1>2, <1>4, <1>5, <1>7, <1>10, MainLabels DEF SetupOK, Up
<1>15. DiskOK'
  BY <1>1, <1>11 DEF DiskOK, Inv
<1>16. NotBehind'
  <2>1. ASSUME config'.checkpoint = None, saved[d] # None
        PROVE  checkpoint' = saved[d] /\ saved[d] \in Checkpoint
    <3>1. file[d] = saved[d] /\ saved[d] \in Checkpoint
      BY <1>3, <1>8, <1>11, <2>1 DEF Inv, DiskOK
    <3>2. saved[d] \notin {None, Torn}
      BY <3>1, ClientAssumption
    <3> QED BY <1>1, <1>9, <2>1, <3>1, <3>2
  <2>2. \A c \in Checkpoint : c.epoch <= c.epoch
    BY ClientAssumption DEF Checkpoint, Epoch
  <2> QED BY <1>1, <1>4, <1>5, <1>7, <2>1, <2>2, MainLabels DEF NotBehind
<1>17. StartsFromKnownCheckpoint'
  <2>1. checkpoint' \in seen' \cup {config'.default_checkpoint, config'.checkpoint}
    BY <1>1, <1>3, <1>8, <1>9 DEF Inv, DiskOK
  <2>2. ASSUME ~ UserNamed'
        PROVE  \/ checkpoint'.network = config'.chain
               \/ None \in {checkpoint'.network, config'.chain}
    <3>1. /\ config'.checkpoint = None
          /\ start'.program = "main" /\ "data_dir" \notin DOMAIN start'.cli
      BY <1>1, <2>2, StartsAssumption DEF UserNamed
    <3>2. /\ d \in Networks /\ config'.chain \in {d, None}
          /\ config'.default_checkpoint.network \in {d, None}
      BY <1>2, <3>1 DEF ConfigOK
    <3>3. checkpoint' = IF file[d] \in {None, Torn} THEN config'.default_checkpoint ELSE file[d]
      BY <1>1, <1>9, <3>1
    <3>4. file[d] \notin {None, Torn} => file[d].network = d
      BY <1>3, <1>9, <3>2 DEF Inv, DiskOK
    <3> QED BY <3>2, <3>3, <3>4
  <2> QED BY <2>1, <2>2 DEF StartsFromKnownCheckpoint
<1> QED BY <1>5, <1>12, <1>13, <1>14, <1>15, <1>16, <1>17 DEF Inv

(* The finalized header moves on.                                          *)
LEMMA FinalizesFacts ==
    ASSUME Inv, NEW e \in Epoch, Finalizes(e), config.chain \in Networks
    PROVE  /\ finalized' \in Epoch /\ finalized' \in Nat /\ e \in Nat /\ e <= finalized'
           /\ \/ last_checkpoint' = last_checkpoint
              \/ /\ last_checkpoint' \in Checkpoint /\ last_checkpoint'.network = config.chain
                 /\ last_checkpoint'.epoch \in Nat
                 /\ e < last_checkpoint'.epoch /\ last_checkpoint'.epoch <= finalized'
           /\ seen' = seen \cup {last_checkpoint'} /\ seen' \subseteq Checkpoint \cup {None}
           /\ last_checkpoint' \in Checkpoint \cup {None}
           /\ checkpoint' = checkpoint
<1>1. MaxEpoch \in Nat /\ now \in 0 .. MaxEpoch /\ e \in Nat
  BY ClientAssumption DEF Inv, TypeOK, Epoch
<1>2. PICK f \in e .. now :
         /\ finalized' = f
         /\ last_checkpoint' \in
               {last_checkpoint} \cup [network : {config.chain}, epoch : (e + 1) .. f]
         /\ seen' = seen \cup {last_checkpoint'}
         /\ UNCHANGED checkpoint
  BY DEF Finalizes
<1>3. f \in Epoch /\ f \in Nat /\ e <= f
  BY <1>1, <1>2 DEF Epoch
<1>4. ASSUME last_checkpoint' # last_checkpoint
      PROVE  /\ last_checkpoint' \in Checkpoint /\ last_checkpoint'.network = config.chain
             /\ last_checkpoint'.epoch \in Nat
             /\ e < last_checkpoint'.epoch /\ last_checkpoint'.epoch <= f
  <2>1. last_checkpoint' \in [network : {config.chain}, epoch : (e + 1) .. f]
    BY <1>2, <1>4
  <2>2. last_checkpoint'.network = config.chain /\ last_checkpoint'.epoch \in (e + 1) .. f
    BY <2>1
  <2>3. /\ last_checkpoint'.epoch \in Nat /\ last_checkpoint'.epoch \in Epoch
        /\ e < last_checkpoint'.epoch /\ last_checkpoint'.epoch <= f
    BY <1>1, <1>3, <2>2 DEF Epoch
  <2>4. last_checkpoint' \in Checkpoint
    BY <2>1, <2>2, <2>3 DEF Checkpoint
  <2> QED BY <2>2, <2>3, <2>4
<1>5. last_checkpoint' \in Checkpoint \cup {None} /\ seen \subseteq Checkpoint \cup {None}
  BY <1>4 DEF Inv, TypeOK
<1> QED BY <1>1, <1>2, <1>3, <1>4, <1>5

(* The epoch of a checkpoint.                                              *)
LEMMA EpochFacts ==
    /\ Epoch \subseteq Nat
    /\ \A c \in Checkpoint \cup {EmptyCheckpoint} : c.epoch \in Epoch /\ c.epoch \in Nat
<1>1. Epoch \subseteq Nat /\ 0 \in Epoch
  BY ClientAssumption DEF Epoch
<1>2. \A c \in Checkpoint : c.epoch \in Epoch
  BY DEF Checkpoint
<1>3. EmptyCheckpoint.epoch = 0
  BY DEF EmptyCheckpoint
<1> QED BY <1>1, <1>2, <1>3

(* The client has synced: from the configured checkpoint or a fallback's.  *)
LEMMA SyncedKeeps ==
    ASSUME Inv, Synced, \E l \in {"sync", "resync"} : At("main", l)
    PROVE  Inv'
<1>1. /\ Served /\ Finalizes(checkpoint.epoch) /\ Goto("main", "save")
      /\ now' = now /\ boots' = boots /\ file' = file /\ saved' = saved
      /\ start' = start /\ config' = config /\ source' = source /\ counter' = counter
  BY DEF Synced, setup
<1>2. /\ pc["main"] \in {"sync", "resync"} /\ "main" \in holders
      /\ pc["main"] \in First \cup Retry
  BY DEF At, Writing, First, Retry
<1>3. /\ start \in Starts /\ ConfigOK(start, config) /\ last_checkpoint = None
      /\ checkpoint \in Checkpoint \cup {EmptyCheckpoint}
  BY <1>2, MainLabels DEF Inv, SetupOK, Up
<1>4. config.chain \in Networks
  BY <1>1, <1>3 DEF Served, ConfigOK
<1>5. checkpoint.epoch \in Epoch /\ checkpoint.epoch \in Nat
  BY <1>3, EpochFacts
<1> DEFINE e == checkpoint.epoch
<1>6. /\ finalized' \in Epoch /\ finalized' \in Nat /\ e <= finalized'
      /\ \/ last_checkpoint' = None
         \/ /\ last_checkpoint' \in Checkpoint /\ last_checkpoint'.network = config.chain
            /\ last_checkpoint'.epoch \in Nat
            /\ e < last_checkpoint'.epoch /\ last_checkpoint'.epoch <= finalized'
      /\ seen' = seen \cup {last_checkpoint'} /\ seen' \subseteq Checkpoint \cup {None}
      /\ last_checkpoint' \in Checkpoint \cup {None}
      /\ checkpoint' = checkpoint
  <2> HIDE DEF e
  <2>1. e \in Epoch /\ Finalizes(e)
    BY <1>1, <1>5 DEF e
  <2> QED BY <1>3, <1>4, <2>1, FinalizesFacts
<1>7. "save" \in Labels /\ "save" \in Done
  BY MainLabels DEF Done
<1>8. /\ LockOK' /\ pc' \in [Tasks -> Labels] /\ holders' \subseteq Tasks /\ queue' \in Seq(Tasks)
      /\ pc'["main"] = "save" /\ \A u \in Tasks \ {"main"} : pc'[u] = pc[u]
  BY <1>1, <1>2, <1>7, TaskFacts, GotoLock DEF Inv
<1>9. /\ pc'["advance"] = pc["advance"] /\ pc'["shutdown"] = pc["shutdown"]
      /\ \A q \in Queries : pc'[q] = pc[q]
  BY <1>8, TaskFacts
<1>10. TypeOK'
  BY <1>1, <1>6, <1>8 DEF TypeOK, Inv
<1>11. TasksOK'
  BY <1>1, <1>2, <1>7, <1>8, <1>9 DEF TasksOK, Inv
<1>12. SetupOK'
  BY <1>1, <1>3, <1>4, <1>6, <1>7, <1>8, MainLabels DEF SetupOK, Up, ConfigOK
<1>13. DiskOK'
  <2>1. ~ Overwriting /\ ~ Overwriting'
    BY <1>2, <1>8, <1>9, NotOverwriting DEF Overwriting
  <2> QED BY <1>1, <1>6, <2>1 DEF DiskOK, Inv
<1>14. StartsFromKnownCheckpoint'
  BY <1>1, <1>2, <1>6 DEF StartsFromKnownCheckpoint, UserNamed, Up, Inv
<1>15. NotBehind'
  <2> DEFINE d == config.data_dir
  <2>1. SUFFICES ASSUME source = "config", config.checkpoint = None, saved[d] # None
                 PROVE  /\ saved[d].epoch <= finalized'
                        /\ last_checkpoint' # None => saved[d].epoch <= last_checkpoint'.epoch
    BY <1>1, <1>7, <1>8 DEF NotBehind
  <2>2. saved[d].epoch <= e
    BY <1>2, <2>1, MainLabels DEF Inv, NotBehind, Up
  <2>3. saved[d].epoch \in Nat
    <3>1. d \in Dirs /\ saved \in [Dirs -> Checkpoint \cup {None}]
      BY <1>3 DEF ConfigOK, Inv, TypeOK
    <3> HIDE DEF d
    <3>2. saved[d] \in Checkpoint
      BY <2>1, <3>1
    <3> QED BY <3>2, EpochFacts
  <2> HIDE DEF d
  <2> QED BY <1>5, <1>6, <2>2, <2>3
<1> QED BY <1>8, <1>10, <1>11, <1>12, <1>13, <1>14, <1>15 DEF Inv

(* A new consensus client, with a checkpoint of a fallback.                *)
LEMMA ReplaceKeeps ==
    ASSUME Inv, Replace
    PROVE  Inv'
<1>1. /\ pc["main"] = "replace" /\ "main" \in holders
      /\ checkpoint' \in [network : {IF source = "external" THEN fallback_network(config)
                                                          ELSE config.chain},
                          epoch : 0 .. now]
      /\ finalized' = None /\ last_checkpoint' = None
      /\ Goto("main", "resync")
      /\ now' = now /\ boots' = boots /\ file' = file /\ seen' = seen /\ saved' = saved
      /\ start' = start /\ config' = config /\ source' = source /\ counter' = counter
  BY DEF Replace, At, Writing, disk, setup
<1>2. pc["main"] \in Retry /\ "resync" \in Retry /\ "resync" \in Labels
  BY <1>1, MainLabels DEF Retry
<1>3. /\ start \in Starts /\ ConfigOK(start, config) /\ source # "config"
      /\ config.chain \in Networks
  BY <1>2, MainLabels DEF Inv, SetupOK, Up
<1>4. checkpoint' \in Checkpoint
  <2>1. BuiltIn \subseteq Networks /\ MaxEpoch \in Nat
    BY ClientAssumption
  <2>2. fallback_network(config) \in Networks
    BY <2>1 DEF fallback_network, BuiltIn
  <2>3. 0 .. now \subseteq Epoch
    BY <2>1 DEF Inv, TypeOK, Epoch
  <2> QED BY <1>1, <1>3, <2>2, <2>3 DEF Checkpoint
<1>5. /\ LockOK' /\ pc' \in [Tasks -> Labels] /\ holders' \subseteq Tasks /\ queue' \in Seq(Tasks)
      /\ pc'["main"] = "resync" /\ \A u \in Tasks \ {"main"} : pc'[u] = pc[u]
  BY <1>1, <1>2, TaskFacts, GotoLock DEF Inv
<1>6. /\ pc'["advance"] = pc["advance"] /\ pc'["shutdown"] = pc["shutdown"]
      /\ \A q \in Queries : pc'[q] = pc[q]
  BY <1>5, TaskFacts
<1>7. TypeOK'
  BY <1>1, <1>4, <1>5 DEF TypeOK, Inv
<1>8. TasksOK'
  BY <1>1, <1>2, <1>5, <1>6 DEF TasksOK, Inv
<1>9. SetupOK'
  BY <1>1, <1>2, <1>3, <1>4, <1>5, MainLabels DEF SetupOK, Up
<1>10. DiskOK'
  <2>1. ~ Overwriting /\ ~ Overwriting'
    BY <1>1, <1>5, <1>6, NotOverwriting DEF Overwriting
  <2> QED BY <1>1, <2>1 DEF DiskOK, Inv
<1>11. StartsFromKnownCheckpoint' /\ NotBehind'
  BY <1>1, <1>3 DEF StartsFromKnownCheckpoint, NotBehind
<1> QED BY <1>5, <1>7, <1>8, <1>9, <1>10, <1>11 DEF Inv

(* The client advances.                                                    *)
LEMMA AdvanceKeeps ==
    ASSUME Inv, Advance
    PROVE  Inv'
<1>1. /\ pc["advance"] = "advance" /\ "advance" \in holders
      /\ Finalizes(finalized) /\ Goto("advance", "duration")
      /\ now' = now /\ boots' = boots /\ file' = file /\ saved' = saved
      /\ start' = start /\ config' = config /\ source' = source /\ counter' = counter
  BY DEF Advance, AdvanceReturns, At, Writing, setup
<1>2. pc["main"] = "pending" /\ "pending" \in Done
  BY <1>1 DEF Inv, TasksOK, Done
<1>3. /\ finalized \in Epoch /\ config.chain \in Networks /\ ConfigOK(start, config)
      /\ start \in Starts /\ checkpoint \in Checkpoint \cup {EmptyCheckpoint}
  BY <1>2, MainLabels DEF Inv, SetupOK, Up
<1>4. /\ finalized' \in Epoch /\ finalized' \in Nat /\ finalized \in Nat /\ finalized <= finalized'
      /\ \/ last_checkpoint' = last_checkpoint
         \/ /\ last_checkpoint' \in Checkpoint /\ last_checkpoint'.network = config.chain
            /\ last_checkpoint'.epoch \in Nat
            /\ finalized < last_checkpoint'.epoch /\ last_checkpoint'.epoch <= finalized'
      /\ seen' = seen \cup {last_checkpoint'} /\ seen' \subseteq Checkpoint \cup {None}
      /\ last_checkpoint' \in Checkpoint \cup {None}
      /\ checkpoint' = checkpoint
  BY <1>1, <1>3, FinalizesFacts
<1>5. "duration" \in Labels /\ "duration" # "write_file"
  BY TaskFacts DEF Locking, Reading
<1>6. /\ LockOK' /\ pc' \in [Tasks -> Labels] /\ holders' \subseteq Tasks /\ queue' \in Seq(Tasks)
      /\ pc'["advance"] = "duration" /\ \A u \in Tasks \ {"advance"} : pc'[u] = pc[u]
  BY <1>1, <1>5, TaskFacts, GotoLock DEF Inv
<1>7. /\ pc'["main"] = pc["main"] /\ pc'["shutdown"] = pc["shutdown"]
      /\ \A q \in Queries : pc'[q] = pc[q]
  BY <1>6, TaskFacts
<1>8. TypeOK'
  BY <1>1, <1>4, <1>6 DEF TypeOK, Inv
<1>9. TasksOK'
  BY <1>1, <1>2, <1>6, <1>7 DEF TasksOK, Inv
<1>10. SetupOK'
  <2>1. ASSUME last_checkpoint' # None
        PROVE  /\ last_checkpoint' \in seen' /\ last_checkpoint'.network = config'.chain
               /\ last_checkpoint'.epoch <= finalized'
    <3>1. CASE last_checkpoint' = last_checkpoint
      <4>1. /\ last_checkpoint \in seen /\ last_checkpoint.network = config.chain
            /\ last_checkpoint.epoch <= finalized
        BY <2>1, <3>1 DEF Inv, SetupOK
      <4>2. last_checkpoint.epoch \in Nat
        BY <1>4, <2>1, <3>1, EpochFacts
      <4> QED BY <1>1, <1>4, <3>1, <4>1, <4>2
    <3>2. CASE last_checkpoint' # last_checkpoint
      BY <1>1, <1>4, <3>2
    <3> QED BY <3>1, <3>2
  <2> QED BY <1>1, <1>2, <1>3, <1>4, <1>7, <2>1, MainLabels DEF SetupOK, Up
<1>11. DiskOK'
  <2>1. Overwriting' <=> Overwriting
    BY <1>7 DEF Overwriting
  <2>2. last_checkpoint # None => last_checkpoint' # None
    BY <1>4, ClientAssumption
  <2> QED BY <1>1, <1>4, <2>1, <2>2 DEF DiskOK, Inv
<1>12. StartsFromKnownCheckpoint'
  BY <1>1, <1>4, <1>7 DEF StartsFromKnownCheckpoint, UserNamed, Up, Inv
<1>13. NotBehind'
  <2> DEFINE d == config.data_dir
  <2>1. SUFFICES ASSUME source = "config", config.checkpoint = None, saved[d] # None
                 PROVE  /\ saved[d].epoch <= finalized'
                        /\ last_checkpoint' # None => saved[d].epoch <= last_checkpoint'.epoch
    BY <1>1, <1>2, <1>7 DEF NotBehind
  <2>2. /\ saved[d].epoch <= finalized
        /\ last_checkpoint # None => saved[d].epoch <= last_checkpoint.epoch
    BY <1>2, <2>1 DEF Inv, NotBehind, Up
  <2>3. saved[d].epoch \in Nat
    <3>1. d \in Dirs /\ saved \in [Dirs -> Checkpoint \cup {None}]
      BY <1>3 DEF ConfigOK, Inv, TypeOK
    <3> HIDE DEF d
    <3>2. saved[d] \in Checkpoint
      BY <2>1, <3>1
    <3> QED BY <3>2, EpochFacts
  <2> HIDE DEF d
  <2> QED BY <1>4, <2>2, <2>3
<1> QED BY <1>6, <1>8, <1>9, <1>10, <1>11, <1>12, <1>13 DEF Inv

(* start returns, without the lock, and the advance thread waits for it.   *)
LEMMA ReturnLock ==
    ASSUME TypeOK, LockOK, "main" \in holders, pc["advance"] = "off",
           pc' = [pc EXCEPT !["main"] = "pending", !["advance"] = "advance"],
           holders' = holders \ {"main"}, queue' = Append(queue, "advance")
    PROVE  /\ LockOK' /\ pc' \in [Tasks -> Labels]
           /\ holders' \subseteq Tasks /\ queue' \in Seq(Tasks)
           /\ pc'["main"] = "pending" /\ pc'["advance"] = "advance"
           /\ \A u \in Tasks \ {"main", "advance"} : pc'[u] = pc[u]
<1>1. /\ pc \in [Tasks -> Labels] /\ holders \subseteq Tasks /\ queue \in Seq(Tasks)
  BY DEF TypeOK
<1>2. "advance" \in Locking /\ "pending" \in Labels /\ Locking \subseteq Labels
  BY TaskFacts DEF Locking, Writing, Labels
<1>3. /\ pc' \in [Tasks -> Labels] /\ pc'["main"] = "pending" /\ pc'["advance"] = "advance"
      /\ \A u \in Tasks \ {"main", "advance"} : pc'[u] = pc[u]
  BY <1>1, <1>2, TaskFacts
<1>4. /\ Len(queue) \in Nat /\ DOMAIN queue = 1 .. Len(queue)
      /\ \A i \in DOMAIN queue : queue[i] \in Tasks \ {"main", "advance"}
  <2>1. Len(queue) \in Nat /\ DOMAIN queue = 1 .. Len(queue)
    BY <1>1, LenProperties
  <2>2. \A i \in 1 .. Len(queue) : queue[i] \in Tasks
    BY <1>1, ElementOfSeq
  <2>3. \A i \in DOMAIN queue : queue[i] # "main" /\ queue[i] # "advance"
    BY TaskFacts DEF LockOK
  <2> QED BY <2>1, <2>2, <2>3
<1>5. /\ queue' \in Seq(Tasks) /\ Len(queue') = Len(queue) + 1
      /\ \A i \in 1 .. Len(queue) : queue'[i] = queue[i]
      /\ queue'[Len(queue) + 1] = "advance"
  BY <1>1, TaskFacts, AppendProperties
<1>6. DOMAIN queue' = 1 .. Len(queue) + 1
  BY <1>5, LenProperties
<1>7. \A i \in DOMAIN queue' :
         \/ i \in DOMAIN queue /\ queue'[i] = queue[i]
         \/ i = Len(queue) + 1 /\ queue'[i] = "advance"
  <2>1. \A i \in 1 .. Len(queue) + 1 : i \in 1 .. Len(queue) \/ i = Len(queue) + 1
    BY <1>4
  <2> QED BY <1>4, <1>5, <1>6, <2>1
<1>8. /\ \A i \in DOMAIN queue : i \in DOMAIN queue' /\ queue'[i] = queue[i]
      /\ Len(queue) + 1 \in DOMAIN queue'
  BY <1>4, <1>5, <1>6
<1>9. "advance" \notin holders
  BY TaskFacts DEF LockOK
<1>10. \A u \in holders' : pc'[u] \in Locking /\ (pc'[u] \in Writing => holders' = {u})
  BY <1>1, <1>3, <1>9 DEF LockOK
<1>11. \A i \in DOMAIN queue' : pc'[queue'[i]] \in Locking /\ queue'[i] \notin holders'
  BY <1>2, <1>3, <1>4, <1>7, <1>9 DEF LockOK
<1>12. \A i, j \in DOMAIN queue' : queue'[i] = queue'[j] => i = j
  BY <1>4, <1>7 DEF LockOK
<1>13. \A u \in Tasks : pc'[u] \in Locking =>
         u \in holders' \/ \E i \in DOMAIN queue' : queue'[i] = u
  <2>1. TAKE u \in Tasks
  <2>2. CASE u = "advance"
    BY <1>5, <1>8, <2>2
  <2>3. CASE u = "main"
    BY <1>3, <2>3, TaskFacts
  <2>4. CASE u \notin {"main", "advance"}
    BY <1>3, <1>8, <2>4 DEF LockOK
  <2> QED BY <2>2, <2>3, <2>4
<1> QED BY <1>1, <1>3, <1>5, <1>10, <1>11, <1>12, <1>13 DEF LockOK

(* start returns after the save, with the file as it was saved or torn.    *)
LEMMA ReturnKeeps ==
    ASSUME Inv, pc["main"] \in {"save", "write_file"}, "main" \in holders,
           SaveReturns("main"), now' = now, boots' = boots, seen' = seen,
           file' \in [Dirs -> Checkpoint \cup {None, Torn}],
           saved' \in [Dirs -> Checkpoint \cup {None}],
           \A d \in Dirs : file'[d] \in Checkpoint =>
              file'[d] \in seen /\ (d \in Networks => file'[d].network = d),
           \A d \in Dirs : saved'[d] # None => file'[d] = saved'[d],
           saved'[config.data_dir] \in {saved[config.data_dir], last_checkpoint, None}
    PROVE  Inv'
<1>1. /\ pc' = [pc EXCEPT !["main"] = "pending", !["advance"] = "advance"]
      /\ holders' = holders \ {"main"} /\ queue' = Append(queue, "advance")
      /\ start' = start /\ config' = config /\ source' = source /\ counter' = counter
      /\ checkpoint' = checkpoint /\ finalized' = finalized
      /\ last_checkpoint' = last_checkpoint
  BY DEF SaveReturns, setup, node
<1>2. pc["advance"] = "off" /\ pc["shutdown"] = "off" /\ pc["main"] \in Done /\ "pending" \in Done
  BY DEF Inv, TasksOK, Done
<1>3. /\ LockOK' /\ pc' \in [Tasks -> Labels] /\ holders' \subseteq Tasks /\ queue' \in Seq(Tasks)
      /\ pc'["main"] = "pending" /\ pc'["advance"] = "advance"
      /\ \A u \in Tasks \ {"main", "advance"} : pc'[u] = pc[u]
  BY <1>1, <1>2, ReturnLock DEF Inv
<1>4. pc'["shutdown"] = "off" /\ \A q \in Queries : pc'[q] = pc[q]
  BY <1>2, <1>3, TaskFacts
<1>5. TypeOK'
  BY <1>1, <1>3 DEF Inv, TypeOK
<1>6. TasksOK'
  BY <1>1, <1>2, <1>3, <1>4 DEF Inv, TasksOK
<1>7. SetupOK'
  BY <1>1, <1>2, <1>3, MainLabels DEF Inv, SetupOK, Up
<1>8. DiskOK'
  <2>1. ~ Overwriting'
    BY <1>3, <1>4 DEF Overwriting
  <2> QED BY <2>1 DEF DiskOK
<1>9. StartsFromKnownCheckpoint'
  BY <1>1, <1>2, MainLabels DEF Inv, StartsFromKnownCheckpoint, UserNamed, Up
<1>10. NotBehind'
  <2> DEFINE d == config.data_dir
  <2>1. SUFFICES ASSUME source = "config", config.checkpoint = None, saved'[d] # None
                 PROVE  /\ saved'[d].epoch <= finalized
                        /\ last_checkpoint # None => saved'[d].epoch <= last_checkpoint.epoch
    BY <1>1, <1>2, <1>3 DEF NotBehind
  <2>2. CASE saved'[d] = saved[d]
    BY <1>2, <2>1, <2>2, MainLabels DEF Inv, NotBehind, Up
  <2>3. CASE saved'[d] = last_checkpoint
    <3>1. last_checkpoint \in Checkpoint /\ last_checkpoint # None
      BY <2>1, <2>3 DEF Inv, TypeOK
    <3>2. last_checkpoint.epoch \in Nat /\ last_checkpoint.epoch <= finalized
      BY <3>1, EpochFacts DEF Inv, SetupOK
    <3> QED BY <2>3, <3>2
  <2> QED BY <2>1, <2>2, <2>3
<1> QED BY <1>3, <1>5, <1>6, <1>7, <1>8, <1>9, <1>10 DEF Inv

(* There is nothing to save.                                               *)
LEMMA SaveSkippedKeeps ==
    ASSUME Inv, NEW t \in {"main", "shutdown"}, SaveSkipped(t)
    PROVE  Inv'
<1>1. /\ pc[t] = "save" /\ t \in holders /\ SaveReturns(t) /\ now' = now
      /\ boots' = boots /\ file' = file /\ seen' = seen /\ saved' = saved /\ disk' = disk
  BY DEF SaveSkipped, At, Reading, disk
<1>2. ~ Overwriting
  BY <1>1 DEF Inv, TasksOK, Overwriting
<1>3. CASE t = "main"
  <2>1. /\ file \in [Dirs -> Checkpoint \cup {None, Torn}]
        /\ saved \in [Dirs -> Checkpoint \cup {None}]
    BY DEF Inv, TypeOK
  <2>2. /\ \A d \in Dirs : file[d] \in Checkpoint =>
              file[d] \in seen /\ (d \in Networks => file[d].network = d)
        /\ \A d \in Dirs : saved[d] # None => file[d] = saved[d]
    BY <1>2 DEF Inv, DiskOK
  <2> QED BY <1>1, <1>3, <2>1, <2>2, ReturnKeeps
<1>4. CASE t = "shutdown"
  <2>1. Exit
    BY <1>1, <1>4 DEF SaveReturns
  <2> QED BY <1>1, <1>2, <2>1, QuietExitKeeps
<1> QED BY <1>3, <1>4

(* The file is opened, and emptied.                                        *)
LEMMA TruncateKeeps ==
    ASSUME Inv, NEW t \in {"main", "shutdown"}, Truncate(t)
    PROVE  Inv'
<1> DEFINE dir == config.data_dir
<1>1. /\ pc[t] = "save" /\ t \in holders /\ last_checkpoint # None
      /\ file' = [file EXCEPT ![dir] = Torn]
      /\ pc' = [pc EXCEPT ![t] = "write_file"] /\ holders' = holders /\ queue' = queue
      /\ now' = now /\ boots' = boots /\ seen' = seen /\ saved' = saved
      /\ start' = start /\ config' = config /\ source' = source /\ counter' = counter
      /\ checkpoint' = checkpoint /\ finalized' = finalized
      /\ last_checkpoint' = last_checkpoint
  BY DEF Truncate, At, Reading, setup, node
<1>2. /\ pc \in [Tasks -> Labels] /\ holders \subseteq Tasks /\ queue \in Seq(Tasks)
      /\ file \in [Dirs -> Checkpoint \cup {None, Torn}]
  BY DEF Inv, TypeOK
<1>3. pc["main"] \in {"save", "pending"} /\ pc["main"] \in Done
  BY <1>1 DEF Inv, TasksOK, Done
<1>4. dir \in Dirs
  BY <1>3, MainLabels DEF Inv, SetupOK, ConfigOK, Up
<1>5. /\ "write_file" \in Labels /\ "write_file" \in Locking /\ "write_file" \notin Writing
      /\ t \in Tasks /\ "write_file" \in Done
  BY TaskFacts, MainLabels DEF Locking, Reading, Writing, Done
<1>6. /\ pc' \in [Tasks -> Labels] /\ pc'[t] = "write_file"
      /\ \A u \in Tasks \ {t} : pc'[u] = pc[u]
  BY <1>1, <1>2, <1>5
<1>7. /\ file' \in [Dirs -> Checkpoint \cup {None, Torn}] /\ file'[dir] = Torn
      /\ \A d \in Dirs \ {dir} : file'[d] = file[d]
  BY <1>1, <1>2, <1>4
<1>8. /\ pc'["advance"] = pc["advance"] /\ \A q \in Queries : pc'[q] = pc[q]
      /\ pc'["main"] \in Done
      /\ t = "shutdown" => pc'["main"] = pc["main"]
      /\ t = "main" => pc'["shutdown"] = pc["shutdown"]
  BY <1>3, <1>5, <1>6, TaskFacts
<1>9. TypeOK'
  BY <1>1, <1>2, <1>6, <1>7 DEF Inv, TypeOK
<1>10. TasksOK'
  BY <1>1, <1>3, <1>5, <1>6, <1>8 DEF Inv, TasksOK
<1>11. LockOK'
  <2>1. \A i \in DOMAIN queue : queue[i] \in Tasks
    BY <1>2, ElementOfSeq, LenProperties
  <2>2. \A u \in Tasks : /\ pc'[u] \in Locking <=> pc[u] \in Locking
                         /\ pc'[u] \in Writing => pc[u] \in Writing
    BY <1>1, <1>5, <1>6 DEF Locking, Reading
  <2> QED BY <1>1, <1>2, <2>1, <2>2 DEF Inv, LockOK
<1>12. SetupOK'
  BY <1>1, <1>3, <1>8, MainLabels DEF Inv, SetupOK, Up
<1>13. DiskOK'
  <2>1. Overwriting'
    BY <1>6 DEF Overwriting
  <2>2. ~ Overwriting
    BY <1>1 DEF Inv, TasksOK, Overwriting
  <2>3. Torn \notin Checkpoint
    BY ClientAssumption
  <2> QED BY <1>1, <1>4, <1>7, <2>1, <2>2, <2>3 DEF Inv, DiskOK
<1>14. StartsFromKnownCheckpoint'
  BY <1>1, <1>3, MainLabels DEF Inv, StartsFromKnownCheckpoint, UserNamed, Up
<1>15. NotBehind'
  BY <1>1, <1>3, <1>8, MainLabels DEF Inv, NotBehind, Up
<1> QED BY <1>9, <1>10, <1>11, <1>12, <1>13, <1>14, <1>15 DEF Inv

(* It is written, or not.                                                  *)
LEMMA WriteFileKeeps ==
    ASSUME Inv, NEW t \in {"main", "shutdown"}, WriteFile(t)
    PROVE  Inv'
<1> DEFINE dir == config.data_dir
<1>1. /\ pc[t] = "write_file" /\ t \in holders /\ SaveReturns(t)
      /\ now' = now /\ boots' = boots /\ seen' = seen
      /\ \/ /\ file' = [file EXCEPT ![dir] = last_checkpoint]
            /\ saved' = [saved EXCEPT ![dir] = last_checkpoint]
         \/ file' = file /\ saved' = [saved EXCEPT ![dir] = None]
  BY DEF WriteFile, At, Reading
<1>2. /\ file \in [Dirs -> Checkpoint \cup {None, Torn}]
      /\ saved \in [Dirs -> Checkpoint \cup {None}]
      /\ last_checkpoint \in Checkpoint \cup {None}
  BY DEF Inv, TypeOK
<1>3. pc["main"] \in {"write_file", "pending"} /\ pc["main"] \in Done
  BY <1>1 DEF Inv, TasksOK, Done
<1>4. /\ dir \in Dirs
      /\ dir \in Networks => config.chain \in {dir, None}
      /\ config.chain \in Networks
  BY <1>3, MainLabels DEF Inv, SetupOK, ConfigOK, Up
<1>5. None \notin Networks
  BY ClientAssumption
<1>6. /\ last_checkpoint # None /\ file[dir] = Torn /\ Torn \notin Checkpoint
      /\ last_checkpoint \in seen /\ last_checkpoint.network = config.chain
  BY <1>1, ClientAssumption DEF Inv, DiskOK, SetupOK, Overwriting
<1>7. /\ \A d \in Dirs : file[d] \in Checkpoint =>
            file[d] \in seen /\ (d \in Networks => file[d].network = d)
      /\ \A d \in Dirs : saved[d] # None => file[d] = saved[d] \/ d = dir
  BY DEF Inv, DiskOK
<1> HIDE DEF dir
<1>8. /\ file' \in [Dirs -> Checkpoint \cup {None, Torn}]
      /\ saved' \in [Dirs -> Checkpoint \cup {None}]
      /\ \A d \in Dirs \ {dir} : file'[d] = file[d] /\ saved'[d] = saved[d]
      /\ \/ file'[dir] = last_checkpoint /\ saved'[dir] = last_checkpoint
         \/ file'[dir] = Torn /\ saved'[dir] = None
  BY <1>1, <1>2, <1>4, <1>6
<1>9. \A d \in Dirs : file'[d] \in Checkpoint =>
         file'[d] \in seen /\ (d \in Networks => file'[d].network = d)
  BY <1>4, <1>5, <1>6, <1>7, <1>8
<1>10. \A d \in Dirs : saved'[d] # None => file'[d] = saved'[d]
  BY <1>7, <1>8
<1>11. saved'[config.data_dir] \in {saved[config.data_dir], last_checkpoint, None}
  BY <1>8 DEF dir
<1>12. CASE t = "main"
  BY <1>1, <1>8, <1>9, <1>10, <1>11, <1>12, ReturnKeeps
<1>13. CASE t = "shutdown"
  <2>1. Exit
    BY <1>1, <1>13 DEF SaveReturns
  <2> QED BY <1>1, <1>8, <1>9, <1>10, <2>1, ExitKeeps
<1> QED BY <1>12, <1>13

(* A process that does not start, and the clock.                           *)
LEMMA OutsideKeeps ==
    ASSUME Inv, BuildFails \/ Tick
    PROVE  Inv'
<1>1. /\ start' = start /\ config' = config /\ pc' = pc /\ holders' = holders /\ queue' = queue
      /\ source' = source /\ checkpoint' = checkpoint /\ finalized' = finalized
      /\ last_checkpoint' = last_checkpoint /\ counter' = counter
      /\ file' = file /\ seen' = seen /\ saved' = saved
  BY DEF BuildFails, Tick, disk, setup, locks, node
<1>2. now' \in Epoch /\ boots' \in 0 .. MaxBoots
  <2>1. /\ now \in 0 .. MaxEpoch /\ boots \in 0 .. MaxBoots
        /\ MaxEpoch \in Nat /\ MaxBoots \in Nat
    BY ClientAssumption DEF Inv, TypeOK, Epoch
  <2>2. CASE BuildFails
    BY <2>1, <2>2 DEF BuildFails, Epoch
  <2>3. CASE Tick
    BY <2>1, <2>3 DEF Tick, disk, Epoch
  <2> QED BY <2>2, <2>3
<1>3. TypeOK'
  BY <1>1, <1>2 DEF Inv, TypeOK
<1>4. TasksOK' /\ LockOK'
  BY <1>1 DEF Inv, TasksOK, LockOK
<1>5. SetupOK' /\ DiskOK'
  BY <1>1 DEF Inv, SetupOK, Up, DiskOK, Overwriting
<1>6. StartsFromKnownCheckpoint' /\ NotBehind'
  BY <1>1 DEF Inv, StartsFromKnownCheckpoint, UserNamed, NotBehind, Up
<1> QED BY <1>3, <1>4, <1>5, <1>6 DEF Inv

(* start, step by step.                                                    *)
LEMMA StartKeeps ==
    ASSUME Inv, StartStep
    PROVE  Inv'
<1> USE DEF At, Writing, Reading
<1>1. source \in {"config", "fallback", "external"}
  BY DEF Inv, TypeOK
<1>2. /\ pc["main"] \in First => source = "config"
      /\ pc["main"] \in Retry => source \in {"fallback", "external"}
      /\ pc["main"] \in {"warn"} \cup Retry => config.chain \in Networks
      /\ pc["main"] = "sync" /\ config.chain # None => config.chain \in Networks
  <2>1. pc["main"] = "sync" => config.chain \in Networks \cup {None}
    BY DEF Inv, SetupOK, Up, ConfigOK
  <2> QED BY <1>1, <2>1 DEF Inv, SetupOK, Served
<1>3. ASSUME Exit, now' = now, disk' = disk, pc["main"] \in {"warn"} \cup First \cup Retry
      PROVE  Inv'
  <2>1. pc["main"] \notin {"pending", "write_file"}
    BY <1>3 DEF First, Retry
  <2> QED BY <1>3, <2>1, NotOverwriting, QuietExitKeeps
<1>4. CASE RpcStart
  <2>1. CASE Goto("main", "sync") /\ UNCHANGED <<setup, source, node, counter>>
    BY <1>1, <1>2, <1>4, <2>1, MainMoves DEF RpcStart, First, Retry
  <2>2. CASE Exit
    BY <1>3, <1>4, <2>2 DEF RpcStart, First
  <2> QED BY <1>4, <2>1, <2>2 DEF RpcStart
<1>5. CASE Sync
  BY <1>5, SyncedKeeps DEF Sync
<1>6. CASE SyncTooOld
  BY <1>1, <1>2, <1>6, MainMoves DEF SyncTooOld, First, Retry
<1>7. CASE SyncFails
  BY <1>3, <1>7 DEF SyncFails, First
<1>8. CASE Warn
  <2>1. CASE source' = "fallback" /\ Goto("main", "fetch")
    BY <1>1, <1>2, <1>8, <2>1, MainMoves DEF Warn, First, Retry
  <2>2. CASE source' = "external" /\ Goto("main", "list")
    BY <1>1, <1>2, <1>8, <2>2, MainMoves DEF Warn, First, Retry
  <2> QED BY <1>8, <2>1, <2>2 DEF Warn
<1>9. CASE NoFallback
  BY <1>3, <1>9 DEF NoFallback
<1>10. CASE List
  BY <1>1, <1>2, <1>10, MainMoves DEF List, First, Retry
<1>11. CASE ChainId
  BY <1>1, <1>2, <1>11, MainMoves DEF ChainId, First, Retry
<1>12. CASE Fetch
  BY <1>1, <1>2, <1>12, MainMoves DEF Fetch, First, Retry
<1>13. CASE GetConfig
  BY <1>1, <1>2, <1>13, MainMoves DEF GetConfig, First, Retry
<1>14. CASE Replace
  BY <1>14, ReplaceKeeps
<1>15. CASE Resync
  BY <1>15, SyncedKeeps DEF Resync
<1>16. CASE FallbackFails
  <2>1. PICK l \in {"list", "fetch", "config", "resync"} : At("main", l)
    BY <1>16 DEF FallbackFails
  <2>2. pc["main"] \in Retry
    BY <2>1 DEF Retry
  <2>3. CASE /\ source' = "external" /\ Goto("main", "list")
             /\ UNCHANGED <<setup, node, counter>>
    BY <1>2, <1>16, <2>1, <2>2, <2>3, MainMoves DEF FallbackFails, First, Retry
  <2>4. CASE Exit
    BY <1>3, <1>16, <2>2, <2>4 DEF FallbackFails
  <2> QED BY <1>16, <2>3, <2>4 DEF FallbackFails
<1>17. CASE FetchPanics
  BY <1>3, <1>17 DEF FetchPanics, Retry
<1> QED BY <1>4, <1>5, <1>6, <1>7, <1>8, <1>9, <1>10, <1>11, <1>12, <1>13, <1>14,
           <1>15, <1>16, <1>17 DEF StartStep

(* The other tasks, and what a user does.                                  *)
LEMMA OthersKeep ==
    ASSUME Inv, \/ Duration \/ Wake \/ CtrlC \/ Shutdown \/ Crash
                \/ \E q \in Queries : Ask(q) \/ Answer(q)
    PROVE  Inv'
<1>1. /\ {"off", "answer", "save", "duration", "advance", "sleep"} \subseteq Labels
      /\ "answer" \in Locking /\ "duration" \in Locking
  BY DEF Labels, Locking, Reading, Writing
<1>2. /\ pc["advance"] # "off" => pc["main"] = "pending"
      /\ counter = 0 => pc["shutdown"] = "off"
      /\ counter \in 0 .. 2
  BY DEF Inv, TasksOK, TypeOK
<1>3. CASE Duration
  <2>1. /\ pc["advance"] = "duration" /\ "advance" \in holders /\ Goto("advance", "sleep")
        /\ UNCHANGED <<now, disk, setup, source, node, counter>>
    BY <1>3 DEF Duration, At, Reading
  <2> QED BY <1>1, <1>2, <2>1, TaskFacts, OtherMoves
<1>4. CASE Wake
  <2>1. /\ pc["advance"] = "sleep" /\ Goto("advance", "advance")
        /\ UNCHANGED <<now, disk, setup, source, node, counter>>
    BY <1>4 DEF Wake, At
  <2> QED BY <1>1, <1>2, <2>1, TaskFacts, OtherMoves
<1>5. CASE Shutdown
  <2>1. /\ pc["main"] = "pending" /\ counter = 0 /\ Goto("shutdown", "save") /\ counter' = 1
        /\ UNCHANGED <<now, disk, setup, source, node>>
    BY <1>5 DEF Shutdown
  <2> QED BY <1>1, <1>2, <2>1, TaskFacts, OtherMoves
<1>6. CASE Crash
  BY <1>6, StopKeeps DEF Crash
<1>7. CASE CtrlC
  <2>1. pc["main"] = "pending" /\ now' = now /\ boots' = boots /\ file' = file /\ seen' = seen
    BY <1>7 DEF CtrlC, handler_registered
  <2>2. CASE /\ counter = 0 /\ Goto("shutdown", "save") /\ counter' = 1
             /\ UNCHANGED <<setup, saved, source, node>>
    BY <1>1, <1>2, <2>1, <2>2, TaskFacts, OtherMoves DEF disk
  <2>3. CASE /\ counter > 0 /\ ~ force_quit /\ counter' = counter + 1
             /\ UNCHANGED <<setup, saved, locks, source, node>>
    <3>1. counter' \in 0 .. 2 /\ counter' # 0
      BY <1>2, <2>3 DEF force_quit
    <3>2. /\ start' = start /\ config' = config /\ pc' = pc /\ holders' = holders
          /\ queue' = queue /\ source' = source /\ checkpoint' = checkpoint
          /\ finalized' = finalized /\ last_checkpoint' = last_checkpoint /\ saved' = saved
      BY <2>3 DEF setup, locks, node
    <3>3. TypeOK'
      BY <2>1, <3>1, <3>2 DEF Inv, TypeOK
    <3>4. TasksOK' /\ LockOK'
      BY <3>1, <3>2 DEF Inv, TasksOK, LockOK
    <3>5. SetupOK' /\ DiskOK'
      BY <2>1, <3>2 DEF Inv, SetupOK, Up, DiskOK, Overwriting
    <3>6. StartsFromKnownCheckpoint' /\ NotBehind'
      BY <2>1, <3>2 DEF Inv, StartsFromKnownCheckpoint, UserNamed, NotBehind, Up
    <3> QED BY <3>3, <3>4, <3>5, <3>6 DEF Inv
  <2>4. CASE Stop
    BY <2>1, <2>4, StopKeeps DEF Up
  <2> QED BY <1>7, <2>2, <2>3, <2>4 DEF CtrlC
<1>8. ASSUME NEW q \in Queries, Ask(q)
      PROVE  Inv'
  <2>1. /\ pc[q] = "off" /\ Goto(q, "answer")
        /\ UNCHANGED <<now, disk, setup, source, node, counter>>
    BY <1>8 DEF Ask
  <2> QED BY <1>1, <1>2, <2>1, TaskFacts, OtherMoves
<1>9. ASSUME NEW q \in Queries, Answer(q)
      PROVE  Inv'
  <2>1. /\ pc[q] = "answer" /\ q \in holders /\ Goto(q, "off")
        /\ UNCHANGED <<now, disk, setup, source, node, counter>>
    BY <1>9 DEF Answer, At, Reading
  <2> QED BY <1>1, <1>2, <2>1, TaskFacts, OtherMoves
<1> QED BY <1>3, <1>4, <1>5, <1>6, <1>7, <1>8, <1>9

----------------------------------------------------------------------------
(* The theorems.                                                           *)

(* Initially there is no process and nothing on disk.                      *)
LEMMA InitInv ==
    ASSUME Init
    PROVE  Inv
<1>1. /\ now \in Epoch /\ boots = 0 /\ file = [d \in Dirs |-> None] /\ start = None
      /\ config = None /\ seen = {None} /\ saved = [d \in Dirs |-> None]
      /\ pc = [t \in Tasks |-> "off"] /\ holders = {} /\ queue = <<>>
      /\ source = "config" /\ counter = 0
      /\ checkpoint = None /\ finalized = None /\ last_checkpoint = None
  BY DEF Init
<1>2. \A t \in Tasks : pc[t] = "off"
  BY <1>1
<1>3. pc["main"] = "off" /\ pc["advance"] = "off" /\ pc["shutdown"] = "off"
      /\ \A q \in Queries : pc[q] = "off"
  BY <1>2, TaskFacts
<1>4. queue \in Seq(Tasks) /\ DOMAIN queue = {}
  <2>1. <<>> \in Seq(Tasks) /\ Len(<<>>) = 0
    BY EmptySeq
  <2>2. DOMAIN <<>> = 1 .. 0
    OBVIOUS
  <2> QED BY <1>1, <2>1, <2>2
<1>5. TypeOK
  <2>1. MaxBoots \in Nat /\ "off" \in Labels
    BY ClientAssumption DEF Labels
  <2> QED BY <1>1, <1>4, <2>1 DEF TypeOK
<1>6. TasksOK
  BY <1>1, <1>3 DEF TasksOK
<1>7. LockOK
  BY <1>1, <1>2, <1>4, TaskFacts DEF LockOK
<1>8. SetupOK
  BY <1>1, <1>3, MainLabels DEF SetupOK, Up
<1>9. DiskOK
  <2>1. None \notin Checkpoint
    BY ClientAssumption
  <2> QED BY <1>1, <1>3, <2>1 DEF DiskOK, Overwriting
<1>10. StartsFromKnownCheckpoint /\ NotBehind
  BY <1>3 DEF StartsFromKnownCheckpoint, NotBehind, Up
<1> QED BY <1>5, <1>6, <1>7, <1>8, <1>9, <1>10 DEF Inv

(* Every step keeps the invariant.                                         *)
LEMMA NextInv ==
    ASSUME Inv, [Next]_vars
    PROVE  Inv'
<1>1. CASE Environment
  BY <1>1, BuildKeeps, OutsideKeeps, OthersKeep DEF Environment
<1>2. ASSUME NEW t \in Tasks, TaskStep(t)
      PROVE  Inv'
  <2>1. CASE Acquire(t)
    BY <2>1, AcquireKeeps
  <2>2. CASE StartStep
    BY <2>2, StartKeeps
  <2>3. CASE t \in {"main", "shutdown"} /\ (SaveSkipped(t) \/ Truncate(t) \/ WriteFile(t))
    BY <2>3, SaveSkippedKeeps, TruncateKeeps, WriteFileKeeps
  <2>4. CASE Advance \/ Duration \/ Wake
    BY <2>4, AdvanceKeeps, OthersKeep
  <2>5. CASE t \in Queries /\ Answer(t)
    BY <2>5, OthersKeep
  <2> QED BY <1>2, <2>1, <2>2, <2>3, <2>4, <2>5 DEF TaskStep
<1>3. CASE UNCHANGED vars
  <2>1. /\ now' = now /\ boots' = boots /\ file' = file /\ seen' = seen /\ saved' = saved
        /\ start' = start /\ config' = config /\ pc' = pc /\ holders' = holders
        /\ queue' = queue /\ source' = source /\ checkpoint' = checkpoint
        /\ finalized' = finalized /\ last_checkpoint' = last_checkpoint /\ counter' = counter
    BY <1>3 DEF vars, disk, setup, locks, node
  <2>2. TypeOK' /\ TasksOK' /\ LockOK'
    BY <2>1 DEF Inv, TypeOK, TasksOK, LockOK
  <2>3. SetupOK' /\ DiskOK'
    BY <2>1 DEF Inv, SetupOK, Up, DiskOK, Overwriting
  <2>4. StartsFromKnownCheckpoint' /\ NotBehind'
    BY <2>1 DEF Inv, StartsFromKnownCheckpoint, UserNamed, NotBehind, Up
  <2> QED BY <2>2, <2>3, <2>4 DEF Inv
<1> QED BY <1>1, <1>2, <1>3 DEF Next

(* The invariant holds in every state that the processes reach.            *)
THEOREM ClientInvariant == Spec => []Inv
<1>1. Init => Inv
  BY InitInv
<1>2. Inv /\ [Next]_vars => Inv'
  BY NextInv
<1> QED BY <1>1, <1>2, PTL DEF Spec

(* The process and what it leaves on disk are of their type.               *)
THEOREM TypeCorrect == Spec => []TypeOK
<1>1. Inv => TypeOK
  BY DEF Inv
<1> QED BY <1>1, ClientInvariant, PTL

(* Whatever the processes before it did to the file, and wherever they     *)
(* were killed, Client::new starts from a checkpoint that it may trust.    *)
THEOREM StartsCorrect == Spec => []StartsFromKnownCheckpoint
<1>1. Inv => StartsFromKnownCheckpoint
  BY DEF Inv
<1> QED BY <1>1, ClientInvariant, PTL

(* The lock that the tasks share: a writer has it alone, who needs it has  *)
(* it or waits for it exactly once, and who does not need it does neither. *)
THEOREM LockCorrect == Spec => []LockOK
<1>1. Inv => LockOK
  BY DEF Inv
<1> QED BY <1>1, ClientInvariant, PTL

(* save_checkpoint is never in two tasks at once: start has returned       *)
(* before a handler of ctrl-c is registered.                               *)
THEOREM SavesExclusive == Spec => []SavesDoNotOverlap
<1>1. Inv => SavesDoNotOverlap
  <2>1. SUFFICES ASSUME Inv
                 PROVE  Cardinality({t \in Tasks : pc[t] = "write_file"}) <= 1
    BY DEF SavesDoNotOverlap
  <2> DEFINE W == {t \in Tasks : pc[t] = "write_file"}
  <2>2. \A t \in Tasks : pc[t] = "write_file" => t \in {"main", "shutdown"}
    BY <2>1, TaskFacts DEF Inv, TasksOK
  <2>3. ~ (pc["main"] = "write_file" /\ pc["shutdown"] = "write_file")
    BY <2>1 DEF Inv, TasksOK
  <2>4. W = {} \/ W = {"main"} \/ W = {"shutdown"}
    BY <2>2, <2>3
  <2>5. /\ Cardinality({}) = 0
        /\ Cardinality({"main"}) = 1 /\ Cardinality({"shutdown"}) = 1
    BY FS_EmptySet, FS_Singleton
  <2> HIDE DEF W
  <2>6. Cardinality(W) <= 1
    BY <2>4, <2>5
  <2> QED BY <2>6 DEF W
<1> QED BY <1>1, ClientInvariant, PTL

(* What a step leaves of a saved checkpoint.                               *)
LEMMA SavedFacts ==
    ASSUME Inv, [Next]_vars, Up
    PROVE  saved'[config.data_dir] \in {saved[config.data_dir], last_checkpoint, None}
<1> DEFINE d == config.data_dir
<1>1. d \in Dirs /\ saved \in [Dirs -> Checkpoint \cup {None}]
  BY DEF Inv, SetupOK, ConfigOK, TypeOK
<1>2. CASE saved' = saved
  BY <1>2
<1>3. ASSUME NEW t \in Tasks, WriteFile(t)
      PROVE  saved'[d] \in {saved[d], last_checkpoint, None}
  <2>1. saved' = [saved EXCEPT ![d] = last_checkpoint] \/ saved' = [saved EXCEPT ![d] = None]
    BY <1>3 DEF WriteFile
  <2> HIDE DEF d
  <2> QED BY <1>1, <2>1
<1>4. CASE Stop
  <2>1. saved' = [saved EXCEPT ![d] = IF file[d] = Torn THEN None ELSE saved[d]]
    BY <1>4 DEF Stop
  <2> HIDE DEF d
  <2> QED BY <1>1, <2>1
<1>5. ASSUME Next
      PROVE  saved' = saved \/ Stop \/ \E t \in Tasks : WriteFile(t)
  <2>1. CASE Environment
    BY <2>1 DEF Environment, Build, BuildFails, CtrlC, Shutdown, Crash, Tick, Ask, disk
  <2>2. ASSUME NEW t \in Tasks, TaskStep(t)
        PROVE  saved' = saved \/ WriteFile(t)
    <3>1. CASE StartStep
      BY <3>1 DEF StartStep, RpcStart, Sync, SyncTooOld, SyncFails, Warn, NoFallback, List,
                  ChainId, Fetch, GetConfig, Replace, Resync, FallbackFails, FetchPanics,
                  Synced, disk
    <3>2. CASE ~ StartStep
      BY <2>2, <3>2 DEF TaskStep, Acquire, SaveSkipped, Truncate, Advance, Duration, Wake,
                        Answer, disk
    <3> QED BY <3>1, <3>2
  <2> QED BY <1>5, <2>1, <2>2 DEF Next
<1>6. CASE UNCHANGED vars
  BY <1>2, <1>6 DEF vars, disk
<1> QED BY <1>2, <1>3, <1>4, <1>5, <1>6

(* A client that started from the file saves nothing older than it found   *)
(* there, because what it saves is past what it started from.              *)
THEOREM NeverRegresses == Spec => SavedCheckpointNeverRegresses
<1> DEFINE d == config.data_dir
           Kept == Up /\ source = "config" /\ config.checkpoint = None =>
                      (saved[d] # None /\ saved'[d] # None => saved'[d].epoch >= saved[d].epoch)
<1>1. Inv /\ [Next]_vars => Kept
  <2>1. SUFFICES ASSUME Inv, [Next]_vars, Up, source = "config", config.checkpoint = None,
                        saved[d] # None, saved'[d] # None
                 PROVE  saved'[d].epoch >= saved[d].epoch
    OBVIOUS
  <2>2. saved'[d] \in {saved[d], last_checkpoint}
    BY <2>1, SavedFacts
  <2>3. saved[d].epoch \in Nat
    <3>1. d \in Dirs /\ saved \in [Dirs -> Checkpoint \cup {None}]
      BY <2>1 DEF Inv, SetupOK, ConfigOK, TypeOK
    <3> HIDE DEF d
    <3>2. saved[d] \in Checkpoint
      BY <2>1, <3>1
    <3> QED BY <3>2, EpochFacts
  <2>4. CASE saved'[d] = saved[d]
    BY <2>3, <2>4
  <2>5. CASE saved'[d] = last_checkpoint
    <3>1. last_checkpoint \in Checkpoint
      BY <2>1, <2>5 DEF Inv, TypeOK
    <3>2. last_checkpoint.epoch \in Nat
      BY <3>1, EpochFacts
    <3>3. saved[d].epoch <= last_checkpoint.epoch
      BY <2>1, <2>5 DEF Inv, NotBehind
    <3> QED BY <2>3, <2>5, <3>2, <3>3
  <2> QED BY <2>2, <2>4, <2>5
<1>2. Inv /\ [Next]_vars => [Kept]_vars
  BY <1>1
<1> QED BY <1>2, ClientInvariant, PTL DEF Spec, SavedCheckpointNeverRegresses
=============================================================================
