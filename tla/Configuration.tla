---------------------------- MODULE Configuration ----------------------------
(***************************************************************************)
(* How the configuration of a client comes about: config/src/config.rs,    *)
(* cli.rs, base.rs and networks.rs, cli/src/main.rs and ClientBuilder of   *)
(* client/src/client.rs.                                                   *)
(*                                                                         *)
(* A source of options (the section of helios.toml, the command line, what *)
(* was set on a builder) is a function on the fields it gives a value.     *)
(* rpc stands for rpc_bind_ip and rpc_port, chain for chain and forks;     *)
(* where only its presence matters the value of a field is TRUE.           *)
(***************************************************************************)
CONSTANTS
    default_checkpoint,  \* the checkpoints built in for mainnet and goerli
    max_checkpoint_age,
    None, Err

BuiltIn == {"mainnet", "goerli"}

(* The checkpoint of no bytes.                                             *)
EmptyCheckpoint == [network |-> None, epoch |-> 0]

Required == {"consensus_rpc", "execution_rpc", "default_checkpoint", "chain",
             "max_checkpoint_age", "load_external_fallback", "strict_checkpoint_age"}

Optional == {"rpc", "checkpoint", "data_dir", "fallback"}

Fields == Required \cup Optional

(* What can be given on the command line, and set on a builder.            *)
CliFields == Optional \cup {"consensus_rpc", "execution_rpc",
                            "load_external_fallback", "strict_checkpoint_age"}

BuilderFields == CliFields \cup {"network", "config"}

Absent == [f \in Optional |-> None]

Flags == [load_external_fallback |-> FALSE, strict_checkpoint_age |-> FALSE]

(* The second source where it gives a value, else the first.               *)
merge(f, g) == [x \in DOMAIN f \cup DOMAIN g |-> IF x \in DOMAIN g THEN g[x] ELSE f[x]]

Without(options, fields) == [f \in DOMAIN options \ fields |-> options[f]]

----------------------------------------------------------------------------
(* networks.rs; goerli has no consensus_rpc of its own, and a network that *)
(* is not built in gets BaseConfig::default().                             *)
base_config(network) ==
    IF network \in BuiltIn
    THEN Without([rpc |-> TRUE, chain |-> network, consensus_rpc |-> TRUE,
                  default_checkpoint |-> default_checkpoint[network],
                  max_checkpoint_age |-> max_checkpoint_age],
                 IF network = "goerli" THEN {"consensus_rpc"} ELSE {})
    ELSE [rpc |-> TRUE, chain |-> None, default_checkpoint |-> EmptyCheckpoint,
          max_checkpoint_age |-> 0]

(* Mutant: the default directory is that of every network.                 *)
get_data_dir_common(network, cli) ==
    IF "data_dir" \in DOMAIN cli THEN cli.data_dir ELSE "data"

(* ~/.helios/data/<network>, unless it is given.                           *)
get_data_dir(network, cli) ==
    IF "data_dir" \in DOMAIN cli THEN cli.data_dir ELSE network

(* Whether or not they are given, the command line has a value for the     *)
(* directory and for both flags.                                           *)
as_provider(network, cli) ==
    merge(merge(Flags, [data_dir |-> get_data_dir(network, cli)]), cli)

(* The command line over the file over the built-in values; a missing      *)
(* field ends the process.                                                 *)
from_file(network, toml, cli) ==
    LET merged == merge(merge(base_config(network), toml), as_provider(network, cli))
    IN  IF Required \subseteq DOMAIN merged THEN merge(Absent, merged) ELSE Err

----------------------------------------------------------------------------
(* ClientBuilder::build and FileDB::new.  Chain and maximal age are those  *)
(* of the network if it was set, everything else is what was set on the    *)
(* builder or else in its config.                                          *)
build(builder) ==
    LET config == IF "config" \in DOMAIN builder THEN builder.config ELSE <<>>
        base == IF "network" \in DOMAIN builder THEN base_config(builder.network)
                                                ELSE config
        merged == merge(merge(merge(Absent, Flags), config),
                        Without(builder, {"network", "config"}))
    IN  IF \/ DOMAIN base = {}
           \/ ~ {"consensus_rpc", "execution_rpc"} \subseteq DOMAIN merged
           \/ merged.data_dir = None
        THEN Err
        ELSE merge(merge([default_checkpoint |-> base.default_checkpoint], merged),
                   [chain |-> base.chain, max_checkpoint_age |-> base.max_checkpoint_age])

(* The configuration of a process: of main.rs, or of a program that has    *)
(* the client as a library.                                                *)
configuration(start) ==
    IF start.program = "library" THEN build(start.builder)
    ELSE LET config == from_file(start.network, start.toml, start.cli)
         IN  IF config = Err THEN Err ELSE build([config |-> config])

(* boot_from_external_fallbacks: every chain but goerli is mainnet.        *)
fallback_network(config) == IF config.chain = "goerli" THEN "goerli" ELSE "mainnet"
=============================================================================
