------------------------------ MODULE MCClient ------------------------------
(***************************************************************************)
(* Small instances of the client process for TLC.                          *)
(***************************************************************************)
EXTENDS Client, TLC

Genesis == [n \in BuiltIn |-> [network |-> n, epoch |-> 0]]

AllNetworks == {"mainnet", "goerli", "devnet"}
AllDirs == AllNetworks \cup {"data", "given"}

Rpcs == [execution_rpc |-> TRUE, consensus_rpc |-> TRUE]
Strict == [strict_checkpoint_age |-> TRUE]
Fallback == [fallback |-> TRUE]
External == [load_external_fallback |-> TRUE]

Main(network, toml, cli) ==
    [program |-> "main", network |-> network, toml |-> toml, cli |-> cli]

Library(builder) == [program |-> "library", builder |-> builder]

(* A section of helios.toml for a network of its own.                      *)
Devnet ==
    Rpcs @@ [chain |-> "devnet", max_checkpoint_age |-> max_checkpoint_age,
             default_checkpoint |-> [network |-> "devnet", epoch |-> 0]]

(* No option; every way out of a checkpoint that is too old; a given       *)
(* checkpoint; a directory that two networks share; a network with, with   *)
(* half and without a section of its own; a library client with and        *)
(* without a directory; and a network without a consensus_rpc, which is    *)
(* not built.                                                              *)
AllStarts ==
    {Main("mainnet", Rpcs, <<>>),
     Main("mainnet", Rpcs, Strict @@ Fallback @@ External),
     Main("mainnet", Rpcs, [checkpoint |-> [network |-> "mainnet", epoch |-> 1]]),
     Main("goerli", Rpcs, Strict @@ Fallback @@ [data_dir |-> "given"]),
     Main("goerli", [execution_rpc |-> TRUE], <<>>),
     Main("devnet", Rpcs, <<>>),
     Main("devnet", Rpcs @@ [chain |-> "devnet"], <<>>),
     Main("devnet", Devnet, Strict @@ External),
     Library(Rpcs @@ [network |-> "mainnet"]),
     Library(Rpcs @@ Strict @@ [network |-> "mainnet", data_dir |-> "given"])}
=============================================================================
