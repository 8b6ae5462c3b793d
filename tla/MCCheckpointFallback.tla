------------------------ MODULE MCCheckpointFallback ------------------------
(***************************************************************************)
(* An instance of the checkpoint fallbacks for TLC.                        *)
(***************************************************************************)
EXTENDS CheckpointFallback, TLC

CONSTANTS s1, s2, s3, s4, mainnet, goerli

(* All services are up; one of each kind is down; the list has no entry    *)
(* for the other network.                                                  *)
SomeLists ==
    LET up == [s \in Services |-> TRUE]
        some == [s \in Services |-> s \notin {s1, s4}]
    IN  {mainnet :> up @@ goerli :> some, mainnet :> up @@ goerli :> None}
=============================================================================
