------------------------------- MODULE MCNode -------------------------------
(***************************************************************************)
(* Chains for TLC: one with a shorter branch that is the head for a while  *)
(* and an empty slot, and one without either.                              *)
(***************************************************************************)
EXTENDS Node

(* 1 <- 2 <- 3 <- 6 is finalized in the end; 4 branches off at 1 (and has  *)
(* a lower number than 3); slot 5 is empty.                                *)
MCBlocks == 1 .. 4 \cup {6}
MCCanon == {1, 2, 3, 6}

(* A payload of no block: 7 carries the hash of 3 but has another number   *)
(* and leads to 1.                                                         *)
MCForged == {7}
MCParent ==
    [b \in MCBlocks \cup MCForged |->
        CASE b \in {1, 4, 7} -> 1 [] b = 6 -> 3 [] OTHER -> b - 1]
MCBlockHash == [b \in MCBlocks \cup MCForged |-> IF b = 7 THEN 3 ELSE b]
MCNumber ==
    [b \in MCBlocks \cup MCForged |->
        CASE b \in {4, 7} -> 2 [] b = 6 -> 4 [] OTHER -> b]

(* A chain without branches, and a provider that serves its blocks only.   *)
MCLine == 1 .. 6
MCLineForged == {}
MCLineParent == [b \in MCLine |-> IF b = 1 THEN 1 ELSE b - 1]
MCLineBlockHash == [b \in MCLine |-> b]
MCLineNumber == [b \in MCLine |-> b]
=============================================================================
