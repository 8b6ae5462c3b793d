------------------------ MODULE MCConsensusSchedule ------------------------
(***************************************************************************)
(* A chain that finalizes with a delay of two or three slots, for TLC.     *)
(***************************************************************************)
EXTENDS ConsensusSchedule

(* Epochs of two slots: a block at slot s finalizes the start of the epoch *)
(* before its own; slot 10 is empty, so that its epoch starts at slot 9.   *)
MCFinalizedSlot ==
    [s \in Slot |-> LET f == IF s < 2 THEN 0 ELSE (s \div 2) * 2 - 2
                    IN  IF f = 10 THEN 9 ELSE f]

ASSUME MCFinality == Finality
============================================================================
