------------------------- MODULE MCConsensusClient -------------------------
(***************************************************************************)
(* A small beacon chain and the answers of an untrusted provider, for TLC. *)
(***************************************************************************)
EXTENDS ConsensusClient

(* Periods of two epochs of two slots; slot 6 is empty, so the checkpoint  *)
(* block of its epoch is the one at slot 5, not at an epoch boundary.      *)
MCFinalizedSlot ==
    [s \in Slot |-> CASE s < 3 -> 0
                      [] s \in 3 .. 4 -> 2
                      [] s \in 5 .. 6 -> 4
                      [] s \in 7 .. 8 -> 5
                      [] s \in 9 .. 10 -> 8
                      [] OTHER -> 10]

Attested(slot, chain) == [slot |-> slot, chain |-> chain]

MCUpdate(attested, finalized, committee, bits, signature_slot) ==
    [attested_header |-> attested, finalized_header |-> finalized,
     next_sync_committee |-> committee, bits |-> bits,
     signature_slot |-> signature_slot]

(* What the state of a block at this slot finalizes, and the committee     *)
(* that it names.                                                          *)
Fin(s) == Canonical(MCFinalizedSlot[s])
NextOf(s) == calc_sync_period(s) + 1

Attestable == 1 .. MaxSlot - 1
Later(s) == s + 1 .. MaxSlot

(* Genuine updates, on and off the canonical chain.                        *)
Honest ==
    {MCUpdate(Attested(s, "canonical"), Fin(s), NextOf(s), b, sig) :
        <<s, b, sig>> \in {x \in Attestable \X (1 .. CommitteeSize) \X Slot :
                             x[3] \in Later(x[1])}}
    \cup {MCUpdate(Attested(s, "orphan"), Fin(s), NextOf(s), CommitteeSize, s + 1) :
            s \in Attestable}

(* Genuine headers with a finalized header or a committee of the           *)
(* provider's own, or signed in their own slot; forged headers with the    *)
(* signatures of the faulty members or of everybody.                       *)
Dishonest ==
    {MCUpdate(Attested(s, "canonical"), Attested(s, "forged"), NextOf(s),
              CommitteeSize, s + 1) : s \in Attestable}
    \cup {MCUpdate(Attested(s, "canonical"), Fin(s), Forged, CommitteeSize, s + 1) :
            s \in Attestable}
    \cup {MCUpdate(Attested(s, "canonical"), Fin(s), NextOf(s), CommitteeSize, s) :
            s \in Attestable}
    \cup {MCUpdate(Attested(s, "forged"), Attested(s, "forged"), Forged, b, s + 1) :
            s \in Attestable, b \in 1 .. CommitteeSize}
    \cup {MCUpdate(Attested(1, "canonical"), Fin(1), NextOf(1), 0, 2)}

MCServed == Honest \cup Dishonest
============================================================================
