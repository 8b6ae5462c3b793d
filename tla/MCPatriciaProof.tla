-------------------------- MODULE MCPatriciaProof ---------------------------
(***************************************************************************)
(* Small tries for TLC.                                                    *)
(***************************************************************************)
EXTENDS PatriciaProof

CONSTANT MaxKeys       \* bound: the keys of a trie

(* Every trie of at most MaxKeys keys.                                     *)
SmallTries ==
    UNION {{{<<k, f[k]>> : k \in keys} : f \in [keys -> Value]} :
              keys \in {ks \in SUBSET Path : ks # {} /\ Cardinality(ks) <= MaxKeys}}

(* The leaves that are held inside their parents: those with nothing left  *)
(* of their path and a short value.                                        *)
ShortLeaves == {{<<<<>>, v>>} : v \in Value \ NodeHashes}
=============================================================================
