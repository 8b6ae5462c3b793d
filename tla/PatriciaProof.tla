--------------------------- MODULE PatriciaProof ----------------------------
(***************************************************************************)
(* verify_proof: execution/src/proof.rs.  It walks a proof, the list of    *)
(* trie nodes that an untrusted provider gives, from the root of a trie    *)
(* along the path of a key, to decide whether the key has the value.       *)
(*                                                                         *)
(* A trie, and each of its nodes, is named by what is below it, a set of   *)
(* pairs <<rest of the path, value>>: equal hashes, equal contents.  So    *)
(* the name of a node stands for its hash, and its shape follows from it.  *)
(* Each step of the walk is one iteration of the loop; the provider may    *)
(* give a node with another hash and may end the proof at any node.        *)
(*                                                                         *)
(* The code keeps no node from being taken for the next one: a leaf that   *)
(* is not the last node is taken for an extension, and what it holds for   *)
(* the hash of the next node.  A slot of 31 bytes is encoded in 32, as     *)
(* many as a hash has, so a value may be the hash of a node that someone   *)
(* has made (NodeHashes); an encoded account never is, being longer.       *)
(***************************************************************************)
EXTENDS Integers, Sequences, FiniteSets

CONSTANTS
    Nibble,            \* the digits of a path
    PathLength,        \* the number of nibbles of a path: 64
    Value,             \* the encoded values a trie may hold
    NodeHashes,        \* those that are the hash of a node a provider has
    EmptyValue,        \* the encoding of an empty slot or an empty account
    Inlined,           \* the nodes of under 32 bytes, which have no hash: the
                       \* parent holds them themselves
    Tries              \* the tries that a genuine root stands for

Path == [1 .. PathLength -> Nibble]

ASSUME ProofAssumption ==
    /\ PathLength \in Nat /\ Nibble \subseteq 0 .. 15
    /\ EmptyValue \notin Value /\ NodeHashes \subseteq Value /\ {} \notin Inlined
    /\ \A t \in Tries :
          /\ t # {} /\ IsFiniteSet(t) /\ t \subseteq Path \X Value
          /\ \A x, y \in t : x[1] = y[1] => x = y

VARIABLES
    root, path, value, \* the arguments
    expected_hash,     \* the hash of the next node, or what is in its place
    path_offset,       \* the nibbles of the path that are behind
    result,            \* the verdict, "open" until there is one
    complete,          \* history: the proof is the whole walk of the path
    through            \* history: the last node is an extension on the path

vars == <<root, path, value, expected_hash, path_offset, result, complete, through>>

----------------------------------------------------------------------------
(* The trie: external, what Ethereum's encoding makes of a set of pairs.   *)

Rest(p, k) == SubSeq(p, k + 1, Len(p))

(* The pairs below, when the first k nibbles of their paths are taken off. *)
Below(n, k) == {<<Rest(x[1], k), x[2]>> : x \in n}

(* The names of the nodes are not among the values.                        *)
ASSUME NodesAreNotValues ==
    \A t \in Tries : \A n \in SUBSET t : \A k \in 0 .. PathLength : Below(n, k) \notin Value

(* The longest prefix that the paths of a node share.                      *)
SharedLength(n) ==
    LET first == (CHOOSE x \in n : TRUE)[1]
        shared(k) == \A x \in n : \A i \in 1 .. k : x[1][i] = first[i]
    IN  CHOOSE k \in 0 .. Len(first) :
            /\ shared(k)
            /\ \A j \in 0 .. Len(first) : shared(j) => j <= k

IsLeaf(n) == Cardinality(n) = 1
IsBranch(n) == ~ IsLeaf(n) /\ SharedLength(n) = 0

(* A branch has 17 items: node_list[nibble] is the hash of a child, and    *)
(* nothing if there is none.                                               *)
child(n, nibble) == Below({x \in n : x[1][1] = nibble}, 1)

(* A leaf and an extension have two.  The first is a path behind a prefix  *)
(* that tells an even path from an odd one and a leaf from an extension.   *)
compact(p, leaf) ==
    LET flag == IF leaf THEN 2 ELSE 0
    IN  (IF Len(p) % 2 = 1 THEN <<flag + 1>> ELSE <<flag, 0>>) \o p

two_items(n) ==
    LET x == CHOOSE x \in n : TRUE
        k == IF IsLeaf(n) THEN Len(x[1]) ELSE SharedLength(n)
    IN  <<compact(SubSeq(x[1], 1, k), IsLeaf(n)),
          IF IsLeaf(n) THEN x[2] ELSE Below(n, k)>>

(* What a node holds of the nodes below it: their hashes, or, of those     *)
(* under 32 bytes, the nodes themselves.                                   *)
Children(n) ==
    IF IsLeaf(n) THEN {}
    ELSE IF IsBranch(n) THEN {child(n, nibble) : nibble \in Nibble}
    ELSE {Below(n, SharedLength(n))}

----------------------------------------------------------------------------
(* The helpers of the walk.  Offsets count nibbles from zero.              *)

get_nibble(p, offset) == p[offset + 1]

(* Mutant: the prefix of a leaf of odd length is not skipped.              *)
skip_length_even(node_path) ==
    IF node_path = <<>> THEN 0
    ELSE CASE get_nibble(node_path, 0) \in {0, 2} -> 2 [] OTHER -> 0

skip_length(node_path) ==
    IF node_path = <<>> THEN 0
    ELSE CASE get_nibble(node_path, 0) \in {0, 2} -> 2
           [] get_nibble(node_path, 0) \in {1, 3} -> 1
           [] OTHER -> 0

paths_match(p1, s1, p2, s2) ==
    /\ Len(p1) - s1 = Len(p2) - s2
    /\ \A offset \in 0 .. Len(p1) - s1 - 1 :
          get_nibble(p1, s1 + offset) = get_nibble(p2, s2 + offset)

shared_prefix_length(p, offset, node_path) ==
    LET skip == skip_length(node_path)
        len == IF Len(node_path) - skip < Len(p) - offset
               THEN Len(node_path) - skip ELSE Len(p) - offset
        same(k) == \A i \in 0 .. k - 1 :
                      get_nibble(p, i + offset) = get_nibble(node_path, i + skip)
    IN  CHOOSE k \in 0 .. len : same(k) /\ \A j \in 0 .. len : same(j) => j <= k

is_empty_value(v) == v = EmptyValue

----------------------------------------------------------------------------
(* The loop.                                                               *)

(* decode_list takes every item for a string and panics at one that is a   *)
(* list, as a node in the place of its hash is.                            *)
decodes(n) == Children(n) \cap Inlined = {}

Return(b) ==
    /\ result' = IF b THEN "valid" ELSE "invalid"
    /\ UNCHANGED <<expected_hash, path_offset>>

(* Mutant: the child of the path is not looked at.                         *)
LastBranch_any_child(n) == Return(is_empty_value(value))

(* The last node of the proof is a branch: the key is not in the trie if   *)
(* the branch has no child for it.                                         *)
LastBranch(n) ==
    Return(child(n, get_nibble(path, path_offset)) = {} /\ is_empty_value(value))

(* Mutant: the offset stays at a branch.                                   *)
InnerBranch_same_offset(n) ==
    /\ expected_hash' = child(n, get_nibble(path, path_offset))
    /\ UNCHANGED <<path_offset, result>>

InnerBranch(n) ==
    /\ expected_hash' = child(n, get_nibble(path, path_offset))
    /\ path_offset' = path_offset + 1
    /\ UNCHANGED result

(* Mutant: a leaf shows its value for any path.                            *)
LastTwoItems_any_path(n) ==
    LET items == two_items(n)
        match == paths_match(items[1], skip_length(items[1]), path, path_offset)
    IN  Return((~ match /\ is_empty_value(value)) \/ items[2] = value)

(* The last node has two items: it is the leaf of the key, with its value, *)
(* or it shows that the key is not in the trie.                            *)
LastTwoItems(n) ==
    LET items == two_items(n)
        match == paths_match(items[1], skip_length(items[1]), path, path_offset)
    IN  Return(\/ ~ match /\ is_empty_value(value)
               \/ items[2] = value /\ match)

(* An extension on the way; a path that leaves it should have ended there. *)
InnerTwoItems(n) ==
    LET items == two_items(n)
        prefix_length == shared_prefix_length(path, path_offset, items[1])
    IN  IF prefix_length < Len(items[1]) - skip_length(items[1])
        THEN Return(FALSE)
        ELSE /\ path_offset' = path_offset + prefix_length
             /\ expected_hash' = items[2]
             /\ UNCHANGED result

(* The path goes on below the extension n.                                 *)
OnPath(n) ==
    \A x \in n : \A i \in 1 .. SharedLength(n) : path[path_offset + i] = x[1][i]

(* The walk of the path ends at n: there is nothing on it below n.         *)
WalkEnds(n) ==
    IF IsBranch(n) THEN child(n, path[path_offset + 1]) = {}
    ELSE IsLeaf(n) \/ ~ OnPath(n)

(* The next node of the proof has the expected hash; last says whether the *)
(* proof ends with it.                                                     *)
ProofNode(last) ==
    /\ result = "open"
    /\ expected_hash \notin Value \cup {{}}
    /\ decodes(expected_hash)
    /\ LET n == expected_hash
       IN  /\ \/ IsBranch(n) /\ last /\ LastBranch(n)
              \/ IsBranch(n) /\ ~ last /\ InnerBranch(n)
              \/ ~ IsBranch(n) /\ last /\ LastTwoItems(n)
              \/ ~ IsBranch(n) /\ ~ last /\ InnerTwoItems(n)
           /\ complete' = (complete /\ last = WalkEnds(n))
           /\ through' = (last /\ ~ IsBranch(n) /\ ~ IsLeaf(n) /\ OnPath(n))
    /\ UNCHANGED <<root, path, value>>

(* The node with the expected hash holds a node of under 32 bytes, on the  *)
(* path or beside it.                                                      *)
ProofPanics ==
    /\ result = "open"
    /\ expected_hash \notin Value \cup {{}}
    /\ ~ decodes(expected_hash)
    /\ result' = "panic"
    /\ UNCHANGED <<root, path, value, expected_hash, path_offset, complete, through>>

(* A leaf was not the last node and its value is a node's hash: from here  *)
(* on the nodes are the provider's own, and lead to any verdict, or to a   *)
(* panic of decode_list, or of get_nibble beyond the end of the path.      *)
BeyondLeaf ==
    /\ result = "open"
    /\ expected_hash \in NodeHashes
    /\ result' \in {"valid", "invalid", "panic"}
    /\ complete' = FALSE
    /\ UNCHANGED <<root, path, value, expected_hash, path_offset, through>>

(* A node with another hash, or a proof without nodes.                     *)
ProofFails ==
    /\ result = "open"
    /\ result' = "invalid"
    /\ complete' = FALSE
    /\ UNCHANGED <<root, path, value, expected_hash, path_offset, through>>

Init ==
    /\ root \in Tries /\ path \in Path /\ value \in Value \cup {EmptyValue}
    /\ expected_hash = root
    /\ path_offset = 0
    /\ result = "open" /\ complete = TRUE /\ through = FALSE

Next ==
    \/ ProofNode(TRUE)
    \/ ProofNode(FALSE)
    \/ ProofPanics
    \/ BeyondLeaf
    \/ ProofFails

Spec == Init /\ [][Next]_vars

----------------------------------------------------------------------------
(* Properties.                                                             *)

(* What a trie holds for a path.                                           *)
Held(t, p) == {x[2] : x \in {y \in t : y[1] = p}}

(* The type invariant of the walk.  While it is at the trie's own nodes,   *)
(* the nibble that a branch is asked for is one that the path still has;   *)
(* beyond a leaf it need not be, see BeyondLeaf.                           *)
TypeOK ==
    /\ root \subseteq Path \X Value
    /\ path \in Path /\ value \in Value \cup {EmptyValue}
    /\ path_offset \in 0 .. PathLength
    /\ result \in {"open", "valid", "invalid", "panic"}
    /\ complete \in BOOLEAN /\ through \in BOOLEAN
    /\ result = "open" /\ expected_hash \notin Value \cup {{}} =>
          \A x \in expected_hash : Len(x[1]) = PathLength - path_offset

(* Inclusion: whatever nodes the provider gives, a value that verify_proof *)
(* accepts for a key is the one that the trie of this root holds, unless   *)
(* what the trie holds is the hash of a node that the provider has.        *)
InclusionIsSound ==
    result = "valid" /\ value # EmptyValue =>
        Held(root, path) = {value} \/ Held(root, path) \cap NodeHashes # {}

(* Exclusion, by a proof that ends where the path of the key leaves the    *)
(* trie: an empty value is accepted only for a key that is not in it, or   *)
(* that holds the hash of a node which the provider has.  Whether the      *)
(* proof goes that far is not told apart from a last node that is an       *)
(* extension on the path: see ExclusionIsSound.                            *)
ExclusionIsSoundOffPath ==
    result = "valid" /\ value = EmptyValue /\ ~ through =>
        Held(root, path) = {} \/ Held(root, path) \cap NodeHashes # {}

(* The complete proof of what the trie holds is not rejected, whether the  *)
(* paths of its nodes are of even or odd length: an honest provider's      *)
(* account and storage proofs verify, but for a panic at a node that holds *)
(* a node of under 32 bytes (decode_list); a dishonest one may cause a     *)
(* panic beyond a leaf too, and in no other case.                          *)
CompleteProofIsAccepted ==
    /\ result = "invalid" /\ complete =>
          value \notin (IF Held(root, path) = {} THEN {EmptyValue} ELSE Held(root, path))
    /\ result = "panic" =>
          (expected_hash \in NodeHashes /\ ~ complete) \/ ~ decodes(expected_hash)

(* The comment at proof.rs:33 calls a last node with two items whose path  *)
(* does not match an "exclusion proof": the key is then not in the trie.   *)
ExclusionIsSound ==
    result = "valid" /\ value = EmptyValue => Held(root, path) = {}
=============================================================================
