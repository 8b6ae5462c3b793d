--------------------------- MODULE PatriciaProofs ---------------------------
(***************************************************************************)
(* Proofs about verify_proof (PatriciaProof), for every trie, whatever the *)
(* length of its paths, and every choice of the provider: what it accepts  *)
(* is what the trie holds, and the complete proof of that is accepted, but *)
(* for values that are the hash of a node and for nodes inside their       *)
(* parents.                                                                *)
(***************************************************************************)
EXTENDS PatriciaProof, OrderLemmas, SequenceTheorems

----------------------------------------------------------------------------
(* The inductive invariant.                                                *)

(* A pair of the trie whose path begins with the first k nibbles.          *)
Agrees(x, k) == \A i \in 1 .. k : x[1][i] = path[i]

(* What is below the node of the trie at these nibbles.                    *)
At(k) == Below({x \in root : Agrees(x, k)}, k)

(* The arguments and the type of the rest.                                 *)
Asked ==
    /\ root \in Tries /\ path \in Path /\ value \in Value \cup {EmptyValue}
    /\ path_offset \in 0 .. PathLength
    /\ result \in {"open", "valid", "invalid", "panic"}
    /\ complete \in BOOLEAN /\ through \in BOOLEAN

(* What a leaf left in the place of the next hash: the value of the key.   *)
AtValue == expected_hash \in Value /\ Held(root, path) = {expected_hash}

(* The walk is at the node of the trie that the nibbles behind lead to, or *)
(* beyond the leaf of the key.                                             *)
Walk == result = "open" => AtValue \/ expected_hash = At(path_offset)

Inv ==
    /\ Asked /\ Walk
    /\ InclusionIsSound /\ ExclusionIsSoundOffPath /\ CompleteProofIsAccepted

----------------------------------------------------------------------------
(* Paths.                                                                  *)

(* Paths with the same nibbles are the same.                               *)
LEMMA SamePath ==
    ASSUME NEW N \in Nat, NEW p \in [1 .. N -> Nibble], NEW q \in [1 .. N -> Nibble],
           \A j \in 1 .. N : p[j] = q[j]
    PROVE  p = q
OBVIOUS

(* The nibbles that are left of a path.                                    *)
LEMMA RestFacts ==
    ASSUME NEW N \in Nat, NEW k \in 0 .. N, NEW p \in [1 .. N -> Nibble]
    PROVE  /\ Len(p) = N /\ p \in Seq(Nibble)
           /\ Rest(p, k) \in [1 .. N - k -> Nibble]
           /\ \A i \in 1 .. N - k : Rest(p, k)[i] = p[k + i]
<1>1. p \in Seq(Nibble) /\ Len(p) = N
  OBVIOUS
<1>2. Rest(p, k) = [i \in 1 .. N - k |-> p[k + i]]
  <2>1. k + 1 \in Int /\ N \in Int /\ (1 + N) - (k + 1) = N - k
    OBVIOUS
  <2>2. SubSeq(p, k + 1, N) = [i \in 1 .. (1 + N) - (k + 1) |-> p[i + (k + 1) - 1]]
    BY <1>1, <2>1
  <2>3. \A i \in 1 .. N - k : i + (k + 1) - 1 = k + i
    OBVIOUS
  <2> QED BY <1>1, <2>1, <2>2, <2>3 DEF Rest
<1>3. \A i \in 1 .. N - k : k + i \in 1 .. N
  OBVIOUS
<1> QED BY <1>1, <1>2, <1>3

(* What is left of what is left.                                           *)
LEMMA RestOfRest ==
    ASSUME NEW N \in Nat, NEW k \in 0 .. N, NEW s \in 0 .. N - k, NEW p \in [1 .. N -> Nibble]
    PROVE  Rest(Rest(p, k), s) = Rest(p, k + s)
<1>1. /\ Rest(p, k) \in [1 .. N - k -> Nibble]
      /\ \A i \in 1 .. N - k : Rest(p, k)[i] = p[k + i]
  BY RestFacts
<1>2. N - k \in Nat /\ k + s \in 0 .. N /\ (N - k) - s = N - (k + s)
  OBVIOUS
<1>3. /\ Rest(Rest(p, k), s) \in [1 .. (N - k) - s -> Nibble]
      /\ \A i \in 1 .. (N - k) - s : Rest(Rest(p, k), s)[i] = Rest(p, k)[s + i]
  BY <1>1, <1>2, RestFacts
<1>4. /\ Rest(p, k + s) \in [1 .. N - (k + s) -> Nibble]
      /\ \A i \in 1 .. N - (k + s) : Rest(p, k + s)[i] = p[(k + s) + i]
  BY <1>2, RestFacts
<1>5. \A i \in 1 .. N - (k + s) : s + i \in 1 .. N - k /\ k + (s + i) = (k + s) + i
  OBVIOUS
<1>6. \A i \in 1 .. N - (k + s) : Rest(Rest(p, k), s)[i] = Rest(p, k + s)[i]
  BY <1>1, <1>2, <1>3, <1>4, <1>5
<1> QED BY <1>2, <1>3, <1>4, <1>6

(* A path of m nibbles behind a prefix that skip_length skips.             *)
IsCompact(c, m, p) ==
    /\ skip_length(c) \in 1 .. 2 /\ Len(c) = m + skip_length(c)
    /\ \A i \in 1 .. m : c[skip_length(c) + i] = p[i]

(* A path behind its prefix: compact, with the flag of a leaf or not.      *)
Prefixed(flag, p) == (IF Len(p) % 2 = 1 THEN <<flag + 1>> ELSE <<flag, 0>>) \o p

(* Whether its length is even or odd, the prefix of a path is skipped.     *)
LEMMA CompactFacts ==
    ASSUME NEW m \in Nat, NEW p \in [1 .. m -> Nibble], NEW flag \in {0, 2},
           NEW c, c = Prefixed(flag, p)
    PROVE  IsCompact(c, m, p)
<1>1. p \in Seq(Int) /\ Len(p) = m
  <2>1. \A x \in Nibble : x \in Int
    BY ProofAssumption
  <2>2. p \in [1 .. m -> Int]
    BY <2>1
  <2> QED BY <2>2
<1>2. flag \in {0, 2} /\ flag + 1 \in {1, 3}
  OBVIOUS
<1>3. c = (IF m % 2 = 1 THEN <<flag + 1>> ELSE <<flag, 0>>) \o p
  BY <1>1 DEF Prefixed
<1>4. CASE m % 2 = 1
  <2>1. c = <<flag + 1>> \o p /\ <<flag + 1>> \in Seq(Int)
    BY <1>2, <1>3, <1>4
  <2>2. /\ Len(c) = m + 1 /\ c[1] = flag + 1
        /\ \A i \in 1 .. m : c[1 + i] = p[i]
    BY <1>1, <2>1
  <2>3. c # <<>> /\ c[0 + 1] = flag + 1
    BY <1>1, <2>1, <2>2
  <2>4. skip_length(c) = 1
    BY <1>2, <2>3 DEF skip_length, get_nibble
  <2> QED BY <2>2, <2>4 DEF IsCompact
<1>5. CASE m % 2 # 1
  <2>1. c = <<flag, 0>> \o p /\ <<flag, 0>> \in Seq(Int)
    BY <1>2, <1>3, <1>5
  <2>2. /\ Len(c) = m + 2 /\ c[1] = flag
        /\ \A i \in 1 .. m : c[2 + i] = p[i]
    BY <1>1, <2>1
  <2>3. c # <<>> /\ c[0 + 1] = flag
    BY <1>1, <2>1, <2>2
  <2>4. skip_length(c) = 2
    BY <1>2, <2>3 DEF skip_length, get_nibble
  <2> QED BY <2>2, <2>4 DEF IsCompact
<1> QED BY <1>4, <1>5

(* paths_match compares the path of a node with what is left of the path.  *)
LEMMA MatchFacts ==
    ASSUME NEW m \in Nat, NEW p \in [1 .. m -> Nibble],
           NEW N \in Nat, NEW q \in [1 .. N -> Nibble], NEW k \in 0 .. N,
           NEW c, IsCompact(c, m, p)
    PROVE  paths_match(c, skip_length(c), q, k) <=>
               m = N - k /\ \A i \in 1 .. m : p[i] = q[k + i]
<1> DEFINE skip == skip_length(c)
<1>1. /\ skip \in 1 .. 2 /\ Len(c) = m + skip
      /\ \A i \in 1 .. m : c[skip + i] = p[i]
  BY DEF IsCompact
<1>2. Len(q) = N
  BY RestFacts
<1> HIDE DEF skip
<1>3. Len(c) - skip = m
  BY <1>1
<1>4. paths_match(c, skip, q, k) <=>
         m = N - k /\ \A o \in 0 .. m - 1 : c[(skip + o) + 1] = q[(k + o) + 1]
  BY <1>2, <1>3 DEF paths_match, get_nibble
<1>5. ASSUME m = N - k, \A o \in 0 .. m - 1 : c[(skip + o) + 1] = q[(k + o) + 1], NEW i \in 1 .. m
      PROVE  p[i] = q[k + i]
  <2>1. i - 1 \in 0 .. m - 1 /\ (skip + (i - 1)) + 1 = skip + i /\ (k + (i - 1)) + 1 = k + i
    BY <1>1
  <2>2. c[(skip + (i - 1)) + 1] = q[(k + (i - 1)) + 1]
    BY <1>5, <2>1
  <2> QED BY <1>1, <2>1, <2>2
<1>6. ASSUME m = N - k, \A i \in 1 .. m : p[i] = q[k + i], NEW o \in 0 .. m - 1
      PROVE  c[(skip + o) + 1] = q[(k + o) + 1]
  <2>1. o + 1 \in 1 .. m /\ (skip + o) + 1 = skip + (o + 1) /\ (k + o) + 1 = k + (o + 1)
    BY <1>1
  <2>2. p[o + 1] = q[k + (o + 1)]
    BY <1>6, <2>1
  <2> QED BY <1>1, <2>1, <2>2
<1> QED BY <1>4, <1>5, <1>6 DEF skip

(* The m nibbles of p are those of path q behind the first k.              *)
Leads(p, m, q, k) == \A i \in 1 .. m : p[i] = q[k + i]

(* shared_prefix_length is the length of an extension's path if and only   *)
(* if the path goes on below it.                                           *)
LEMMA PrefixFacts ==
    ASSUME NEW m \in Nat, NEW p \in [1 .. m -> Nibble],
           NEW N \in Nat, NEW q \in [1 .. N -> Nibble], NEW k \in 0 .. N, m <= N - k,
           NEW c, IsCompact(c, m, p)
    PROVE  /\ Len(c) - skip_length(c) = m
           /\ shared_prefix_length(q, k, c) \in 0 .. m
           /\ shared_prefix_length(q, k, c) = m <=> Leads(p, m, q, k)
<1> DEFINE skip == skip_length(c)
           len == IF Len(c) - skip < Len(q) - k THEN Len(c) - skip ELSE Len(q) - k
           same(j) == \A i \in 0 .. j - 1 : get_nibble(q, i + k) = get_nibble(c, i + skip)
           Good == {j \in 0 .. m : same(j)}
           r == shared_prefix_length(q, k, c)
<1>1. /\ skip \in 1 .. 2 /\ Len(c) = m + skip
      /\ \A i \in 1 .. m : c[skip + i] = p[i]
  BY DEF IsCompact
<1>2. Len(q) = N
  BY RestFacts
<1> HIDE DEF skip
<1>3. Len(c) - skip = m /\ len = m
  BY <1>1, <1>2
<1>4. \E j \in 0 .. m : same(j) /\ \A i \in 0 .. m : same(i) => i <= j
  <2> DEFINE f == [j \in Good |-> j]
  <2>1. 0 \in Good
    OBVIOUS
  <2>2. IsFiniteSet(Good) /\ Good \subseteq 0 .. m
    <3>1. IsFiniteSet(0 .. m)
      BY FS_Interval
    <3>2. Good \subseteq 0 .. m
      OBVIOUS
    <3> HIDE DEF Good
    <3> QED BY <3>1, <3>2, FS_Subset
  <2>3. \A j \in Good : f[j] \in Nat
    BY <2>2
  <2>4. \E x \in Good : \A y \in Good : f[y] <= f[x]
    <3> HIDE DEF Good, f
    <3> QED BY <2>1, <2>2, <2>3, GreatestValue
  <2> QED BY <2>4
<1>5. r = CHOOSE j \in 0 .. m : same(j) /\ \A i \in 0 .. m : same(i) => i <= j
  BY <1>3 DEF shared_prefix_length, skip
<1>6. r \in 0 .. m /\ same(r) /\ \A i \in 0 .. m : same(i) => i <= r
  <2> HIDE DEF same, r
  <2> QED BY <1>4, <1>5
<1>7. ASSUME r = m, NEW i \in 1 .. m
      PROVE  p[i] = q[k + i]
  <2>1. i - 1 \in 0 .. m - 1 /\ ((i - 1) + k) + 1 = k + i /\ ((i - 1) + skip) + 1 = skip + i
    BY <1>1
  <2>2. get_nibble(q, (i - 1) + k) = get_nibble(c, (i - 1) + skip)
    BY <1>6, <1>7, <2>1
  <2> QED BY <1>1, <2>1, <2>2 DEF get_nibble
<1>8. ASSUME \A i \in 1 .. m : p[i] = q[k + i]
      PROVE  r = m
  <2>1. same(m)
    <3> SUFFICES ASSUME NEW i \in 0 .. m - 1
                 PROVE  get_nibble(q, i + k) = get_nibble(c, i + skip)
      OBVIOUS
    <3>1. i + 1 \in 1 .. m /\ (i + k) + 1 = k + (i + 1) /\ (i + skip) + 1 = skip + (i + 1)
      BY <1>1
    <3>2. c[skip + (i + 1)] = p[i + 1] /\ p[i + 1] = q[k + (i + 1)]
      BY <1>1, <1>8, <3>1
    <3> QED BY <3>1, <3>2 DEF get_nibble
  <2>2. m \in 0 .. m
    OBVIOUS
  <2>3. m <= r /\ r \in 0 .. m
    <3> HIDE DEF same, r
    <3> QED BY <1>6, <2>1, <2>2
  <2> HIDE DEF r
  <2> QED BY <2>3
<1> QED BY <1>3, <1>6, <1>7, <1>8 DEF skip, Leads

----------------------------------------------------------------------------
(* The trie.                                                               *)

(* The pairs below a node of the trie, and what they tell of the path.     *)
LEMMA AtFacts ==
    ASSUME Asked, NEW k \in 0 .. PathLength
    PROVE  /\ IsFiniteSet(At(k))
           /\ \A z \in At(k) : /\ z = <<z[1], z[2]>> /\ z[2] \in Value
                               /\ z[1] \in [1 .. PathLength - k -> Nibble]
           /\ \A z, w \in At(k) : z[1] = w[1] => z = w
           /\ Held(root, path) =
                 {z[2] : z \in {y \in At(k) : \A i \in 1 .. PathLength - k : y[1][i] = path[k + i]}}
<1> DEFINE L == PathLength - k
           R == {x \in root : Agrees(x, k)}
           h == [x \in R |-> <<Rest(x[1], k), x[2]>>]
<1>0. /\ PathLength \in Nat /\ L \in Nat /\ path \in [1 .. PathLength -> Nibble]
      /\ IsFiniteSet(root) /\ root \subseteq Path \X Value
      /\ \A x, y \in root : x[1] = y[1] => x = y
  BY ProofAssumption DEF Asked, Path
<1>1. \A x \in root : /\ x = <<x[1], x[2]>> /\ x[2] \in Value
                      /\ x[1] \in [1 .. PathLength -> Nibble]
  BY <1>0 DEF Path
<1>2. \A x \in root : /\ Rest(x[1], k) \in [1 .. L -> Nibble]
                      /\ \A i \in 1 .. L : Rest(x[1], k)[i] = x[1][k + i]
  BY <1>0, <1>1, RestFacts
<1>3. At(k) = {<<Rest(x[1], k), x[2]>> : x \in R}
  BY DEF At, Below
<1>4. IsFiniteSet(At(k))
  <2>1. IsFiniteSet(R)
    <3>1. R \subseteq root
      OBVIOUS
    <3> HIDE DEF R
    <3> QED BY <1>0, <3>1, FS_Subset
  <2>2. At(k) = {h[x] : x \in R}
    BY <1>3
  <2>3. IsFiniteSet({h[x] : x \in R})
    <3> HIDE DEF h, R
    <3> QED BY <2>1, FiniteImage
  <2> QED BY <2>2, <2>3
<1> HIDE DEF h
<1>5. \A z \in At(k) : /\ z = <<z[1], z[2]>> /\ z[2] \in Value
                       /\ z[1] \in [1 .. L -> Nibble]
  BY <1>1, <1>2, <1>3
<1>6. ASSUME NEW x \in R, NEW y \in root, Agrees(y, k), Rest(x[1], k) = Rest(y[1], k)
      PROVE  x = y
  <2>1. \A j \in 1 .. PathLength : x[1][j] = y[1][j]
    <3>1. TAKE j \in 1 .. PathLength
    <3>2. CASE j <= k
      BY <1>6, <3>2 DEF Agrees
    <3>3. CASE ~ (j <= k)
      <4>1. j - k \in 1 .. L /\ k + (j - k) = j
        BY <1>0, <3>3
      <4>2. Rest(x[1], k)[j - k] = x[1][k + (j - k)] /\ Rest(y[1], k)[j - k] = y[1][k + (j - k)]
        BY <1>2, <1>6, <4>1
      <4> QED BY <1>6, <4>1, <4>2
    <3> QED BY <3>2, <3>3
  <2>2. x[1] = y[1]
    <3>1. x[1] \in [1 .. PathLength -> Nibble] /\ y[1] \in [1 .. PathLength -> Nibble]
      BY <1>1, <1>6
    <3> QED BY <1>0, <2>1, <3>1, SamePath
  <2> QED BY <1>0, <1>6, <2>2
<1>7. \A z, w \in At(k) : z[1] = w[1] => z = w
  <2> SUFFICES ASSUME NEW z \in At(k), NEW w \in At(k), z[1] = w[1]
               PROVE  z = w
    OBVIOUS
  <2>1. PICK x \in R : z = <<Rest(x[1], k), x[2]>>
    BY <1>3
  <2>2. PICK y \in R : w = <<Rest(y[1], k), y[2]>>
    BY <1>3
  <2>3. Rest(x[1], k) = Rest(y[1], k)
    BY <2>1, <2>2
  <2>4. x = y
    BY <1>6, <2>3
  <2> QED BY <2>1, <2>2, <2>4
<1>8. ASSUME NEW x \in root
      PROVE  x[1] = path <=> /\ Agrees(x, k)
                             /\ \A i \in 1 .. L : Rest(x[1], k)[i] = path[k + i]
  <2>1. ASSUME x[1] = path
        PROVE  /\ Agrees(x, k)
               /\ \A i \in 1 .. L : Rest(x[1], k)[i] = path[k + i]
    BY <1>2, <2>1 DEF Agrees
  <2>2. ASSUME Agrees(x, k), \A i \in 1 .. L : Rest(x[1], k)[i] = path[k + i]
        PROVE  x[1] = path
    <3>1. \A j \in 1 .. PathLength : x[1][j] = path[j]
      <4>1. TAKE j \in 1 .. PathLength
      <4>2. CASE j <= k
        BY <2>2, <4>2 DEF Agrees
      <4>3. CASE ~ (j <= k)
        <5>1. j - k \in 1 .. L /\ k + (j - k) = j
          BY <1>0, <4>3
        <5>2. Rest(x[1], k)[j - k] = x[1][k + (j - k)]
          BY <1>2, <5>1
        <5> QED BY <2>2, <5>1, <5>2
      <4> QED BY <4>2, <4>3
    <3> QED BY <1>0, <1>1, <3>1
  <2> QED BY <2>1, <2>2
<1> HIDE DEF L
<1>9. Held(root, path) = {z[2] : z \in {y \in At(k) : \A i \in 1 .. L : y[1][i] = path[k + i]}}
  <2> DEFINE H == {y \in At(k) : \A i \in 1 .. L : y[1][i] = path[k + i]}
  <2>1. ASSUME NEW v \in Held(root, path)
        PROVE  v \in {z[2] : z \in H}
    <3>1. PICK x \in root : x[1] = path /\ v = x[2]
      BY <2>1 DEF Held
    <3>2. <<Rest(x[1], k), x[2]>> \in H
      BY <1>3, <1>8, <3>1
    <3> QED BY <3>1, <3>2
  <2>2. ASSUME NEW z \in H
        PROVE  z[2] \in Held(root, path)
    <3>1. PICK x \in R : z = <<Rest(x[1], k), x[2]>>
      BY <1>3, <2>2
    <3>2. x[1] = path
      BY <1>8, <2>2, <3>1
    <3> QED BY <3>1, <3>2 DEF Held
  <2> HIDE DEF H
  <2>3. Held(root, path) = {z[2] : z \in H}
    BY <2>1, <2>2
  <2> QED BY <2>3 DEF H
<1> QED BY <1>4, <1>5, <1>7, <1>9 DEF L

(* The node that further nibbles lead to.                                  *)
LEMMA AtStep ==
    ASSUME Asked, NEW k \in 0 .. PathLength, NEW s \in 0 .. PathLength - k
    PROVE  Below({z \in At(k) : \A i \in 1 .. s : z[1][i] = path[k + i]}, s) = At(k + s)
<1> DEFINE L == PathLength - k
           R == {x \in root : Agrees(x, k)}
           Z == {z \in At(k) : \A i \in 1 .. s : z[1][i] = path[k + i]}
<1>0. /\ PathLength \in Nat /\ k \in 0 .. PathLength /\ s \in 0 .. PathLength - k
      /\ \A x \in root : x[1] \in [1 .. PathLength -> Nibble]
  BY ProofAssumption DEF Asked, Path
<1>1. \A x \in root : /\ \A i \in 1 .. L : Rest(x[1], k)[i] = x[1][k + i]
                      /\ Rest(Rest(x[1], k), s) = Rest(x[1], k + s)
  BY <1>0, RestFacts, RestOfRest
<1>2. At(k) = {<<Rest(x[1], k), x[2]>> : x \in R}
  BY DEF At, Below
<1>3. At(k + s) = {<<Rest(x[1], k + s), x[2]>> : x \in {y \in root : Agrees(y, k + s)}}
  BY DEF At, Below
<1>4. Below(Z, s) = {<<Rest(z[1], s), z[2]>> : z \in Z}
  BY DEF Below
<1>5. ASSUME NEW x \in root
      PROVE  Agrees(x, k + s) <=>
                 Agrees(x, k) /\ \A i \in 1 .. s : Rest(x[1], k)[i] = path[k + i]
  <2>1. \A i \in 1 .. s : i \in 1 .. L /\ k + i \in 1 .. k + s
    BY <1>0
  <2>2. \A i \in 1 .. s : Rest(x[1], k)[i] = x[1][k + i]
    BY <1>1, <2>1
  <2>3. Agrees(x, k + s) => Agrees(x, k) /\ \A i \in 1 .. s : x[1][k + i] = path[k + i]
    <3>1. \A i \in 1 .. k : i \in 1 .. k + s
      BY <1>0
    <3> QED BY <2>1, <3>1 DEF Agrees
  <2>4. Agrees(x, k) /\ (\A i \in 1 .. s : x[1][k + i] = path[k + i]) => Agrees(x, k + s)
    <3>1. \A j \in 1 .. k + s : j \in 1 .. k \/ (j - k \in 1 .. s /\ k + (j - k) = j)
      BY <1>0
    <3> QED BY <3>1 DEF Agrees
  <2> QED BY <2>2, <2>3, <2>4
<1>6. ASSUME NEW z \in Z
      PROVE  <<Rest(z[1], s), z[2]>> \in At(k + s)
  <2>1. PICK x \in R : z = <<Rest(x[1], k), x[2]>>
    BY <1>2, <1>6
  <2>2. Agrees(x, k + s)
    BY <1>5, <1>6, <2>1
  <2>3. Rest(z[1], s) = Rest(x[1], k + s) /\ z[2] = x[2]
    BY <1>1, <2>1
  <2> QED BY <1>3, <2>1, <2>2, <2>3
<1>7. ASSUME NEW x \in root, Agrees(x, k + s)
      PROVE  <<Rest(x[1], k + s), x[2]>> \in {<<Rest(z[1], s), z[2]>> : z \in Z}
  <2> DEFINE z == <<Rest(x[1], k), x[2]>>
  <2>1. z \in Z
    BY <1>2, <1>5, <1>7
  <2>2. Rest(z[1], s) = Rest(x[1], k + s) /\ z[2] = x[2]
    BY <1>1, <1>7
  <2> HIDE DEF z
  <2> QED BY <2>1, <2>2
<1> HIDE DEF Z
<1>8. At(k + s) = {<<Rest(z[1], s), z[2]>> : z \in Z}
  BY <1>3, <1>6, <1>7
<1> QED BY <1>4, <1>8 DEF Z

(* The paths of a node share as many nibbles as SharedLength says.         *)
LEMMA SharedFacts ==
    ASSUME NEW L \in Nat, NEW n, n # {}, \A z \in n : z[1] \in [1 .. L -> Nibble]
    PROVE  /\ SharedLength(n) \in 0 .. L
           /\ \A z, w \in n : \A i \in 1 .. SharedLength(n) : z[1][i] = w[1][i]
<1> DEFINE first == (CHOOSE x \in n : TRUE)[1]
           shared(j) == \A x \in n : \A i \in 1 .. j : x[1][i] = first[i]
           Good == {j \in 0 .. L : shared(j)}
           s == SharedLength(n)
<1>1. (CHOOSE x \in n : TRUE) \in n
  OBVIOUS
<1>2. first \in [1 .. L -> Nibble] /\ Len(first) = L
  <2>1. first \in [1 .. L -> Nibble]
    BY <1>1
  <2> HIDE DEF first
  <2> QED BY <2>1
<1> HIDE DEF first
<1>3. \E j \in 0 .. L : shared(j) /\ \A i \in 0 .. L : shared(i) => i <= j
  <2> DEFINE f == [j \in Good |-> j]
  <2>1. 0 \in Good
    OBVIOUS
  <2>2. IsFiniteSet(Good) /\ Good \subseteq 0 .. L
    <3>1. IsFiniteSet(0 .. L)
      BY FS_Interval
    <3>2. Good \subseteq 0 .. L
      OBVIOUS
    <3> HIDE DEF Good
    <3> QED BY <3>1, <3>2, FS_Subset
  <2>3. \A j \in Good : f[j] \in Nat
    BY <2>2
  <2>4. \E x \in Good : \A y \in Good : f[y] <= f[x]
    <3> HIDE DEF Good, f
    <3> QED BY <2>1, <2>2, <2>3, GreatestValue
  <2> QED BY <2>4
<1>4. s = CHOOSE j \in 0 .. L : shared(j) /\ \A i \in 0 .. L : shared(i) => i <= j
  BY <1>2 DEF SharedLength, first
<1>5. s \in 0 .. L /\ shared(s)
  <2> HIDE DEF shared, s
  <2> QED BY <1>3, <1>4
<1> HIDE DEF s
<1>6. \A z, w \in n : \A i \in 1 .. s : z[1][i] = w[1][i]
  BY <1>5
<1> QED BY <1>5, <1>6 DEF s

(* A node is a leaf, or it has two paths.                                  *)
LEMMA LeafFacts ==
    ASSUME NEW n, IsFiniteSet(n), n # {}
    PROVE  /\ IsLeaf(n) => \E z : n = {z}
           /\ ~ IsLeaf(n) => \E z, w \in n : z # w
<1>1. Cardinality(n) = 1 <=> \E z : n = {z}
  BY FS_Singleton
<1>2. ASSUME ~ IsLeaf(n)
      PROVE  \E z, w \in n : z # w
  <2>1. PICK z : z \in n
    OBVIOUS
  <2>2. n # {z}
    BY <1>1, <1>2 DEF IsLeaf
  <2> QED BY <2>1, <2>2
<1> QED BY <1>1, <1>2 DEF IsLeaf

(* The two items of a leaf.                                                *)
LEMMA LeafItems ==
    ASSUME NEW L \in Nat, NEW n, NEW z, n = {z}, z[1] \in [1 .. L -> Nibble], IsLeaf(n)
    PROVE  IsCompact(two_items(n)[1], L, z[1]) /\ two_items(n)[2] = z[2]
<1> DEFINE c == Prefixed(2, z[1])
<1>1. (CHOOSE x \in n : TRUE) = z
  OBVIOUS
<1>2. Len(z[1]) = L /\ SubSeq(z[1], 1, Len(z[1])) = z[1]
  OBVIOUS
<1>3. two_items(n) = <<c, z[2]>>
  BY <1>1, <1>2 DEF two_items, compact, Prefixed
<1>4. IsCompact(c, L, z[1])
  BY CompactFacts
<1> HIDE DEF c
<1> QED BY <1>3, <1>4

(* The two items of an extension.                                          *)
LEMMA ExtensionItems ==
    ASSUME NEW L \in Nat, NEW n, IsFiniteSet(n), n # {}, ~ IsLeaf(n),
           \A z \in n : z[1] \in [1 .. L -> Nibble],
           \A z, w \in n : z[1] = w[1] => z = w, NEW s, s = SharedLength(n)
    PROVE  /\ s \in 0 .. L - 1
           /\ \E z \in n : \E p \in [1 .. s -> Nibble] :
                 /\ \A i \in 1 .. s : p[i] = z[1][i]
                 /\ IsCompact(two_items(n)[1], s, p)
           /\ two_items(n)[2] = Below(n, s)
<1> DEFINE x == CHOOSE x \in n : TRUE
           p == SubSeq(x[1], 1, s)
<1>1. /\ s \in 0 .. L
      /\ \A z, w \in n : \A i \in 1 .. s : z[1][i] = w[1][i]
  BY SharedFacts
<1>2. s # L
  <2>1. PICK z, w \in n : z # w
    BY LeafFacts
  <2>2. z[1] \in [1 .. L -> Nibble] /\ w[1] \in [1 .. L -> Nibble] /\ z[1] # w[1]
    BY <2>1
  <2>3. \E i \in 1 .. L : z[1][i] # w[1][i]
    BY <2>2
  <2> QED BY <1>1, <2>1, <2>3
<1>3. x \in n
  OBVIOUS
<1>4. p \in [1 .. s -> Nibble] /\ \A i \in 1 .. s : p[i] = x[1][i]
  <2>1. x[1] \in [1 .. L -> Nibble]
    BY <1>3
  <2> HIDE DEF x
  <2>2. \A i \in 1 .. s : i \in 1 .. L
    BY <1>1
  <2>3. p = [i \in 1 .. s |-> x[1][i]]
    BY <1>1, <2>1
  <2> QED BY <2>1, <2>2, <2>3
<1>5. IsCompact(two_items(n)[1], s, p) /\ two_items(n)[2] = Below(n, s)
  <2> DEFINE c == Prefixed(0, p)
  <2>1. two_items(n) = <<c, Below(n, s)>>
    BY DEF two_items, compact, Prefixed
  <2>2. IsCompact(c, s, p)
    <3>1. s \in Nat
      BY <1>1
    <3> HIDE DEF p
    <3> QED BY <1>4, <3>1, CompactFacts
  <2> HIDE DEF c
  <2> QED BY <2>1, <2>2
<1>6. s \in 0 .. L - 1
  BY <1>1, <1>2
<1> QED BY <1>3, <1>4, <1>5, <1>6

----------------------------------------------------------------------------
(* The steps of the walk.                                                  *)

(* What the provider should have given for the path.                       *)
Expected == IF Held(root, path) = {} THEN {EmptyValue} ELSE Held(root, path)

(* The walk goes on at k nibbles.                                          *)
LEMMA GoesOn ==
    ASSUME Inv, result = "open", result' = result, NEW k \in 0 .. PathLength, path_offset' = k,
           \/ expected_hash' \in Value /\ Held(root, path) = {expected_hash'}
           \/ expected_hash' = At(k),
           UNCHANGED <<root, path, value>>, complete' \in BOOLEAN, through' \in BOOLEAN
    PROVE  Inv'
<1>1. At(k)' = At(k)
  BY DEF At, Agrees
<1>2. Asked'
  BY DEF Inv, Asked
<1>3. Walk'
  <2>1. Held(root, path)' = Held(root, path)
    BY DEF Held
  <2> QED BY <1>1, <2>1 DEF Walk, AtValue
<1>4. InclusionIsSound' /\ ExclusionIsSoundOffPath' /\ CompleteProofIsAccepted'
  BY DEF InclusionIsSound, ExclusionIsSoundOffPath, CompleteProofIsAccepted
<1> QED BY <1>2, <1>3, <1>4 DEF Inv

(* It ends with the verdict b.                                             *)
LEMMA Ends ==
    ASSUME Inv, NEW b \in BOOLEAN, Return(b),
           UNCHANGED <<root, path, value>>, complete' \in BOOLEAN, through' \in BOOLEAN,
           b /\ value # EmptyValue => Held(root, path) = {value},
           b /\ value = EmptyValue /\ ~ through' => Held(root, path) = {},
           ~ b /\ complete' => value \notin Expected
    PROVE  Inv'
<1>1. /\ result' = IF b THEN "valid" ELSE "invalid"
      /\ path_offset' = path_offset
      /\ root' = root /\ path' = path /\ value' = value
  BY DEF Return
<1>2. Held(root, path)' = Held(root, path)
  BY <1>1 DEF Held
<1>3. Asked'
  BY <1>1 DEF Inv, Asked
<1>4. Walk'
  BY <1>1 DEF Walk
<1>5. InclusionIsSound'
  BY <1>1, <1>2 DEF InclusionIsSound
<1>6. ExclusionIsSoundOffPath'
  BY <1>1, <1>2 DEF ExclusionIsSoundOffPath
<1>7. CompleteProofIsAccepted'
  BY <1>1, <1>2 DEF CompleteProofIsAccepted, Expected
<1> QED BY <1>3, <1>4, <1>5, <1>6, <1>7 DEF Inv

(* The node that the walk is at.                                           *)
LEMMA NodeFacts ==
    ASSUME Inv, result = "open", expected_hash \notin Value \cup {{}},
           NEW n, n = expected_hash, NEW k, k = path_offset, NEW L, L = PathLength - k
    PROVE  /\ Asked /\ PathLength \in Nat /\ k \in 0 .. PathLength /\ L \in Nat
           /\ path \in [1 .. PathLength -> Nibble]
           /\ n = At(k) /\ n # {} /\ IsFiniteSet(n)
           /\ \A z \in n : z[1] \in [1 .. L -> Nibble] /\ z[2] \in Value
           /\ \A z, w \in n : z[1] = w[1] => z = w
           /\ Held(root, path) = {z[2] : z \in {y \in n : \A i \in 1 .. L : y[1][i] = path[k + i]}}
<1>1. /\ Asked /\ k \in 0 .. PathLength /\ path \in [1 .. PathLength -> Nibble]
      /\ n = At(k) /\ n # {}
  BY DEF Inv, Asked, Walk, AtValue, Path
<1>2. PathLength \in Nat /\ L \in Nat
  BY <1>1, ProofAssumption
<1>3. /\ IsFiniteSet(At(k))
      /\ \A z \in At(k) : /\ z = <<z[1], z[2]>> /\ z[2] \in Value
                          /\ z[1] \in [1 .. PathLength - k -> Nibble]
      /\ \A z, w \in At(k) : z[1] = w[1] => z = w
      /\ Held(root, path) =
            {z[2] : z \in {y \in At(k) : \A i \in 1 .. PathLength - k : y[1][i] = path[k + i]}}
  BY <1>1, AtFacts
<1> QED BY <1>1, <1>2, <1>3

(* The child of a branch on the path is the node one nibble further, and a *)
(* branch is never asked for a nibble that the path does not have.         *)
LEMMA BranchFacts ==
    ASSUME Inv, result = "open", expected_hash \notin Value \cup {{}},
           NEW n, n = expected_hash, IsBranch(n)
    PROVE  /\ path_offset + 1 \in 0 .. PathLength
           /\ child(n, get_nibble(path, path_offset)) = At(path_offset + 1)
           /\ At(path_offset + 1) = {} => Held(root, path) = {}
<1> DEFINE k == path_offset
           L == PathLength - k
<1>1. /\ Asked /\ PathLength \in Nat /\ k \in 0 .. PathLength /\ L \in Nat
      /\ n = At(k) /\ n # {} /\ IsFiniteSet(n)
      /\ \A z \in n : z[1] \in [1 .. L -> Nibble] /\ z[2] \in Value
      /\ \A z, w \in n : z[1] = w[1] => z = w
  BY NodeFacts
<1>2. k + 1 \in 0 .. PathLength /\ 1 \in 0 .. PathLength - k
  <2>1. SharedLength(n) \in 0 .. L - 1
    <3> HIDE DEF L
    <3> QED BY <1>1, ExtensionItems DEF IsBranch
  <2> QED BY <1>1, <2>1
<1>3. child(n, get_nibble(path, k)) = At(k + 1)
  <2> DEFINE Z == {z \in At(k) : \A i \in 1 .. 1 : z[1][i] = path[k + i]}
  <2>1. Below(Z, 1) = At(k + 1)
    BY <1>1, <1>2, AtStep
  <2>2. {x \in n : x[1][1] = path[k + 1]} = Z
    BY <1>1
  <2> HIDE DEF Z
  <2> QED BY <2>1, <2>2 DEF child, get_nibble
<1>4. At(k + 1) = {} => Held(root, path) = {}
  <2> DEFINE j == k + 1
  <2>1. j \in 0 .. PathLength
    BY <1>2
  <2> HIDE DEF j
  <2>2. Held(root, path) =
           {z[2] : z \in {y \in At(j) : \A i \in 1 .. PathLength - j : y[1][i] = path[j + i]}}
    BY <1>1, <2>1, AtFacts
  <2>3. At(j) = {} => Held(root, path) = {}
    BY <2>2
  <2> QED BY <2>3 DEF j
<1> QED BY <1>2, <1>3, <1>4

(* A proof node that is a branch.                                          *)
LEMMA BranchKeeps ==
    ASSUME Inv, NEW last \in BOOLEAN, ProofNode(last), IsBranch(expected_hash)
    PROVE  Inv'
<1> DEFINE n == expected_hash
           c == child(n, get_nibble(path, path_offset))
<1>1. /\ result = "open" /\ n \notin Value \cup {{}} /\ UNCHANGED <<root, path, value>>
      /\ IF last THEN LastBranch(n) ELSE InnerBranch(n)
      /\ complete' = (complete /\ last = WalkEnds(n))
      /\ through' = (last /\ ~ IsBranch(n) /\ ~ IsLeaf(n) /\ OnPath(n))
  BY DEF ProofNode
<1>2. complete' \in BOOLEAN /\ through' \in BOOLEAN
  BY <1>1
<1>3. /\ path_offset + 1 \in 0 .. PathLength
      /\ c = At(path_offset + 1)
      /\ At(path_offset + 1) = {} => Held(root, path) = {}
  BY <1>1, BranchFacts
<1>4. CASE ~ last
  <2> DEFINE k == path_offset + 1
  <2>1. path_offset' = k /\ expected_hash' = At(k) /\ result' = result /\ k \in 0 .. PathLength
    BY <1>1, <1>3, <1>4 DEF InnerBranch
  <2> HIDE DEF k
  <2> QED BY <1>1, <1>2, <2>1, GoesOn
<1>5. CASE last
  <2> DEFINE b == c = {} /\ value = EmptyValue
  <2>1. Return(b) /\ b \in BOOLEAN
    BY <1>1, <1>5 DEF LastBranch, is_empty_value
  <2>2. b => value = EmptyValue /\ Held(root, path) = {}
    BY <1>3
  <2>3. complete' => c = {}
    <3>1. complete' => WalkEnds(n)
      BY <1>1, <1>5
    <3> QED BY <3>1 DEF WalkEnds, get_nibble
  <2>4. ~ b /\ complete' => value \notin Expected
    BY <1>3, <2>3 DEF Expected
  <2> HIDE DEF b
  <2> QED BY <1>1, <1>2, <2>1, <2>2, <2>4, Ends
<1> QED BY <1>4, <1>5

(* A proof node that is a leaf.                                            *)
LEMMA LeafKeeps ==
    ASSUME Inv, NEW last \in BOOLEAN, ProofNode(last), IsLeaf(expected_hash)
    PROVE  Inv'
<1> DEFINE n == expected_hash
           k == path_offset
           L == PathLength - k
<1>1. ~ IsBranch(n) /\ IsLeaf(n)
  BY DEF IsBranch
<1>2. /\ result = "open" /\ n \notin Value \cup {{}} /\ UNCHANGED <<root, path, value>>
      /\ IF last THEN LastTwoItems(n) ELSE InnerTwoItems(n)
      /\ complete' = (complete /\ last = WalkEnds(n))
      /\ through' = (last /\ ~ IsBranch(n) /\ ~ IsLeaf(n) /\ OnPath(n))
  BY <1>1 DEF ProofNode
<1>3. complete' \in BOOLEAN /\ through' \in BOOLEAN
  BY <1>2
<1>4. /\ PathLength \in Nat /\ k \in 0 .. PathLength /\ L \in Nat
      /\ path \in [1 .. PathLength -> Nibble]
      /\ n # {} /\ IsFiniteSet(n)
      /\ \A z \in n : z[1] \in [1 .. L -> Nibble] /\ z[2] \in Value
      /\ Held(root, path) = {z[2] : z \in {y \in n : \A i \in 1 .. L : y[1][i] = path[k + i]}}
  BY <1>2, NodeFacts
<1>5. PICK z : n = {z}
  BY <1>1, <1>4, LeafFacts
<1>6. z[1] \in [1 .. L -> Nibble] /\ z[2] \in Value
  BY <1>4, <1>5
<1> DEFINE here == \A i \in 1 .. L : z[1][i] = path[k + i]
           c == two_items(n)[1]
           match == paths_match(c, skip_length(c), path, k)
<1>7. /\ here => Held(root, path) = {z[2]}
      /\ ~ here => Held(root, path) = {}
  BY <1>4, <1>5
<1>8. IsCompact(c, L, z[1]) /\ two_items(n)[2] = z[2]
  <2> HIDE DEF L
  <2> QED BY <1>1, <1>4, <1>5, <1>6, LeafItems
<1>9. CASE last
  <2> DEFINE b == (~ match /\ value = EmptyValue) \/ (z[2] = value /\ match)
  <2>1. Return(b) /\ b \in BOOLEAN
    BY <1>2, <1>8, <1>9 DEF LastTwoItems, is_empty_value
  <2>2. match <=> here
    <3>1. L = PathLength - k
      OBVIOUS
    <3>2. /\ L \in Nat /\ z[1] \in [1 .. L -> Nibble] /\ PathLength \in Nat
          /\ path \in [1 .. PathLength -> Nibble] /\ k \in 0 .. PathLength
          /\ IsCompact(c, L, z[1])
      BY <1>4, <1>6, <1>8
    <3> HIDE DEF L, c, k
    <3>3. paths_match(c, skip_length(c), path, k) <=>
             L = PathLength - k /\ \A i \in 1 .. L : z[1][i] = path[k + i]
      BY <3>2, MatchFacts
    <3> QED BY <3>1, <3>3
  <2> HIDE DEF match, here
  <2>3. EmptyValue # z[2]
    BY <1>6, ProofAssumption
  <2>4. b /\ value # EmptyValue => Held(root, path) = {value}
    BY <1>7, <2>2
  <2>5. b /\ value = EmptyValue => Held(root, path) = {}
    BY <1>7, <2>2, <2>3
  <2>6. ~ b => value \notin Expected
    BY <1>7, <2>2 DEF Expected
  <2> HIDE DEF b
  <2> QED BY <1>2, <1>3, <2>1, <2>4, <2>5, <2>6, Ends
<1>10. CASE ~ last
  <2> DEFINE prefix_length == shared_prefix_length(path, k, c)
  <2>1. IF prefix_length < Len(c) - skip_length(c)
        THEN Return(FALSE)
        ELSE path_offset' = k + prefix_length /\ expected_hash' = z[2] /\ result' = result
    BY <1>2, <1>8, <1>10 DEF InnerTwoItems
  <2>2. ~ complete'
    <3>1. WalkEnds(n)
      BY <1>1 DEF WalkEnds
    <3> QED BY <1>2, <1>10, <3>1
  <2>3. CASE prefix_length < Len(c) - skip_length(c)
    BY <1>2, <1>3, <2>1, <2>2, <2>3, Ends
  <2>4. CASE ~ (prefix_length < Len(c) - skip_length(c))
    <3>1. prefix_length \in 0 .. L /\ here
      <4>1. L <= PathLength - k
        BY <1>4
      <4> HIDE DEF L, c
      <4>2. /\ Len(c) - skip_length(c) = L
            /\ prefix_length \in 0 .. L
            /\ prefix_length = L <=> Leads(z[1], L, path, k)
        BY <1>4, <1>6, <1>8, <4>1, PrefixFacts
      <4> HIDE DEF prefix_length
      <4>3. prefix_length = L
        BY <1>4, <2>4, <4>2
      <4> QED BY <4>2, <4>3 DEF Leads
    <3> HIDE DEF prefix_length, c
    <3> DEFINE j == k + prefix_length
    <3>2. j \in 0 .. PathLength /\ path_offset' = j
      BY <1>4, <2>1, <2>4, <3>1
    <3>3. /\ expected_hash' \in Value /\ result' = result
          /\ Held(root, path) = {expected_hash'}
      BY <1>6, <1>7, <2>1, <2>4, <3>1
    <3> HIDE DEF j
    <3> QED BY <1>2, <1>3, <3>2, <3>3, GoesOn
  <2> QED BY <2>3, <2>4
<1> QED BY <1>9, <1>10

(* A proof node that is an extension.                                      *)
LEMMA ExtensionKeeps ==
    ASSUME Inv, NEW last \in BOOLEAN, ProofNode(last),
           ~ IsLeaf(expected_hash), ~ IsBranch(expected_hash)
    PROVE  Inv'
<1> DEFINE n == expected_hash
           k == path_offset
           L == PathLength - k
           s == SharedLength(n)
<1>1. ~ IsBranch(n) /\ ~ IsLeaf(n)
  OBVIOUS
<1>2. /\ result = "open" /\ n \notin Value \cup {{}} /\ UNCHANGED <<root, path, value>>
      /\ IF last THEN LastTwoItems(n) ELSE InnerTwoItems(n)
      /\ complete' = (complete /\ last = WalkEnds(n))
      /\ through' = (last /\ ~ IsBranch(n) /\ ~ IsLeaf(n) /\ OnPath(n))
  BY <1>1 DEF ProofNode
<1>3. complete' \in BOOLEAN /\ through' \in BOOLEAN
  BY <1>2
<1>4. /\ Asked /\ PathLength \in Nat /\ k \in 0 .. PathLength /\ L \in Nat
      /\ path \in [1 .. PathLength -> Nibble]
      /\ n = At(k) /\ n # {} /\ IsFiniteSet(n)
      /\ \A z \in n : z[1] \in [1 .. L -> Nibble] /\ z[2] \in Value
      /\ \A z, w \in n : z[1] = w[1] => z = w
      /\ Held(root, path) = {z[2] : z \in {y \in n : \A i \in 1 .. L : y[1][i] = path[k + i]}}
  BY <1>2, NodeFacts
<1>5. /\ s \in 0 .. L - 1
      /\ \E z \in n : \E p \in [1 .. s -> Nibble] :
            /\ \A i \in 1 .. s : p[i] = z[1][i]
            /\ IsCompact(two_items(n)[1], s, p)
      /\ two_items(n)[2] = Below(n, s)
  <2>1. /\ s = SharedLength(n) /\ L \in Nat /\ IsFiniteSet(n) /\ n # {} /\ ~ IsLeaf(n)
        /\ \A z \in n : z[1] \in [1 .. L -> Nibble]
        /\ \A z, w \in n : z[1] = w[1] => z = w
    BY <1>1, <1>4
  <2> HIDE DEF n, L, s
  <2> QED BY <2>1, ExtensionItems
<1>6. \A z, w \in n : \A i \in 1 .. s : z[1][i] = w[1][i]
  <2>1. L \in Nat /\ n # {} /\ \A z \in n : z[1] \in [1 .. L -> Nibble]
    BY <1>4
  <2> HIDE DEF n, L
  <2> QED BY <2>1, SharedFacts
<1>7. PICK z \in n : \E p \in [1 .. s -> Nibble] :
         /\ \A i \in 1 .. s : p[i] = z[1][i]
         /\ IsCompact(two_items(n)[1], s, p)
  BY <1>5
<1>8. PICK p \in [1 .. s -> Nibble] : /\ \A i \in 1 .. s : p[i] = z[1][i]
                                      /\ IsCompact(two_items(n)[1], s, p)
  BY <1>7
<1> DEFINE here == \A i \in 1 .. s : p[i] = path[k + i]
           c == two_items(n)[1]
<1>9. OnPath(n) <=> here
  BY <1>6, <1>7, <1>8 DEF OnPath
<1>10. s \in Nat /\ s <= PathLength - k /\ s # PathLength - k
  <2> HIDE DEF s
  <2> QED BY <1>4, <1>5
<1> HIDE DEF s
<1>11. ~ here => Held(root, path) = {}
  <2> SUFFICES ASSUME NEW y \in n, \A i \in 1 .. L : y[1][i] = path[k + i]
               PROVE  here
    BY <1>4
  <2>1. \A i \in 1 .. s : i \in 1 .. L
    BY <1>4, <1>10
  <2> HIDE DEF L
  <2> QED BY <1>6, <1>7, <1>8, <2>1
<1>12. CASE last
  <2> DEFINE match == paths_match(c, skip_length(c), path, k)
             b == (~ match /\ value = EmptyValue) \/ (Below(n, s) = value /\ match)
  <2>1. Return(b) /\ b \in BOOLEAN
    BY <1>2, <1>5, <1>8, <1>12 DEF LastTwoItems, is_empty_value, s
  <2>2. ~ match
    <3>1. /\ s \in Nat /\ p \in [1 .. s -> Nibble] /\ PathLength \in Nat
          /\ path \in [1 .. PathLength -> Nibble] /\ k \in 0 .. PathLength
          /\ s <= PathLength - k /\ IsCompact(c, s, p)
      BY <1>4, <1>8, <1>10
    <3> HIDE DEF c, k
    <3>2. paths_match(c, skip_length(c), path, k) <=>
             s = PathLength - k /\ \A i \in 1 .. s : p[i] = path[k + i]
      BY <3>1, MatchFacts
    <3> QED BY <1>10, <3>2 DEF k
  <2> HIDE DEF match
  <2>3. b <=> value = EmptyValue
    BY <2>2
  <2>4. ~ through' => ~ here
    BY <1>1, <1>2, <1>9, <1>12
  <2>5. complete' => ~ here
    <3>1. complete' => WalkEnds(n)
      BY <1>2, <1>12
    <3> QED BY <1>1, <1>9, <3>1 DEF WalkEnds
  <2> HIDE DEF here
  <2>6. ~ b /\ complete' => value \notin Expected
    BY <1>11, <2>3, <2>5 DEF Expected
  <2> HIDE DEF b
  <2> QED BY <1>2, <1>3, <1>11, <2>1, <2>3, <2>4, <2>6, Ends
<1>13. CASE ~ last
  <2> DEFINE prefix_length == shared_prefix_length(path, k, c)
  <2>1. IF prefix_length < Len(c) - skip_length(c)
        THEN Return(FALSE)
        ELSE path_offset' = k + prefix_length /\ expected_hash' = Below(n, s) /\ result' = result
    BY <1>2, <1>5, <1>8, <1>13 DEF InnerTwoItems, s
  <2>2. /\ Len(c) - skip_length(c) = s
        /\ prefix_length \in 0 .. s
        /\ prefix_length = s <=> here
    <3>1. /\ s \in Nat /\ p \in [1 .. s -> Nibble] /\ PathLength \in Nat
          /\ path \in [1 .. PathLength -> Nibble] /\ k \in 0 .. PathLength
          /\ s <= PathLength - k /\ IsCompact(c, s, p)
      BY <1>4, <1>8, <1>10
    <3> HIDE DEF c, k
    <3>2. Len(c) - skip_length(c) = s /\ shared_prefix_length(path, k, c) \in 0 .. s
      BY <3>1, PrefixFacts
    <3>3. shared_prefix_length(path, k, c) = s <=> Leads(p, s, path, k)
      BY <3>1, PrefixFacts
    <3> QED BY <3>2, <3>3 DEF Leads
  <2> HIDE DEF prefix_length, c
  <2> HIDE DEF here
  <2>3. CASE ~ here
    <3>1. prefix_length < Len(c) - skip_length(c)
      BY <1>10, <2>2, <2>3
    <3>2. Return(FALSE)
      BY <2>1, <3>1
    <3>3. ~ complete'
      <4>1. WalkEnds(n)
        BY <1>1, <1>9, <2>3 DEF WalkEnds
      <4> QED BY <1>2, <1>13, <4>1
    <3> QED BY <1>2, <1>3, <3>2, <3>3, Ends
  <2>4. CASE here
    <3> DEFINE j == k + s
    <3>1. path_offset' = j /\ expected_hash' = Below(n, s) /\ result' = result
      <4>1. prefix_length = s /\ ~ (prefix_length < Len(c) - skip_length(c))
        BY <1>10, <2>2, <2>4
      <4> QED BY <2>1, <4>1
    <3>2. j \in 0 .. PathLength /\ s \in 0 .. PathLength - k
      BY <1>4, <1>10
    <3>3. Below(n, s) = At(j)
      <4> DEFINE Z == {y \in At(k) : \A i \in 1 .. s : y[1][i] = path[k + i]}
      <4>1. Below(Z, s) = At(k + s)
        BY <1>4, <3>2, AtStep
      <4>2. Z = n
        <5>1. \A y \in n : \A i \in 1 .. s : y[1][i] = path[k + i]
          BY <1>6, <1>7, <1>8, <2>4 DEF here, s
        <5> QED BY <1>4, <5>1
      <4> HIDE DEF Z
      <4> QED BY <4>1, <4>2
    <3> HIDE DEF j
    <3> QED BY <1>2, <1>3, <3>1, <3>2, <3>3, GoesOn
  <2> QED BY <2>3, <2>4
<1> QED BY <1>12, <1>13

(* A proof that fails.                                                     *)
LEMMA ProofFailsKeeps ==
    ASSUME Inv, ProofFails
    PROVE  Inv'
<1>1. /\ result' = "invalid" /\ complete' = FALSE
      /\ UNCHANGED <<root, path, value, expected_hash, path_offset, through>>
  BY DEF ProofFails
<1>2. Asked' /\ Walk'
  BY <1>1 DEF Inv, Asked, Walk
<1>3. InclusionIsSound' /\ ExclusionIsSoundOffPath' /\ CompleteProofIsAccepted'
  BY <1>1 DEF InclusionIsSound, ExclusionIsSoundOffPath, CompleteProofIsAccepted
<1> QED BY <1>2, <1>3 DEF Inv

(* A node that cannot be decoded.                                          *)
LEMMA ProofPanicsKeeps ==
    ASSUME Inv, ProofPanics
    PROVE  Inv'
<1>1. /\ result' = "panic" /\ ~ decodes(expected_hash)
      /\ UNCHANGED <<root, path, value, expected_hash, path_offset, complete, through>>
  BY DEF ProofPanics
<1>2. Asked' /\ Walk'
  BY <1>1 DEF Inv, Asked, Walk
<1>3. InclusionIsSound' /\ ExclusionIsSoundOffPath'
  BY <1>1 DEF InclusionIsSound, ExclusionIsSoundOffPath
<1>4. CompleteProofIsAccepted'
  <2>1. decodes(expected_hash)' = decodes(expected_hash)
    BY <1>1 DEF decodes, Children, child, Below
  <2> QED BY <1>1, <2>1 DEF CompleteProofIsAccepted
<1> QED BY <1>2, <1>3, <1>4 DEF Inv

(* Nodes beyond a leaf: the key holds the hash of a node.                  *)
LEMMA BeyondLeafKeeps ==
    ASSUME Inv, BeyondLeaf
    PROVE  Inv'
<1>1. /\ result = "open" /\ expected_hash \in NodeHashes
      /\ result' \in {"valid", "invalid", "panic"} /\ complete' = FALSE
      /\ UNCHANGED <<root, path, value, expected_hash, path_offset, through>>
  BY DEF BeyondLeaf
<1>2. At(path_offset) \notin Value
  <2>1. {x \in root : Agrees(x, path_offset)} \in SUBSET root
    OBVIOUS
  <2>2. root \in Tries /\ path_offset \in 0 .. PathLength
    BY DEF Inv, Asked
  <2> QED BY <2>1, <2>2, NodesAreNotValues DEF At
<1>3. Held(root, path) = {expected_hash}
  BY <1>1, <1>2, ProofAssumption DEF Inv, Walk, AtValue
<1>4. Held(root, path)' = Held(root, path) /\ Held(root, path) \cap NodeHashes # {}
  BY <1>1, <1>3 DEF Held
<1>5. Asked' /\ Walk'
  BY <1>1 DEF Inv, Asked, Walk
<1>6. InclusionIsSound' /\ ExclusionIsSoundOffPath' /\ CompleteProofIsAccepted'
  BY <1>1, <1>4 DEF InclusionIsSound, ExclusionIsSoundOffPath, CompleteProofIsAccepted
<1> QED BY <1>5, <1>6 DEF Inv

----------------------------------------------------------------------------
(* The theorems.                                                           *)

(* The walk begins at the root.                                            *)
LEMMA InitInv ==
    ASSUME Init
    PROVE  Inv
<1>1. Asked
  <2>1. 0 \in 0 .. PathLength
    BY ProofAssumption
  <2> QED BY <2>1 DEF Init, Asked
<1>2. Walk
  <2>1. At(0) = root
    <3>1. \A x \in root : Agrees(x, 0)
      BY DEF Agrees
    <3>2. PathLength \in Nat /\ 0 \in 0 .. PathLength /\ PathLength - 0 = PathLength
      BY ProofAssumption
    <3>3. ASSUME NEW x \in root
          PROVE  <<Rest(x[1], 0), x[2]>> = x
      <4>1. x = <<x[1], x[2]>> /\ x[1] \in [1 .. PathLength -> Nibble]
        BY <1>1, ProofAssumption DEF Asked, Path
      <4>2. /\ Rest(x[1], 0) \in [1 .. PathLength - 0 -> Nibble]
            /\ \A i \in 1 .. PathLength - 0 : Rest(x[1], 0)[i] = x[1][0 + i]
        BY <3>2, <4>1, RestFacts
      <4>3. \A i \in 1 .. PathLength : Rest(x[1], 0)[i] = x[1][i]
        BY <3>2, <4>2
      <4>4. Rest(x[1], 0) = x[1]
        BY <3>2, <4>1, <4>2, <4>3, SamePath
      <4> QED BY <4>1, <4>4
    <3>4. At(0) = {<<Rest(x[1], 0), x[2]>> : x \in root}
      BY <3>1 DEF At, Below
    <3> QED BY <3>3, <3>4
  <2> QED BY <2>1 DEF Init, Walk
<1>3. InclusionIsSound /\ ExclusionIsSoundOffPath /\ CompleteProofIsAccepted
  BY DEF Init, InclusionIsSound, ExclusionIsSoundOffPath, CompleteProofIsAccepted
<1> QED BY <1>1, <1>2, <1>3 DEF Inv

(* Every step keeps the invariant.                                         *)
LEMMA NextInv ==
    ASSUME Inv, [Next]_vars
    PROVE  Inv'
<1>1. ASSUME NEW last \in BOOLEAN, ProofNode(last)
      PROVE  Inv'
  <2>1. CASE IsBranch(expected_hash)
    BY <1>1, <2>1, BranchKeeps
  <2>2. CASE IsLeaf(expected_hash)
    BY <1>1, <2>2, LeafKeeps
  <2>3. CASE ~ IsBranch(expected_hash) /\ ~ IsLeaf(expected_hash)
    BY <1>1, <2>3, ExtensionKeeps
  <2> QED BY <2>1, <2>2, <2>3
<1>2. CASE ProofNode(TRUE)
  BY <1>1, <1>2
<1>3. CASE ProofNode(FALSE)
  BY <1>1, <1>3
<1>4. CASE ProofFails
  BY <1>4, ProofFailsKeeps
<1>5. CASE ProofPanics
  BY <1>5, ProofPanicsKeeps
<1>6. CASE BeyondLeaf
  BY <1>6, BeyondLeafKeeps
<1>7. CASE UNCHANGED vars
  <2>1. /\ At(path_offset)' = At(path_offset) /\ Held(root, path)' = Held(root, path)
        /\ decodes(expected_hash)' = decodes(expected_hash)
    BY <1>7 DEF vars, At, Agrees, Held, decodes, Children, child, Below
  <2> QED BY <1>7, <2>1 DEF vars, Inv, Asked, Walk, AtValue, InclusionIsSound,
              ExclusionIsSoundOffPath, CompleteProofIsAccepted
<1> QED BY <1>2, <1>3, <1>4, <1>5, <1>6, <1>7 DEF Next

(* The walk is always at the node of the trie that the path leads to, or   *)
(* beyond the leaf of the key, at the value that the trie holds for it.    *)
THEOREM WalkInvariant == Spec => []Inv
<1>1. Init => Inv
  BY InitInv
<1>2. Inv /\ [Next]_vars => Inv'
  BY NextInv
<1> QED BY <1>1, <1>2, PTL DEF Spec

(* The state of the walk has its type: while it is at nodes of the trie,   *)
(* what is left of the paths below a node is as long as what is left of    *)
(* the key's, so get_nibble does not read beyond the end of the path.      *)
(* Beyond a leaf whose value is a node's hash it may (BeyondLeaf).         *)
THEOREM TypeCorrect == Spec => []TypeOK
<1>1. ASSUME Inv
      PROVE  TypeOK
  <2>1. /\ root \subseteq Path \X Value
        /\ path \in Path /\ value \in Value \cup {EmptyValue}
        /\ path_offset \in 0 .. PathLength
        /\ result \in {"open", "valid", "invalid", "panic"}
        /\ complete \in BOOLEAN /\ through \in BOOLEAN
    BY <1>1, ProofAssumption DEF Inv, Asked
  <2>2. ASSUME result = "open", expected_hash \notin Value \cup {{}}, NEW x \in expected_hash
        PROVE  Len(x[1]) = PathLength - path_offset
    <3> DEFINE L == PathLength - path_offset
    <3>1. L \in Nat /\ x[1] \in [1 .. L -> Nibble]
      BY <1>1, <2>2, NodeFacts
    <3> HIDE DEF L
    <3>2. Len(x[1]) = L
      BY <3>1
    <3> QED BY <3>2 DEF L
  <2> QED BY <2>1, <2>2 DEF TypeOK
<1>2. Inv => TypeOK
  BY <1>1
<1> QED BY <1>2, WalkInvariant, PTL

(* Whatever nodes the provider gives, a value that verify_proof accepts    *)
(* for a key is the one that the trie of the root holds for it, or the key *)
(* holds the hash of a node that the provider has, which proof.rs:49-58    *)
(* follows.                                                                *)
THEOREM InclusionSound == Spec => []InclusionIsSound
<1>1. Inv => InclusionIsSound
  BY DEF Inv
<1> QED BY <1>1, WalkInvariant, PTL

(* An empty value is accepted only for a key that is not in the trie, if   *)
(* the last node is not an extension on the path, or for one that holds    *)
(* the hash of a node that the provider has.                               *)
THEOREM ExclusionSound == Spec => []ExclusionIsSoundOffPath
<1>1. Inv => ExclusionIsSoundOffPath
  BY DEF Inv
<1> QED BY <1>1, WalkInvariant, PTL

(* The complete proof of what the trie holds is never rejected, and the    *)
(* check of any proof panics only at a node that holds a node of under 32  *)
(* bytes or, of a dishonest provider's, beyond a leaf.                     *)
THEOREM ProofsAccepted == Spec => []CompleteProofIsAccepted
<1>1. Inv => CompleteProofIsAccepted
  BY DEF Inv
<1> QED BY <1>1, WalkInvariant, PTL
=============================================================================
