----------------------------- MODULE MerkleTree -----------------------------
(***************************************************************************)
(* The Merkle tree of build_tree2.rs over the pairs of a map, the proofs   *)
(* it gives, and the template MerkleTreeInclusionProof that checks them.   *)
(* A map is the sequence of its <<key, value>> pairs, at least one, in the *)
(* order the program reads them.                                           *)
(*                                                                         *)
(* What is abstracted.  Numbers and their Poseidon hashes are terms, so    *)
(* that a hash is no number and there are no collisions; the tree builder  *)
(* and the circuit are taken to have the same Poseidon of two inputs.      *)
(***************************************************************************)
EXTENDS Integers, Sequences

Number(v) == <<v>>
Poseidon(left, right) == <<left, right>>

\* hash_numbers; empty_hash is that of two zeros.
Leaf(x, y) == Poseidon(Number(x), Number(y))
EmptyHash == Leaf(0, 0)

\* The leaves are filled up to the next power of two, 2 ^ Height(map).
Height(map) ==
    CHOOSE h \in 0..Len(map) : Len(map) <= 2 ^ h /\ \A g \in 0..(h - 1) : 2 ^ g < Len(map)

Padded(map) == Len(map) < 2 ^ Height(map)

Leaves(map) ==
    [i \in 0..(2 ^ Height(map) - 1) |->
        IF i < Len(map) THEN Leaf(map[i + 1][1], map[i + 1][2]) ELSE EmptyHash]

\* MerkleTree::new: every layer hashes the pairs of the one below.
Layers(map) ==
    LET Layer[d \in 0..Height(map)] ==
            IF d = 0 THEN Leaves(map)
            ELSE [i \in 0..(2 ^ (Height(map) - d) - 1) |->
                     Poseidon(Layer[d - 1][2 * i], Layer[d - 1][2 * i + 1])]
    IN  Layer

Root(map) == Layers(map)[Height(map)][0]

NodesOf(map) == UNION {{Layers(map)[d][i] : i \in DOMAIN Layers(map)[d]} : d \in 0..Height(map)}

\* The first leaf of the pair, among those of the map.
LeafIndex(map, x, y) ==
    CHOOSE i \in 0..(Len(map) - 1) :
        /\ Leaves(map)[i] = Leaf(x, y)
        /\ \A j \in 0..(i - 1) : Leaves(map)[j] # Leaf(x, y)

\* sibling_index.
Beside(i) == IF i % 2 = 1 THEN i - 1 ELSE i + 1

\* Mutant: a node on the right is marked 0.
ProofMirrored(map, x, y) ==
    LET At(d) == LeafIndex(map, x, y) \div 2 ^ d
    IN  [path |-> [d \in 0..(Height(map) - 1) |-> 1 - (At(d) % 2)],
         siblings |-> [d \in 0..(Height(map) - 1) |->
             Layers(map)[d][Beside(At(d))]]]

\* get_proof, of a pair that is in the map.
GetProof(map, x, y) ==
    LET At(d) == LeafIndex(map, x, y) \div 2 ^ d
    IN  [path |-> [d \in 0..(Height(map) - 1) |-> At(d) % 2],
         siblings |-> [d \in 0..(Height(map) - 1) |->
             Layers(map)[d][Beside(At(d))]]]

\* MerkleTreeInclusionProof(n): the root a leaf and its proof lead to.
ProvenRoot(leaf, proof, n) ==
    LET Hash[d \in 0..n] ==
            IF d = 0 THEN leaf
            ELSE IF proof.path[d - 1] = 0 THEN Poseidon(Hash[d - 1], proof.siblings[d - 1])
            ELSE Poseidon(proof.siblings[d - 1], Hash[d - 1])
    IN  Hash[n]
=============================================================================
