--------------------------- MODULE PositionDetect ---------------------------
(***************************************************************************)
(* The step circuit of the multi-bit detector, each_position_detect of     *)
(* v1/poseidon/detect_recursive.circom, folded over and over: its running  *)
(* vector z holds a commitment to every count, a digest of the ngrams and  *)
(* a digest of the tokens folded so far.  Each fold gives the circuit any  *)
(* private input that satisfies its constraints.                           *)
(*                                                                         *)
(* What is abstracted.  The commitments are terms, without collisions;     *)
(* HashOf gives the hash that is compared.  The siblings of an inclusion   *)
(* proof are nodes of the trees: with others no root of theirs comes out.  *)
(***************************************************************************)
EXTENDS StepCircuit, MerkleTree, FiniteSets

CONSTANTS
    SeqLen,         \* partial_seq_len
    Infor,          \* each_position_infor
    Levels,         \* nLevels
    Positions, Keys,
    Key,            \* the key the start input commits to
    Maps,           \* the maps whose trees' roots a prover may give as public_root
    HashOf          \* HashOf[<<key, ngram, j, token>>]: hasher2's output

Rows == 0..(SeqLen - 1)
Columns == 0..(Infor - 1)
CountCells == Rows \X Columns

ASSUME DetectAssumption ==
    /\ SeqLen \in Nat \ {0}
    /\ Infor \in Nat \ {0}
    /\ Levels \in Nat
    /\ Key \in Keys
    /\ HashOf \in [Keys \X NGrams \X Columns \X Tokens -> 0..(Prime - 1)]
    /\ \A map \in Maps : map \in Seq(Nat \X Nat) \ {<<>>}

VARIABLES
    z,          \* step_in of the next fold
    folded      \* private_inputs folded so far

vars == <<z, folded>>

---------------------------------------------------------------------------
\* Where z has the commitment of a count and the two digests.
CellIndex(c) == c[1] * Infor + c[2]
NGramsIndex == SeqLen * Infor
TokensIndex == SeqLen * Infor + 1

\* Mutant: the commitment does not take the key.
CommitUnkeyed(k, n) == <<"poseidon", Key, n>>

Commit(k, n) == <<"poseidon", k, n>>

Roots == {Root(map) : map \in Maps}
Nodes == UNION {NodesOf(map) : map \in Maps}
Proofs == [path : [0..(Levels - 1) -> {0, 1}], siblings : [0..(Levels - 1) -> Nodes]]

PrivateInputs ==
    [key : Keys, count : [CountCells -> Nat], position : [Rows -> Positions],
     ngrams : [Rows -> NGrams], tokens : [Rows -> Tokens],
     proof : [Rows -> Proofs], root : Roots]

\* Mutant: the leaf is that of the token and its position.
ShowsSwapped(root, position, token, proof) ==
    ProvenRoot(Leaf(token, position), proof, Levels) = root

\* The inclusion proof of a row leads from its leaf to the root.
Shows(root, position, token, proof) ==
    ProvenRoot(Leaf(position, token), proof, Levels) = root

\* The constraints: the committed counts are opened, and every token is a leaf
\* at the position it claims.
Satisfied(in) ==
    /\ \A c \in CountCells : z[CellIndex(c)] = Commit(in.key, in.count[c])
    /\ \A i \in Rows : Shows(in.root, in.position[i], in.tokens[i], in.proof[i])

\* Mutant: a count is raised by both of its hashers.
OutputCountTwice(in, c) == in.count[c] + 2

\* output_count: one more where the hash of the token is below the threshold.
OutputCount(in, c) ==
    in.count[c]
    + LessThan(HashOf[<<in.key, in.ngrams[c[1]], c[2], in.tokens[c[1]]>>], Threshold)

\* step_out.  The digests absorb what step_in has at each_position_infor and the index
\* after it, and are put at partial_seq_len * each_position_infor and after it.
StepOut(in) ==
    [i \in 0..TokensIndex |->
        IF i = NGramsIndex THEN Digest(in.key, z[Infor], in.ngrams)
        ELSE IF i = TokensIndex THEN Digest(in.key, z[Infor + 1], in.tokens)
        ELSE Commit(in.key, OutputCount(in, <<i \div Infor, i % Infor>>))]

Init ==
    /\ z = [i \in 0..TokensIndex |-> IF i < NGramsIndex THEN Commit(Key, 0) ELSE StartDigest]
    /\ folded = <<>>

Fold(in) ==
    /\ Satisfied(in)
    /\ z' = StepOut(in)
    /\ folded' = Append(folded, in)

\* The rows the inclusion proofs accept under the roots.
ShownRows ==
    {row \in {[root |-> root, position |-> position, token |-> token, proof |-> proof] :
                  root \in Roots, position \in Positions, token \in Tokens, proof \in Proofs} :
        Shows(row.root, row.position, row.token, row.proof)}

FoldAny ==
    /\ Len(folded) < MaxFolds
    /\ \E key \in Keys, root \in Roots, count \in [CountCells -> 0..MaxFolds] :
       \E rows \in [Rows -> {row \in ShownRows : row.root = root}], ngrams \in [Rows -> NGrams] :
           Fold([key |-> key, count |-> count, ngrams |-> ngrams, root |-> root,
                 position |-> [i \in Rows |-> rows[i].position],
                 tokens |-> [i \in Rows |-> rows[i].token],
                 proof |-> [i \in Rows |-> rows[i].proof]])

\* folding_num folds are made; the proof is verified.
Finished == Len(folded) = MaxFolds /\ UNCHANGED vars

Next == FoldAny \/ Finished

Spec == Init /\ [][Next]_vars

---------------------------------------------------------------------------
\* z has an entry for every count and digest; what was folded are private inputs.
TypeOK ==
    /\ DOMAIN z = 0..TokensIndex
    /\ \A c \in CountCells : \E k \in Keys, n \in 0..MaxFolds : z[CellIndex(c)] = Commit(k, n)
    /\ folded \in Seq(PrivateInputs)
    /\ Len(folded) <= MaxFolds

\* Every fold of a proof is made under the key of the start input: opening the counts
\* with another key does not satisfy the circuit.
OneKey == \A f \in 1..Len(folded) : folded[f].key = Key

\* With the widths the circuits use, LessThan answers 1 whatever it compares: every
\* count comes out as the number of folds.
CountsEveryToken ==
    \A c \in CountCells : z[CellIndex(c)] = Commit(Key, Len(folded))

\* The f-th private input counts for the cell c in the detector: its hash is below the
\* threshold.
Green(f, c) ==
    HashOf[<<folded[f].key, folded[f].ngrams[c[1]], c[2], folded[f].tokens[c[1]]>>] < Threshold

\* The committed counts are the numbers of green tokens folded.
CountsGreen ==
    \A c \in CountCells :
        z[CellIndex(c)] = Commit(Key, Cardinality({f \in 1..Len(folded) : Green(f, c)}))

\* The digests the verifier sees determine every block folded, in order.
DigestsBindHistory ==
    /\ DigestBinds(z[NGramsIndex], folded, LAMBDA in : in.ngrams)
    /\ DigestBinds(z[TokensIndex], folded, LAMBDA in : in.tokens)

\* What is folded under the root of a map are pairs of the map, or, where its leaves were
\* filled up, the pair of zeros that hashes to the filling.
FoldsArePairs ==
    \A f \in 1..Len(folded), i \in Rows :
        LET pair == <<folded[f].position[i], folded[f].tokens[i]>>
        IN  \E map \in Maps :
                /\ Root(map) = folded[f].root
                /\ \/ \E k \in 1..Len(map) : map[k] = pair
                   \/ Padded(map) /\ pair = <<0, 0>>

\* A prover who opens the counts can fold every pair of a map of the circuit's height with
\* the proof the tree gives, whatever was folded before.
HonestInput(map, k) ==
    [key |-> Key, count |-> [c \in CountCells |-> Len(folded)],
     position |-> [i \in Rows |-> map[k][1]], tokens |-> [i \in Rows |-> map[k][2]],
     proof |-> [i \in Rows |-> GetProof(map, map[k][1], map[k][2])], root |-> Root(map)]

PairsCanBeFolded ==
    \A map \in Maps :
        Height(map) = Levels => \A k \in 1..Len(map) : Satisfied(HonestInput(map, k))
=============================================================================
