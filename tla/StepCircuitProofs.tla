------------------------- MODULE StepCircuitProofs -------------------------
(***************************************************************************)
(* Proofs about the step circuits for every number of tokens to a fold,    *)
(* every number of candidate messages or of g-values, every field and      *)
(* hash: type correctness, that a proof is made under one key and with one *)
(* seed, that LessThan as wide as the field counts every token, that the   *)
(* counts prepared before the first fold are those of every fold, and that *)
(* the digests determine what was folded, with one token to a fold of the  *)
(* multi-bit circuit.                                                      *)
(*                                                                         *)
(* The trees are proved about at any height: an inclusion proof that is    *)
(* accepted shows a pair of the map, and that of every pair is accepted.   *)
(*                                                                         *)
(* Peeled, Layers and ProvenRoot are recursive functions.  For each there  *)
(* is an operator, one step of its equation, a lemma by induction that a   *)
(* function satisfies it, and what follows for the one the model chooses.  *)
(***************************************************************************)
EXTENDS StepCircuits, FiniteSetTheorems, NaturalFacts, TLAPS

\* Shifting 1 by a natural number of bits gives a field element.
LEMMA ShiftOneType == ShiftOne(Width) \in 0..(Prime - 1)
  <1> DEFINE S == {b \in 0..Width : Prime <= 2 ^ b}
  <1>1. Width \in S /\ S \subseteq Nat
    BY WidthAssumption
  <1>2. PICK b \in S : \A c \in S : b <= c
    <2> HIDE DEF S
    <2> QED
      BY <1>1, LeastNatural
  <1>3. \A c \in 0..(b - 1) : c \in 0..Width /\ ~(b <= c)
    BY <1>2, WidthAssumption
  <1>4. \A c \in 0..(b - 1) : 2 ^ c < Prime
    BY <1>2, <1>3, WidthAssumption, FieldAssumption
  <1>5. FieldBits \in 0..Width
    BY <1>2, <1>4 DEF FieldBits
  <1>6. 2 ^ FieldBits \in Nat \ {0} /\ 2 ^ Width \in Nat
    BY <1>5, WidthAssumption, PowerExceeds
  <1>7. \A n, m \in Nat : m # 0 => n % m \in 0..(m - 1)
    OBVIOUS
  <1> DEFINE full == 2 ^ Width
             field == 2 ^ FieldBits
  <1>8. full \in Nat /\ field \in Nat \ {0}
    BY <1>6
  <1>9. full % field \in Nat
    <2> HIDE DEF full, field
    <2> QED
      BY <1>7, <1>8
  <1> QED
    BY <1>7, <1>9, FieldAssumption DEF ShiftOne

\* A comparator as wide as the field answers 1: its sum is reduced modulo the prime
\* before the bit above it is taken.
LEMMA LessThanAlways ==
    ASSUME NEW a \in Int, NEW b \in Int
    PROVE  LessThan(a, b) = 1
  <1> DEFINE v == (a + ShiftOne(Width) - b) % Prime
  <1>1. v \in 0..(Prime - 1)
    BY ShiftOneType, FieldAssumption
  <1>2. v \in Nat /\ v < 2 ^ Width /\ 2 ^ Width \in Nat
    BY <1>1, WidthAssumption, FieldAssumption, PowerExceeds
  <1>3. \A n, m \in Nat : n < m => n \div m = 0
    OBVIOUS
  <1> HIDE DEF v
  <1>4. v \div 2 ^ Width = 0
    BY <1>2, <1>3
  <1>5. Bit(v, Width) = 0
    BY <1>4 DEF Bit
  <1> QED
    BY <1>5 DEF LessThan, v

\* Where the counts are: before the digests, each at an index of its own.
LEMMA CellIndices ==
    ASSUME NEW c \in CountCells
    PROVE  /\ CellIndex(c) \in 0..TokensIndex
           /\ CellIndex(c) < NGramsIndex
           /\ <<CellIndex(c) \div Infor, CellIndex(c) % Infor>> = c
  <1>1. /\ c = <<c[1], c[2]>>
        /\ c[1] \in Nat /\ c[1] < SeqLen
        /\ c[2] \in 0..(Infor - 1)
    BY DetectAssumption DEF CountCells, Rows, Columns
  <1>2. \A a, b, n, l \in Nat : a < l /\ b < n => a * n + b < l * n
    <2> TAKE a, b, n, l \in Nat
    <2> SUFFICES ASSUME a < l, b < n PROVE a * n + b < l * n
      OBVIOUS
    <2>1. a * n + n <= l * n
      <3>1. (a + 1) * n <= l * n
        OBVIOUS
      <3> QED
        BY <3>1
    <2> QED
      BY <2>1
  <1>3. \A a \in Nat, n \in Nat \ {0} : \A b \in 0..(n - 1) :
           /\ a * n + b \in Nat
           /\ (a * n + b) \div n = a
           /\ (a * n + b) % n = b
    OBVIOUS
  <1>4. /\ CellIndex(c) \in Nat
        /\ CellIndex(c) \div Infor = c[1]
        /\ CellIndex(c) % Infor = c[2]
    BY <1>1, <1>3, DetectAssumption DEF CellIndex
  <1>5. CellIndex(c) < NGramsIndex
    BY <1>1, <1>2, DetectAssumption DEF CellIndex, NGramsIndex
  <1>6. NGramsIndex \in Int /\ TokensIndex = NGramsIndex + 1
    BY DetectAssumption DEF NGramsIndex, TokensIndex
  <1> QED
    BY <1>1, <1>4, <1>5, <1>6

---------------------------------------------------------------------------
\* The inductive invariant: all counts are committed under the start key and are the
\* number of folds, which the key of the next fold and its counts must open.
Inv == TypeOK /\ OneKey /\ CountsEveryToken

LEMMA InitInv == Init => Inv
  <1> SUFFICES ASSUME Init PROVE Inv
    OBVIOUS
  <1>1. folded = <<>> /\ Len(folded) = 0 /\ folded \in Seq(PrivateInputs)
    BY DEF Init
  <1>2. DOMAIN z = 0..TokensIndex
    BY DEF Init
  <1>3. \A c \in CountCells : z[CellIndex(c)] = Commit(Key, 0)
    BY CellIndices DEF Init
  <1>4. Key \in Keys /\ 0 \in 0..MaxFolds
    BY DetectAssumption, FieldAssumption
  <1>5. TypeOK
    BY <1>1, <1>2, <1>3, <1>4, FieldAssumption DEF TypeOK
  <1>6. OneKey
    BY <1>1 DEF OneKey
  <1>7. CountsEveryToken
    BY <1>1, <1>3 DEF CountsEveryToken
  <1> QED
    BY <1>5, <1>6, <1>7 DEF Inv

\* A private input that satisfies the circuit opens the counts.
LEMMA Opened ==
    ASSUME Inv, NEW in, Satisfied(in)
    PROVE  in.key = Key /\ \A c \in CountCells : in.count[c] = Len(folded)
  <1>1. ASSUME NEW c \in CountCells
        PROVE  in.key = Key /\ in.count[c] = Len(folded)
    BY <1>1 DEF Inv, CountsEveryToken, Satisfied, Commit
  <1>2. <<0, 0>> \in CountCells
    BY DetectAssumption DEF CountCells, Rows, Columns
  <1> QED
    BY <1>1, <1>2

\* A fold raises every count by one.
LEMMA FoldCounts ==
    ASSUME Inv, NEW in \in PrivateInputs, Fold(in), NEW c \in CountCells
    PROVE  z'[CellIndex(c)] = Commit(Key, Len(folded) + 1)
  <1>1. in.key = Key /\ in.count[c] = Len(folded)
    BY Opened DEF Fold
  <1>2. HashOf[<<in.key, in.ngrams[c[1]], c[2], in.tokens[c[1]]>>] \in Int
    <2>1. c[1] \in Rows /\ c[2] \in Columns
      BY DEF CountCells
    <2>2. <<in.key, in.ngrams[c[1]], c[2], in.tokens[c[1]]>> \in Keys \X NGrams \X Columns \X Tokens
      BY <2>1 DEF PrivateInputs
    <2> QED
      BY <2>2, DetectAssumption
  <1>3. Threshold \in Int
    BY FieldAssumption DEF Threshold
  <1>4. OutputCount(in, c) = Len(folded) + 1
    BY <1>1, <1>2, <1>3, LessThanAlways DEF OutputCount
  <1>5. /\ CellIndex(c) \in 0..TokensIndex
        /\ CellIndex(c) # NGramsIndex /\ CellIndex(c) # TokensIndex
        /\ <<CellIndex(c) \div Infor, CellIndex(c) % Infor>> = c
    BY CellIndices, DetectAssumption DEF TokensIndex, NGramsIndex
  <1>6. z'[CellIndex(c)] = Commit(in.key, OutputCount(in, c))
    BY <1>5 DEF Fold, StepOut
  <1> QED
    BY <1>1, <1>4, <1>6

LEMMA FoldInv ==
    ASSUME Inv, NEW in \in PrivateInputs, Len(folded) < MaxFolds, Fold(in)
    PROVE  Inv'
  <1>1. /\ folded \in Seq(PrivateInputs)
        /\ folded' = Append(folded, in)
    BY DEF Inv, TypeOK, Fold
  <1>2. /\ folded' \in Seq(PrivateInputs)
        /\ Len(folded') = Len(folded) + 1
        /\ Len(folded') \in 0..MaxFolds
    BY <1>1, FieldAssumption
  <1>3. \A c \in CountCells : z'[CellIndex(c)] = Commit(Key, Len(folded'))
    BY <1>2, FoldCounts
  <1>4. DOMAIN z' = 0..TokensIndex
    BY DEF Fold, StepOut
  <1>5. TypeOK'
    <2>1. \A c \in CountCells : \E k \in Keys, n \in 0..MaxFolds : z'[CellIndex(c)] = Commit(k, n)
      BY <1>2, <1>3, DetectAssumption
    <2>2. Len(folded') <= MaxFolds
      BY <1>2, FieldAssumption
    <2> QED
      BY <1>2, <1>4, <2>1, <2>2 DEF TypeOK
  <1>6. OneKey'
    <2>1. in.key = Key
      BY Opened DEF Fold
    <2> QED
      BY <1>1, <2>1 DEF Inv, OneKey
  <1>7. CountsEveryToken'
    BY <1>3 DEF CountsEveryToken
  <1> QED
    BY <1>5, <1>6, <1>7 DEF Inv

\* Whatever the prover chooses is a private input.
LEMMA FoldAnyFolds ==
    ASSUME FoldAny
    PROVE  Len(folded) < MaxFolds /\ \E in \in PrivateInputs : Fold(in)
  <1>1. PICK key \in Keys, root \in Roots, count \in [CountCells -> 0..MaxFolds] :
          \E rows \in [Rows -> {row \in ShownRows : row.root = root}], ngrams \in [Rows -> NGrams] :
            Fold([key |-> key, count |-> count, ngrams |-> ngrams, root |-> root,
                  position |-> [i \in Rows |-> rows[i].position],
                  tokens |-> [i \in Rows |-> rows[i].token],
                  proof |-> [i \in Rows |-> rows[i].proof]])
    BY DEF FoldAny
  <1>2. PICK rows \in [Rows -> {row \in ShownRows : row.root = root}], ngrams \in [Rows -> NGrams] :
          Fold([key |-> key, count |-> count, ngrams |-> ngrams, root |-> root,
                position |-> [i \in Rows |-> rows[i].position],
                tokens |-> [i \in Rows |-> rows[i].token],
                proof |-> [i \in Rows |-> rows[i].proof]])
    BY <1>1
  <1>3. \A i \in Rows : /\ rows[i].position \in Positions
                        /\ rows[i].token \in Tokens
                        /\ rows[i].proof \in Proofs
    BY DEF ShownRows
  <1>4. count \in [CountCells -> Nat]
    BY FieldAssumption
  <1>5. [key |-> key, count |-> count, ngrams |-> ngrams, root |-> root,
         position |-> [i \in Rows |-> rows[i].position],
         tokens |-> [i \in Rows |-> rows[i].token],
         proof |-> [i \in Rows |-> rows[i].proof]] \in PrivateInputs
    BY <1>3, <1>4 DEF PrivateInputs
  <1> QED
    BY <1>2, <1>5 DEF FoldAny

LEMMA NextInv == Inv /\ [Next]_vars => Inv'
  <1> SUFFICES ASSUME Inv, [Next]_vars PROVE Inv'
    OBVIOUS
  <1>1. CASE FoldAny
    BY <1>1, FoldAnyFolds, FoldInv
  <1>2. CASE UNCHANGED vars
    BY <1>2 DEF Inv, TypeOK, OneKey, CountsEveryToken, vars
  <1>3. CASE Finished
    BY <1>2, <1>3 DEF Finished
  <1> QED
    BY <1>1, <1>2, <1>3 DEF Next

LEMMA InvAlways == Spec => []Inv
  BY InitInv, NextInv, PTL DEF Spec

\* The running vector keeps its entries: a commitment for every count, two digests; what
\* is folded are private inputs of the circuit.
THEOREM TypeCorrect == Spec => []TypeOK
  BY InvAlways, PTL DEF Inv

\* No fold of a proof is made under another key than that of the start input, whatever
\* the prover supplies.
THEOREM ProofsAreUnderOneKey == Spec => []OneKey
  BY InvAlways, PTL DEF Inv

\* Whatever the hash, the tokens and the field, if LessThan is at least as wide as the
\* field, each committed count is the number of folds: no token is ever not counted.
THEOREM EveryTokenCounts == Spec => []CountsEveryToken
  BY InvAlways, PTL DEF Inv

---------------------------------------------------------------------------
\* The single-bit circuit: the count is committed with the seed of the start input, and
\* is what a fold's g-values add up to, fold after fold.
CountIsFolds == step[0] = CommitCount(Seed, Len(blocks) * TokensPerFold * Depth)

SingleInv == SingleTypeOK /\ OneSeed /\ CountIsFolds

\* What LessThan makes of the hashes of a fold: as many g-values as there can be.
LEMMA AllGValues ==
    ASSUME NEW in, in.key \in [Depths -> WmKeys],
           in.ngrams \in [Places -> NGrams], in.tokens \in [Places -> Tokens]
    PROVE  Cardinality(GValues(in)) = TokensPerFold * Depth
  <1>1. GValues(in) = Places \X Depths
    <2>1. ASSUME NEW g \in Places \X Depths
          PROVE  LessThan(GHash[<<in.ngrams[g[1]], in.tokens[g[1]], in.key[g[2]]>>], Threshold) = 1
      <3>1. <<in.ngrams[g[1]], in.tokens[g[1]], in.key[g[2]]>> \in NGrams \X Tokens \X WmKeys
        OBVIOUS
      <3>2. GHash[<<in.ngrams[g[1]], in.tokens[g[1]], in.key[g[2]]>>] \in Int
        BY <3>1, SingleBitAssumption
      <3>3. Threshold \in Int
        BY FieldAssumption DEF Threshold
      <3> QED
        BY <3>2, <3>3, LessThanAlways
    <2> QED
      BY <2>1 DEF GValues
  <1>2. IsFiniteSet(Places) /\ Cardinality(Places) = TokensPerFold
    BY FS_Interval, SingleBitAssumption DEF Places
  <1>3. IsFiniteSet(Depths) /\ Cardinality(Depths) = Depth
    BY FS_Interval, SingleBitAssumption DEF Depths
  <1> QED
    BY <1>1, <1>2, <1>3, FS_Product

\* Counting the folds made and one more.
LEMMA OneFoldMore ==
    ASSUME NEW n \in Nat
    PROVE  /\ n * TokensPerFold * Depth \in Nat
           /\ (n + 1) * TokensPerFold * Depth = n * TokensPerFold * Depth + TokensPerFold * Depth
           /\ TokensPerFold * Depth \in Nat
  <1>1. \A a, b \in Nat : a * b \in Nat
    OBVIOUS
  <1>2. \A a, b, c \in Nat : (a + 1) * b * c = a * b * c + b * c
    <2>1. \A a, b \in Nat : (a + 1) * b = a * b + b
      OBVIOUS
    <2>2. \A a, b, c \in Nat : (a + b) * c = a * c + b * c
      OBVIOUS
    <2> QED
      BY <1>1, <2>1, <2>2
  <1> QED
    BY <1>1, <1>2, SingleBitAssumption

LEMMA SingleInitInv == SingleInit => SingleInv
  <1> SUFFICES ASSUME SingleInit PROVE SingleInv
    OBVIOUS
  <1>1. blocks = <<>> /\ Len(blocks) = 0 /\ blocks \in Seq(SingleInputs)
    BY DEF SingleInit
  <1>2. DOMAIN step = 0..2 /\ step[0] = CommitCount(Seed, 0)
    BY DEF SingleInit
  <1>3. SingleTypeOK
    BY <1>1, <1>2, SingleBitAssumption, FieldAssumption DEF SingleTypeOK
  <1>4. OneSeed
    BY <1>1 DEF OneSeed
  <1>5. 0 * TokensPerFold * Depth = 0
    BY SingleBitAssumption
  <1> QED
    BY <1>1, <1>2, <1>3, <1>4, <1>5 DEF SingleInv, CountIsFolds

LEMMA SingleFoldInv ==
    ASSUME SingleInv, NEW in \in SingleInputs, Len(blocks) < MaxFolds, SingleFold(in)
    PROVE  SingleInv'
  <1>1. /\ blocks \in Seq(SingleInputs)
        /\ blocks' = Append(blocks, in)
        /\ Len(blocks) \in Nat
    BY DEF SingleInv, SingleTypeOK, SingleFold
  <1>2. /\ blocks' \in Seq(SingleInputs)
        /\ Len(blocks') = Len(blocks) + 1
        /\ Len(blocks') <= MaxFolds
    BY <1>1, FieldAssumption
  <1>3. in.seed = Seed /\ in.count = Len(blocks) * TokensPerFold * Depth
    BY DEF SingleInv, CountIsFolds, SingleFold, SingleSatisfied, CommitCount
  <1>4. in.output = Len(blocks') * TokensPerFold * Depth
    <2>1. in.output = in.count + TokensPerFold * Depth
      BY AllGValues DEF SingleFold, SingleSatisfied, SingleInputs
    <2> QED
      BY <1>1, <1>2, <1>3, <2>1, OneFoldMore
  <1>5. DOMAIN step' = 0..2 /\ step'[0] = CommitCount(Seed, in.output)
    BY <1>3 DEF SingleFold, SingleStepOut
  <1>6. SingleTypeOK'
    <2>1. in.output \in Nat
      BY DEF SingleInputs
    <2> QED
      BY <1>2, <1>5, <2>1, SingleBitAssumption DEF SingleTypeOK
  <1>7. OneSeed'
    <2> SUFFICES ASSUME NEW f \in 1..Len(blocks') PROVE blocks'[f].seed = Seed
      BY DEF OneSeed
    <2>1. CASE f = Len(blocks) + 1
      BY <1>1, <1>3, <2>1
    <2>2. CASE f # Len(blocks) + 1
      BY <1>1, <1>2, <2>2 DEF SingleInv, OneSeed
    <2> QED
      BY <2>1, <2>2
  <1>8. CountIsFolds'
    BY <1>4, <1>5 DEF CountIsFolds
  <1> QED
    BY <1>6, <1>7, <1>8 DEF SingleInv

\* Whatever the prover chooses is a private input.
LEMMA SingleFoldAnyFolds ==
    ASSUME SingleFoldAny
    PROVE  Len(blocks) < MaxFolds /\ \E in \in SingleInputs : SingleFold(in)
  <1>1. PICK seed \in Seeds, count \in Counts, more \in 0..(TokensPerFold * Depth),
             key \in [Depths -> WmKeys], ngrams \in [Places -> NGrams],
             tokens \in [Places -> Tokens] :
          SingleFold([seed |-> seed, count |-> count, output |-> count + more, key |-> key,
                      ngrams |-> ngrams, tokens |-> tokens])
    BY DEF SingleFoldAny
  <1>2. count \in Nat /\ count + more \in Nat
    <2>1. MaxFolds * TokensPerFold * Depth \in Nat /\ TokensPerFold * Depth \in Nat
      BY FieldAssumption, OneFoldMore
    <2> QED
      BY <2>1 DEF Counts
  <1>3. [seed |-> seed, count |-> count, output |-> count + more, key |-> key,
         ngrams |-> ngrams, tokens |-> tokens] \in SingleInputs
    BY <1>2 DEF SingleInputs
  <1> QED
    BY <1>1, <1>3 DEF SingleFoldAny

LEMMA SingleNextInv == SingleInv /\ [SingleNext]_singleVars => SingleInv'
  <1> SUFFICES ASSUME SingleInv, [SingleNext]_singleVars PROVE SingleInv'
    OBVIOUS
  <1>1. CASE SingleFoldAny
    BY <1>1, SingleFoldAnyFolds, SingleFoldInv
  <1>2. CASE UNCHANGED singleVars
    BY <1>2 DEF SingleInv, SingleTypeOK, OneSeed, CountIsFolds, singleVars
  <1>3. CASE SingleFinished
    BY <1>2, <1>3 DEF SingleFinished
  <1> QED
    BY <1>1, <1>2, <1>3 DEF SingleNext

LEMMA SingleInvAlways == SingleSpec => []SingleInv
  BY SingleInitInv, SingleNextInv, PTL DEF SingleSpec

\* No fold of a proof is made with another random_seed than that of the start input.
THEOREM ProofsAreOfOneSeed == SingleSpec => []OneSeed
  BY SingleInvAlways, PTL DEF SingleInv

LEMMA PreparedFits == SingleInv => PreparedInputsFit
  <1> SUFFICES ASSUME SingleInv, NEW key \in [Depths -> WmKeys],
                      NEW ngrams \in [Places -> NGrams], NEW tokens \in [Places -> Tokens]
               PROVE  SingleSatisfied(Prepared(key, ngrams, tokens))
    BY DEF PreparedInputsFit
  <1> DEFINE in == Prepared(key, ngrams, tokens)
  <1>1. /\ in.key = key /\ in.ngrams = ngrams /\ in.tokens = tokens
        /\ in.seed = Seed
        /\ in.count = Len(blocks) * TokensPerFold * Depth
        /\ in.output = (Len(blocks) + 1) * TokensPerFold * Depth
    BY DEF Prepared
  <1>2. Len(blocks) \in Nat
    BY DEF SingleInv, SingleTypeOK
  <1> HIDE DEF in
  <1>3. in.output = in.count + Cardinality(GValues(in))
    BY <1>1, <1>2, AllGValues, OneFoldMore
  <1>4. step[0] = CommitCount(in.seed, in.count)
    BY <1>1 DEF SingleInv, CountIsFolds
  <1>5. SingleSatisfied(in)
    BY <1>3, <1>4 DEF SingleSatisfied
  <1> QED
    BY <1>5 DEF in

\* The inputs run_test prepares for all folds beforehand satisfy the circuit at every
\* fold, whatever the tokens, the keys and the hash are.
THEOREM PreparationHolds == SingleSpec => []PreparedInputsFit
  BY SingleInvAlways, PreparedFits, PTL

---------------------------------------------------------------------------
\* What peeling one block off a digest leaves, and the function that peels k of them.
PeelOne(e) == IF Len(e) = 4 THEN e[3] ELSE e
Peeling(d, P, n) == [k \in 0..n |-> IF k = 0 THEN d ELSE PeelOne(P[k - 1])]

\* Peeled is defined for every number of blocks ...
LEMMA PeelingExists ==
    ASSUME NEW d
    PROVE  \A n \in Nat : \E P : P = Peeling(d, P, n)
  <1> DEFINE S == {n \in Nat : \E P : P = Peeling(d, P, n)}
  <1>1. 0 \in S
    <2> DEFINE P == [k \in 0..0 |-> d]
    <2>1. P = Peeling(d, P, 0)
      BY DEF Peeling
    <2> QED
      BY <2>1
  <1>2. ASSUME NEW n \in Nat, n \in S PROVE n + 1 \in S
    <2>1. PICK P : P = Peeling(d, P, n)
      BY <1>2
    <2> DEFINE Q == [k \in 0..(n + 1) |-> IF k = n + 1 THEN PeelOne(P[n]) ELSE P[k]]
               R == Peeling(d, Q, n + 1)
    <2>2. \A k \in 0..(n + 1) : R[k] = IF k = 0 THEN d ELSE PeelOne(Q[k - 1])
      BY DEF Peeling
    <2>3. \A k \in 0..n : P[k] = IF k = 0 THEN d ELSE PeelOne(P[k - 1])
      BY <2>1 DEF Peeling
    <2>4. \A k \in 0..(n + 1) : Q[k] = IF k = n + 1 THEN PeelOne(P[n]) ELSE P[k]
      OBVIOUS
    <2>5. R = [k \in 0..(n + 1) |-> R[k]]
      BY DEF Peeling
    <2> HIDE DEF Q, R
    <2>6. ASSUME NEW k \in 0..(n + 1) PROVE R[k] = Q[k]
      <3>1. CASE k = 0
        BY <2>2, <2>3, <2>4, <3>1
      <3>2. CASE k \in 1..n
        <4>1. k - 1 \in 0..(n + 1) /\ k - 1 # n + 1 /\ k \in 0..n /\ k # 0 /\ k # n + 1
          BY <3>2
        <4> QED
          BY <2>2, <2>3, <2>4, <4>1
      <3>3. CASE k = n + 1
        <4>1. k - 1 = n /\ n \in 0..(n + 1) /\ n # n + 1 /\ k # 0
          BY <3>3
        <4> QED
          BY <2>2, <2>4, <3>3, <4>1
      <3> QED
        BY <3>1, <3>2, <3>3
    <2>7. Q = R
      BY <2>5, <2>6 DEF Q
    <2> QED
      BY <2>7 DEF R
  <1> HIDE DEF S
  <1>3. \A n \in Nat : n \in S
    BY <1>1, <1>2, Induction
  <1> QED
    BY <1>3 DEF S

\* ... so that one more is peeled off what the ones before have left.
LEMMA PeeledStep ==
    ASSUME NEW d
    PROVE  /\ Peeled(d, 0) = d
           /\ \A n \in Nat : Peeled(d, n + 1) = PeelOne(Peeled(d, n))
  <1> DEFINE F(n) == CHOOSE P : P = Peeling(d, P, n)
  <1>1. \A n \in Nat : F(n) = Peeling(d, F(n), n)
    BY PeelingExists
  <1>2. \A n \in Nat : Peeled(d, n) = F(n)[n]
    BY DEF Peeled, Peeling, PeelOne
  <1> HIDE DEF F
  <1>3. \A n \in Nat : \A k \in 0..n : F(n)[k] = IF k = 0 THEN d ELSE PeelOne(F(n)[k - 1])
    BY <1>1 DEF Peeling
  <1>4. ASSUME NEW n \in Nat PROVE F(n + 1)[n] = F(n)[n]
    <2> DEFINE S == {k \in Nat : k <= n => F(n + 1)[k] = F(n)[k]}
    <2>1. 0 \in S
      BY <1>3
    <2>2. ASSUME NEW k \in Nat, k \in S PROVE k + 1 \in S
      <3>1. CASE k + 1 <= n
        <4>1. /\ k + 1 \in 0..n /\ k + 1 \in 0..(n + 1)
              /\ k + 1 # 0 /\ (k + 1) - 1 = k /\ k <= n
          BY <3>1
        <4>2. F(n + 1)[k] = F(n)[k]
          BY <2>2, <4>1
        <4>3. F(n + 1)[k + 1] = PeelOne(F(n + 1)[k]) /\ F(n)[k + 1] = PeelOne(F(n)[k])
          BY <1>3, <4>1
        <4> QED
          BY <4>2, <4>3
      <3>2. CASE ~(k + 1 <= n)
        BY <3>2
      <3> QED
        BY <3>1, <3>2
    <2> HIDE DEF S
    <2>3. n \in S
      BY <2>1, <2>2, Induction
    <2> QED
      BY <2>3 DEF S
  <1>5. Peeled(d, 0) = d
    BY <1>2, <1>3
  <1>6. ASSUME NEW n \in Nat PROVE Peeled(d, n + 1) = PeelOne(Peeled(d, n))
    <2>1. F(n + 1)[n + 1] = PeelOne(F(n + 1)[n])
      BY <1>3
    <2> QED
      BY <1>2, <1>4, <2>1
  <1> QED
    BY <1>5, <1>6

\* Peeling a digest leaves the one it was made of, and then what that one leaves.
LEMMA PeeledDigest ==
    ASSUME NEW k, NEW d, NEW b
    PROVE  \A n \in Nat : Peeled(Digest(k, d, b), n + 1) = Peeled(d, n)
  <1> DEFINE e == Digest(k, d, b)
             S == {n \in Nat : Peeled(e, n + 1) = Peeled(d, n)}
  <1>1. 0 \in S
    <2>1. PeelOne(e) = d
      BY DEF PeelOne, Digest
    <2>2. Peeled(e, 0 + 1) = PeelOne(Peeled(e, 0)) /\ Peeled(e, 0) = e
      BY PeeledStep
    <2>3. Peeled(d, 0) = d
      BY PeeledStep
    <2> QED
      BY <2>1, <2>2, <2>3
  <1>2. ASSUME NEW n \in Nat, n \in S PROVE n + 1 \in S
    <2>1. Peeled(e, (n + 1) + 1) = PeelOne(Peeled(e, n + 1))
      BY PeeledStep
    <2>2. Peeled(d, n + 1) = PeelOne(Peeled(d, n))
      BY PeeledStep
    <2> QED
      BY <1>2, <2>1, <2>2
  <1> HIDE DEF S
  <1>3. \A n \in Nat : n \in S
    BY <1>1, <1>2, Induction
  <1> QED
    BY <1>3 DEF S

\* What DigestBinds says of a digest and the blocks B[1] to B[n].
Bound(d, n, B) ==
    /\ Peeled(d, n) = StartDigest
    /\ \A k \in 1..n : Len(Peeled(d, n - k)) = 4 /\ Peeled(d, n - k)[4] = B[k]

LEMMA StartBinds == \A B : Bound(StartDigest, 0, B)
  BY PeeledStep DEF Bound

\* A digest that binds its blocks binds the next one too.
LEMMA DigestBindsNext ==
    ASSUME NEW d, NEW n \in Nat, NEW B, Bound(d, n, B), NEW k, NEW C,
           \A i \in 1..n : C[i] = B[i]
    PROVE  Bound(Digest(k, d, C[n + 1]), n + 1, C)
  <1> DEFINE e == Digest(k, d, C[n + 1])
  <1>1. \A m \in Nat : Peeled(e, m + 1) = Peeled(d, m)
    BY PeeledDigest
  <1>2. Peeled(e, 0) = e
    BY PeeledStep
  <1>3. Len(e) = 4 /\ e[4] = C[n + 1]
    BY DEF Digest
  <1> HIDE DEF e
  <1>4. Peeled(e, n + 1) = StartDigest
    BY <1>1 DEF Bound
  <1>5. ASSUME NEW i \in 1..(n + 1)
        PROVE  Len(Peeled(e, (n + 1) - i)) = 4 /\ Peeled(e, (n + 1) - i)[4] = C[i]
    <2>1. CASE i = n + 1
      <3>1. (n + 1) - i = 0
        BY <2>1
      <3> QED
        BY <1>2, <1>3, <2>1, <3>1
    <2>2. CASE i # n + 1
      <3>1. i \in 1..n /\ n - i \in Nat /\ (n + 1) - i = (n - i) + 1
        BY <2>2
      <3>2. Peeled(e, (n + 1) - i) = Peeled(d, n - i)
        BY <1>1, <3>1
      <3>3. Len(Peeled(d, n - i)) = 4 /\ Peeled(d, n - i)[4] = B[i]
        BY <3>1 DEF Bound
      <3> QED
        BY <3>1, <3>2, <3>3
    <2> QED
      BY <2>1, <2>2
  <1>6. Bound(e, n + 1, C)
    BY <1>4, <1>5 DEF Bound
  <1> QED
    BY <1>6 DEF e

\* The blocks of the folds made, for either circuit.
NGramBlocks(inputs) == [f \in 1..Len(inputs) |-> inputs[f].ngrams]
TokenBlocks(inputs) == [f \in 1..Len(inputs) |-> inputs[f].tokens]

LEMMA BlocksAppend ==
    ASSUME NEW S, NEW inputs \in Seq(S), NEW in \in S
    PROVE  /\ Len(inputs) \in Nat
           /\ Len(Append(inputs, in)) = Len(inputs) + 1
           /\ NGramBlocks(Append(inputs, in))[Len(inputs) + 1] = in.ngrams
           /\ TokenBlocks(Append(inputs, in))[Len(inputs) + 1] = in.tokens
           /\ \A f \in 1..Len(inputs) :
                 /\ NGramBlocks(Append(inputs, in))[f] = NGramBlocks(inputs)[f]
                 /\ TokenBlocks(Append(inputs, in))[f] = TokenBlocks(inputs)[f]
  BY DEF NGramBlocks, TokenBlocks

\* With one token to a fold, the digests are read where the fold before has put them.
MultiBound ==
    /\ Bound(z[NGramsIndex], Len(folded), NGramBlocks(folded))
    /\ Bound(z[TokensIndex], Len(folded), TokenBlocks(folded))

LEMMA InitBound == Init => MultiBound
  <1> SUFFICES ASSUME Init PROVE MultiBound
    OBVIOUS
  <1>1. NGramsIndex \in 0..TokensIndex /\ TokensIndex \in 0..TokensIndex
        /\ ~(NGramsIndex < NGramsIndex) /\ ~(TokensIndex < NGramsIndex)
    <2>1. \A a, b \in Nat : a * b \in Nat
      OBVIOUS
    <2>2. NGramsIndex \in Nat /\ TokensIndex = NGramsIndex + 1
      BY <2>1, DetectAssumption DEF NGramsIndex, TokensIndex
    <2> QED
      BY <2>2
  <1>2. z[NGramsIndex] = StartDigest /\ z[TokensIndex] = StartDigest
    BY <1>1 DEF Init
  <1>3. Len(folded) = 0
    BY DEF Init
  <1> QED
    BY <1>2, <1>3, StartBinds DEF MultiBound

LEMMA FoldBound ==
    ASSUME SeqLen = 1, Inv, MultiBound, NEW in \in PrivateInputs, Fold(in)
    PROVE  MultiBound'
  <1>1. NGramsIndex = Infor /\ TokensIndex = Infor + 1 /\ Infor \in Nat
    BY DetectAssumption DEF NGramsIndex, TokensIndex
  <1>2. /\ z'[NGramsIndex] = Digest(in.key, z[NGramsIndex], in.ngrams)
        /\ z'[TokensIndex] = Digest(in.key, z[TokensIndex], in.tokens)
    BY <1>1 DEF Fold, StepOut
  <1>3. folded \in Seq(PrivateInputs) /\ folded' = Append(folded, in)
    BY DEF Inv, TypeOK, Fold
  <1> DEFINE n == Len(folded)
             B == NGramBlocks(folded)
             C == NGramBlocks(folded')
             D == TokenBlocks(folded)
             E == TokenBlocks(folded')
  <1>4. /\ n \in Nat /\ Len(folded') = n + 1
        /\ C[n + 1] = in.ngrams /\ E[n + 1] = in.tokens
        /\ \A f \in 1..n : C[f] = B[f] /\ E[f] = D[f]
    BY <1>3, BlocksAppend
  <1>5. Bound(z[NGramsIndex], n, B) /\ Bound(z[TokensIndex], n, D)
    BY DEF MultiBound
  <1> HIDE DEF n, B, C, D, E
  <1>6. Bound(Digest(in.key, z[NGramsIndex], C[n + 1]), n + 1, C)
    BY <1>4, <1>5, DigestBindsNext
  <1>7. Bound(Digest(in.key, z[TokensIndex], E[n + 1]), n + 1, E)
    BY <1>4, <1>5, DigestBindsNext
  <1>8. Bound(z'[NGramsIndex], Len(folded'), C) /\ Bound(z'[TokensIndex], Len(folded'), E)
    BY <1>2, <1>4, <1>6, <1>7
  <1> QED
    BY <1>1, <1>8 DEF MultiBound, C, E

LEMMA NextBound ==
    ASSUME SeqLen = 1, Inv, MultiBound, [Next]_vars
    PROVE  MultiBound'
  <1>1. CASE FoldAny
    BY <1>1, FoldAnyFolds, FoldBound
  <1>2. CASE UNCHANGED vars
    BY <1>2 DEF MultiBound, vars
  <1>3. CASE Finished
    BY <1>2, <1>3 DEF Finished
  <1> QED
    BY <1>1, <1>2, <1>3 DEF Next

LEMMA BoundBinds == MultiBound => DigestsBindHistory
  BY DEF MultiBound, DigestsBindHistory, DigestBinds, Bound, NGramBlocks, TokenBlocks

\* With one token to a fold, the two digests a verifier sees determine every ngram and
\* every token folded, in order, for any number of folds and any hash.
THEOREM DigestsBindOneToken ==
    ASSUME SeqLen = 1
    PROVE  Spec => []DigestsBindHistory
  <1>1. Init => MultiBound
    BY InitBound
  <1>2. Inv /\ MultiBound /\ [Next]_vars => MultiBound'
    BY NextBound
  <1> QED
    BY <1>1, <1>2, BoundBinds, InvAlways, PTL DEF Spec

\* The single-bit circuit reads each digest where it is put, whatever a fold takes.
SingleBound ==
    /\ Bound(step[1], Len(blocks), NGramBlocks(blocks))
    /\ Bound(step[2], Len(blocks), TokenBlocks(blocks))

LEMMA SingleFoldBound ==
    ASSUME SingleInv, SingleBound, NEW in \in SingleInputs, SingleFold(in)
    PROVE  SingleBound'
  <1>1. /\ step'[1] = Digest(in.seed, step[1], in.ngrams)
        /\ step'[2] = Digest(in.seed, step[2], in.tokens)
    BY DEF SingleFold, SingleStepOut
  <1>2. blocks \in Seq(SingleInputs) /\ blocks' = Append(blocks, in)
    BY DEF SingleInv, SingleTypeOK, SingleFold
  <1> DEFINE n == Len(blocks)
             B == NGramBlocks(blocks)
             C == NGramBlocks(blocks')
             D == TokenBlocks(blocks)
             E == TokenBlocks(blocks')
  <1>3. /\ n \in Nat /\ Len(blocks') = n + 1
        /\ C[n + 1] = in.ngrams /\ E[n + 1] = in.tokens
        /\ \A f \in 1..n : C[f] = B[f] /\ E[f] = D[f]
    BY <1>2, BlocksAppend
  <1>4. Bound(step[1], n, B) /\ Bound(step[2], n, D)
    BY DEF SingleBound
  <1> HIDE DEF n, B, C, D, E
  <1>5. Bound(Digest(in.seed, step[1], C[n + 1]), n + 1, C)
    BY <1>3, <1>4, DigestBindsNext
  <1>6. Bound(Digest(in.seed, step[2], E[n + 1]), n + 1, E)
    BY <1>3, <1>4, DigestBindsNext
  <1>7. Bound(step'[1], Len(blocks'), C) /\ Bound(step'[2], Len(blocks'), E)
    BY <1>1, <1>3, <1>5, <1>6
  <1> QED
    BY <1>7 DEF SingleBound, C, E

LEMMA SingleInitBound == SingleInit => SingleBound
  <1> SUFFICES ASSUME SingleInit PROVE SingleBound
    OBVIOUS
  <1>1. step[1] = StartDigest /\ step[2] = StartDigest /\ Len(blocks) = 0
    BY DEF SingleInit
  <1> QED
    BY <1>1, StartBinds DEF SingleBound

LEMMA SingleNextBound ==
    ASSUME SingleInv, SingleBound, [SingleNext]_singleVars
    PROVE  SingleBound'
  <1>1. CASE SingleFoldAny
    BY <1>1, SingleFoldAnyFolds, SingleFoldBound
  <1>2. CASE UNCHANGED singleVars
    BY <1>2 DEF SingleBound, singleVars
  <1>3. CASE SingleFinished
    BY <1>2, <1>3 DEF SingleFinished
  <1> QED
    BY <1>1, <1>2, <1>3 DEF SingleNext

LEMMA SingleBoundBinds == SingleBound => BothDigestsBind
  BY DEF SingleBound, BothDigestsBind, DigestBinds, Bound, NGramBlocks, TokenBlocks

\* The digests of the single-bit circuit determine every window of ngrams and every token
\* folded, in order, however many tokens a fold takes.
THEOREM SingleDigestsBind == SingleSpec => []BothDigestsBind
  <1>1. SingleInv /\ SingleBound /\ [SingleNext]_singleVars => SingleBound'
    BY SingleNextBound
  <1> QED
    BY <1>1, SingleInitBound, SingleBoundBinds, SingleInvAlways, PTL DEF SingleSpec

---------------------------------------------------------------------------
\* The trees.  Every map has a height, that of the smallest tree its pairs fit in.
TreeMaps == Seq(Nat \X Nat) \ {<<>>}

LEMMA HeightFits ==
    ASSUME NEW map \in TreeMaps
    PROVE  Height(map) \in Nat /\ Len(map) \in Nat \ {0} /\ Len(map) <= 2 ^ Height(map)
  <1> DEFINE n == Len(map)
             S == {h \in 0..n : n <= 2 ^ h}
  <1>1. n \in Nat \ {0}
    BY DEF TreeMaps
  <1>2. n \in S /\ S \subseteq Nat
    BY <1>1, PowerExceeds
  <1>3. PICK h \in S : \A g \in S : h <= g
    <2> HIDE DEF S
    <2> QED
      BY <1>2, LeastNatural
  <1>4. \A g \in 0..(h - 1) : g \in 0..n /\ ~(h <= g) /\ 2 ^ g \in Nat
    BY <1>1, <1>3, PowerExceeds
  <1>5. \A g \in 0..(h - 1) : 2 ^ g < n
    BY <1>1, <1>3, <1>4
  <1>6. Height(map) \in 0..n /\ n <= 2 ^ Height(map)
    BY <1>3, <1>5 DEF Height
  <1> QED
    BY <1>1, <1>6

\* The layer above another.
Above(map, d, layer) ==
    [i \in 0..(2 ^ (Height(map) - d) - 1) |-> Poseidon(layer[2 * i], layer[2 * i + 1])]

Layering(map, L, n) ==
    [d \in 0..n |-> IF d = 0 THEN Leaves(map) ELSE Above(map, d, L[d - 1])]

LEMMA LayeringExists ==
    ASSUME NEW map
    PROVE  \A n \in Nat : \E L : L = Layering(map, L, n)
  <1> DEFINE S == {n \in Nat : \E L : L = Layering(map, L, n)}
  <1>1. 0 \in S
    <2> DEFINE L == [d \in 0..0 |-> Leaves(map)]
    <2>1. L = Layering(map, L, 0)
      BY DEF Layering
    <2> QED
      BY <2>1
  <1>2. ASSUME NEW n \in Nat, n \in S PROVE n + 1 \in S
    <2>1. PICK L : L = Layering(map, L, n)
      BY <1>2
    <2> DEFINE M == [d \in 0..(n + 1) |-> IF d = n + 1 THEN Above(map, n + 1, L[n]) ELSE L[d]]
               R == Layering(map, M, n + 1)
    <2>2. \A d \in 0..(n + 1) : R[d] = IF d = 0 THEN Leaves(map) ELSE Above(map, d, M[d - 1])
      BY DEF Layering
    <2>3. \A d \in 0..n : L[d] = IF d = 0 THEN Leaves(map) ELSE Above(map, d, L[d - 1])
      BY <2>1 DEF Layering
    <2>4. \A d \in 0..(n + 1) : M[d] = IF d = n + 1 THEN Above(map, n + 1, L[n]) ELSE L[d]
      OBVIOUS
    <2>5. R = [d \in 0..(n + 1) |-> R[d]]
      BY DEF Layering
    <2> HIDE DEF M, R
    <2>6. ASSUME NEW d \in 0..(n + 1) PROVE R[d] = M[d]
      <3>1. CASE d = 0
        BY <2>2, <2>3, <2>4, <3>1
      <3>2. CASE d \in 1..n
        <4>1. d - 1 \in 0..(n + 1) /\ d - 1 # n + 1 /\ d \in 0..n /\ d # 0 /\ d # n + 1
          BY <3>2
        <4> QED
          BY <2>2, <2>3, <2>4, <4>1
      <3>3. CASE d = n + 1
        <4>1. d - 1 = n /\ n \in 0..(n + 1) /\ n # n + 1 /\ d # 0
          BY <3>3
        <4> QED
          BY <2>2, <2>4, <3>3, <4>1
      <3> QED
        BY <3>1, <3>2, <3>3
    <2>7. M = R
      BY <2>5, <2>6 DEF M
    <2> QED
      BY <2>7 DEF R
  <1> HIDE DEF S
  <1>3. \A n \in Nat : n \in S
    BY <1>1, <1>2, Induction
  <1> QED
    BY <1>3 DEF S

\* The layers of a tree, and that every node is the hash of two.
LEMMA LayersUp ==
    ASSUME NEW map \in TreeMaps
    PROVE  /\ Layers(map)[0] = Leaves(map)
           /\ \A d \in 1..Height(map) : Layers(map)[d] = Above(map, d, Layers(map)[d - 1])
  <1>1. PICK h \in Nat : h = Height(map)
    BY HeightFits
  <1> DEFINE L == CHOOSE M : M = Layering(map, M, h)
  <1>2. L = Layering(map, L, h)
    BY LayeringExists
  <1>3. Layers(map) = L
    BY <1>1 DEF Layers, Layering, Above
  <1> HIDE DEF L
  <1>4. \A d \in 0..h : L[d] = IF d = 0 THEN Leaves(map) ELSE Above(map, d, L[d - 1])
    BY <1>2 DEF Layering
  <1> QED
    BY <1>1, <1>3, <1>4

LEMMA LayerNodes ==
    ASSUME NEW map \in TreeMaps
    PROVE  /\ \A i \in 0..(2 ^ Height(map) - 1) :
                 Layers(map)[0][i] = IF i < Len(map) THEN Leaf(map[i + 1][1], map[i + 1][2])
                                     ELSE EmptyHash
           /\ \A d \in 0..(Height(map) - 1) : \A i \in 0..(2 ^ (Height(map) - (d + 1)) - 1) :
                 Layers(map)[d + 1][i]
                     = Poseidon(Layers(map)[d][2 * i], Layers(map)[d][2 * i + 1])
  <1>1. Height(map) \in Nat
    BY HeightFits
  <1>2. ASSUME NEW i \in 0..(2 ^ Height(map) - 1)
        PROVE  Layers(map)[0][i] = IF i < Len(map) THEN Leaf(map[i + 1][1], map[i + 1][2])
                                   ELSE EmptyHash
    BY LayersUp DEF Leaves
  <1>3. ASSUME NEW d \in 0..(Height(map) - 1),
               NEW i \in 0..(2 ^ (Height(map) - (d + 1)) - 1)
        PROVE  Layers(map)[d + 1][i]
                   = Poseidon(Layers(map)[d][2 * i], Layers(map)[d][2 * i + 1])
    <2>1. d + 1 \in 1..Height(map) /\ (d + 1) - 1 = d
      BY <1>1
    <2>2. Layers(map)[d + 1] = Above(map, d + 1, Layers(map)[d])
      BY <2>1, LayersUp
    <2> QED
      BY <2>2 DEF Above
  <1> QED
    BY <1>2, <1>3

\* One level of an inclusion proof, and the hashes it leads to level by level.
HashUp(hash, proof, d) ==
    IF proof.path[d] = 0 THEN Poseidon(hash, proof.siblings[d])
    ELSE Poseidon(proof.siblings[d], hash)

Hashing(leaf, proof, H, n) ==
    [d \in 0..n |-> IF d = 0 THEN leaf ELSE HashUp(H[d - 1], proof, d - 1)]

LEMMA HashingExists ==
    ASSUME NEW leaf, NEW proof
    PROVE  \A n \in Nat : \E H : H = Hashing(leaf, proof, H, n)
  <1> DEFINE S == {n \in Nat : \E H : H = Hashing(leaf, proof, H, n)}
  <1>1. 0 \in S
    <2> DEFINE H == [d \in 0..0 |-> leaf]
    <2>1. H = Hashing(leaf, proof, H, 0)
      BY DEF Hashing
    <2> QED
      BY <2>1
  <1>2. ASSUME NEW n \in Nat, n \in S PROVE n + 1 \in S
    <2>1. PICK H : H = Hashing(leaf, proof, H, n)
      BY <1>2
    <2> DEFINE G == [d \in 0..(n + 1) |-> IF d = n + 1 THEN HashUp(H[n], proof, n) ELSE H[d]]
               R == Hashing(leaf, proof, G, n + 1)
    <2>2. \A d \in 0..(n + 1) : R[d] = IF d = 0 THEN leaf ELSE HashUp(G[d - 1], proof, d - 1)
      BY DEF Hashing
    <2>3. \A d \in 0..n : H[d] = IF d = 0 THEN leaf ELSE HashUp(H[d - 1], proof, d - 1)
      BY <2>1 DEF Hashing
    <2>4. \A d \in 0..(n + 1) : G[d] = IF d = n + 1 THEN HashUp(H[n], proof, n) ELSE H[d]
      OBVIOUS
    <2>5. R = [d \in 0..(n + 1) |-> R[d]]
      BY DEF Hashing
    <2> HIDE DEF G, R
    <2>6. ASSUME NEW d \in 0..(n + 1) PROVE R[d] = G[d]
      <3>1. CASE d = 0
        BY <2>2, <2>3, <2>4, <3>1
      <3>2. CASE d \in 1..n
        <4>1. d - 1 \in 0..(n + 1) /\ d - 1 # n + 1 /\ d \in 0..n /\ d # 0 /\ d # n + 1
          BY <3>2
        <4> QED
          BY <2>2, <2>3, <2>4, <4>1
      <3>3. CASE d = n + 1
        <4>1. d - 1 = n /\ n \in 0..(n + 1) /\ n # n + 1 /\ d # 0
          BY <3>3
        <4> QED
          BY <2>2, <2>4, <3>3, <4>1
      <3> QED
        BY <3>1, <3>2, <3>3
    <2>7. G = R
      BY <2>5, <2>6 DEF G
    <2> QED
      BY <2>7 DEF R
  <1> HIDE DEF S
  <1>3. \A n \in Nat : n \in S
    BY <1>1, <1>2, Induction
  <1> QED
    BY <1>3 DEF S

LEMMA HashesUp ==
    ASSUME NEW leaf, NEW proof, NEW n \in Nat
    PROVE  \E H : /\ H[0] = leaf
                  /\ \A d \in 0..(n - 1) : H[d + 1] = HashUp(H[d], proof, d)
                  /\ ProvenRoot(leaf, proof, n) = H[n]
  <1> DEFINE H == CHOOSE G : G = Hashing(leaf, proof, G, n)
  <1>1. H = Hashing(leaf, proof, H, n)
    BY HashingExists
  <1>2. ProvenRoot(leaf, proof, n) = H[n]
    BY DEF ProvenRoot, Hashing, HashUp
  <1> HIDE DEF H
  <1>3. \A d \in 0..n : H[d] = IF d = 0 THEN leaf ELSE HashUp(H[d - 1], proof, d - 1)
    BY <1>1 DEF Hashing
  <1>4. ASSUME NEW d \in 0..(n - 1) PROVE H[d + 1] = HashUp(H[d], proof, d)
    <2>1. d + 1 \in 0..n /\ d + 1 # 0 /\ (d + 1) - 1 = d
      OBVIOUS
    <2> QED
      BY <1>3, <2>1
  <1> QED
    BY <1>2, <1>3, <1>4

\* From the root down: what an inclusion proof hashes on its way to the root of a map are
\* nodes of the map's tree, as far as both reach.
LEMMA HashesAreNodes ==
    ASSUME NEW map \in TreeMaps, NEW proof, NEW n \in Nat, NEW H,
           \A d \in 0..(n - 1) : H[d + 1] = HashUp(H[d], proof, d),
           H[n] = Root(map)
    PROVE  \A j \in Nat : j <= n /\ j <= Height(map) =>
               \E i \in 0..(2 ^ j - 1) : H[n - j] = Layers(map)[Height(map) - j][i]
  <1>1. PICK h \in Nat : h = Height(map)
    BY HeightFits
  <1> DEFINE L == Layers(map)
             S == {j \in Nat : j <= n /\ j <= h =>
                      \E i \in 0..(2 ^ j - 1) : H[n - j] = L[h - j][i]}
  <1>2. 0 \in S
    <2>1. 2 ^ 0 = 1
      OBVIOUS
    <2>2. 0 \in 0..(2 ^ 0 - 1) /\ n - 0 = n /\ h - 0 = h
      BY <2>1
    <2> QED
      BY <1>1, <2>2 DEF Root
  <1>3. ASSUME NEW j \in Nat, j \in S PROVE j + 1 \in S
    <2> SUFFICES ASSUME j + 1 <= n, j + 1 <= h
                 PROVE  \E i \in 0..(2 ^ (j + 1) - 1) : H[n - (j + 1)] = L[h - (j + 1)][i]
      OBVIOUS
    <2> DEFINE d == h - (j + 1)
               e == n - (j + 1)
    <2>1. d \in 0..(h - 1) /\ e \in 0..(n - 1) /\ h - j = d + 1 /\ n - j = e + 1 /\ h - (d + 1) = j
      OBVIOUS
    <2>2. PICK i \in 0..(2 ^ j - 1) : H[e + 1] = L[d + 1][i]
      BY <1>3, <2>1
    <2> HIDE DEF d, e
    <2>3. L[d + 1][i] = Poseidon(L[d][2 * i], L[d][2 * i + 1])
      BY <1>1, <2>1, LayerNodes
    <2>4. H[e + 1] = HashUp(H[e], proof, e)
      BY <2>1
    <2>5. H[e] = L[d][2 * i] \/ H[e] = L[d][2 * i + 1]
      BY <2>2, <2>3, <2>4 DEF HashUp, Poseidon
    <2>6. 2 * i \in 0..(2 ^ (j + 1) - 1) /\ 2 * i + 1 \in 0..(2 ^ (j + 1) - 1)
      <3> DEFINE p == 2 ^ j
                 q == 2 ^ (j + 1)
      <3>1. p \in Nat /\ q = 2 * p /\ i \in 0..(p - 1)
        BY PowerExceeds, PowerDoubles
      <3> HIDE DEF p, q
      <3>2. 2 * i \in 0..(q - 1) /\ 2 * i + 1 \in 0..(q - 1)
        BY <3>1
      <3> QED
        BY <3>2 DEF q
    <2> QED
      BY <2>5, <2>6 DEF d, e
  <1> HIDE DEF S
  <1>4. \A j \in Nat : j \in S
    BY <1>2, <1>3, Induction
  <1> QED
    BY <1>1, <1>4 DEF S

\* A leaf an inclusion proof leads to the root of a map is a pair of the map, or the pair
\* of zeros where the leaves were filled up: numbers are no nodes, so that a proof for
\* another height leads nowhere.
LEMMA ShownIsPair ==
    ASSUME NEW map \in TreeMaps, NEW x, NEW y, NEW proof,
           ProvenRoot(Leaf(x, y), proof, Levels) = Root(map)
    PROVE  \/ \E k \in 1..Len(map) : map[k] = <<x, y>>
           \/ Padded(map) /\ <<x, y>> = <<0, 0>>
  <1>1. PICK h \in Nat : h = Height(map)
    BY HeightFits
  <1>2. PICK n \in Nat : n = Levels
    BY DetectAssumption
  <1>3. PICK H : /\ H[0] = Leaf(x, y)
                 /\ \A d \in 0..(n - 1) : H[d + 1] = HashUp(H[d], proof, d)
                 /\ H[n] = Root(map)
    BY <1>2, HashesUp
  <1> DEFINE L == Layers(map)
  <1>4. \A j \in Nat : j <= n /\ j <= h =>
            \E i \in 0..(2 ^ j - 1) : H[n - j] = L[h - j][i]
    <2>1. \A j \in Nat : j <= n /\ j <= Height(map) =>
              \E i \in 0..(2 ^ j - 1) : H[n - j] = Layers(map)[Height(map) - j][i]
      <3>1. \A d \in 0..(n - 1) : H[d + 1] = HashUp(H[d], proof, d)
        BY <1>3
      <3>2. H[n] = Root(map)
        BY <1>3
      <3> HIDE DEF L
      <3> QED
        BY <1>2, <3>1, <3>2, HashesAreNodes
    <2> QED
      BY <1>1, <2>1, Zenon
  <1>5. ASSUME NEW i \in 0..(2 ^ h - 1)
        PROVE  L[0][i] = IF i < Len(map) THEN Leaf(map[i + 1][1], map[i + 1][2])
                         ELSE EmptyHash
    BY <1>1, LayerNodes
  <1>6. \A v, a, b : Number(v) # Poseidon(a, b)
    BY DEF Number, Poseidon
  <1>7. CASE n = h
    <2>1. PICK i \in 0..(2 ^ h - 1) : H[n - h] = L[h - h][i]
      BY <1>4, <1>7
    <2>2. Leaf(x, y) = L[0][i]
      BY <1>3, <1>7, <2>1
    <2>3. CASE i < Len(map)
      <3>1. Leaf(x, y) = Leaf(map[i + 1][1], map[i + 1][2])
        BY <1>5, <2>2, <2>3
      <3>2. x = map[i + 1][1] /\ y = map[i + 1][2]
        BY <3>1 DEF Leaf, Poseidon, Number
      <3>3. i + 1 \in 1..Len(map) /\ map[i + 1] \in Nat \X Nat
        <4>1. i \in Nat /\ Len(map) \in Nat /\ map \in Seq(Nat \X Nat)
          BY PowerExceeds DEF TreeMaps
        <4> QED
          BY <2>3, <4>1
      <3>4. map[i + 1] = <<x, y>>
        BY <3>2, <3>3
      <3> QED
        BY <3>3, <3>4
    <2>4. CASE ~(i < Len(map))
      <3>1. Leaf(x, y) = Leaf(0, 0)
        BY <1>5, <2>2, <2>4 DEF EmptyHash
      <3>2. x = 0 /\ y = 0
        BY <3>1 DEF Leaf, Poseidon, Number
      <3>3. Len(map) < 2 ^ h
        <4> DEFINE p == 2 ^ h
        <4>1. p \in Nat /\ Len(map) \in Nat /\ i \in 0..(p - 1)
          BY PowerExceeds, HeightFits
        <4> HIDE DEF p
        <4>2. Len(map) < p
          BY <2>4, <4>1
        <4> QED
          BY <4>2 DEF p
      <3> QED
        BY <1>1, <3>2, <3>3 DEF Padded
    <2> QED
      BY <2>3, <2>4
  <1>8. CASE n < h
    <2> DEFINE d == h - (n + 1)
    <2>1. d \in 0..(h - 1) /\ h - n = d + 1 /\ h - (d + 1) = n
      BY <1>8
    <2>2. PICK i \in 0..(2 ^ n - 1) : H[n - n] = L[h - n][i]
      BY <1>4, <1>8
    <2> HIDE DEF d
    <2>3. Leaf(x, y) = Poseidon(L[d][2 * i], L[d][2 * i + 1])
      <3>1. L[d + 1][i] = Poseidon(L[d][2 * i], L[d][2 * i + 1])
        BY <1>1, <2>1, LayerNodes
      <3> QED
        BY <1>3, <2>1, <2>2, <3>1
    <2>4. Number(x) = L[d][2 * i]
      BY <2>3 DEF Leaf, Poseidon
    <2>5. \E a, b : L[d][2 * i] = Poseidon(a, b)
      <3> DEFINE m == 2 * i
      <3>1. m \in 0..(2 ^ (h - d) - 1)
        <4> DEFINE p == 2 ^ n
                   q == 2 ^ (n + 1)
        <4>1. p \in Nat /\ q = 2 * p /\ i \in 0..(p - 1) /\ h - d = n + 1
          BY <2>1, PowerExceeds, PowerDoubles
        <4> HIDE DEF p, q
        <4>2. m \in 0..(q - 1)
          BY <4>1
        <4> QED
          BY <4>1, <4>2 DEF q
      <3> HIDE DEF m
      <3>2. CASE d = 0
        <4>1. L[0][m] = Leaf(map[m + 1][1], map[m + 1][2]) \/ L[0][m] = EmptyHash
          BY <1>5, <3>1, <3>2
        <4> QED
          BY <3>2, <4>1 DEF Leaf, EmptyHash, m
      <3>3. CASE d # 0
        <4> DEFINE g == d - 1
        <4>1. g \in 0..(h - 1) /\ g + 1 = d
          BY <2>1, <3>3
        <4> HIDE DEF g
        <4>2. L[g + 1][m] = Poseidon(L[g][2 * m], L[g][2 * m + 1])
          BY <1>1, <3>1, <4>1, LayerNodes
        <4> QED
          BY <4>1, <4>2 DEF m
      <3> QED
        BY <3>2, <3>3
    <2> QED
      BY <1>6, <2>4, <2>5
  <1>9. CASE n > h
    <2> DEFINE e == n - (h + 1)
    <2>1. e \in 0..(n - 1) /\ n - h = e + 1
      BY <1>9
    <2>2. PICK i \in 0..(2 ^ h - 1) : H[n - h] = L[h - h][i]
      BY <1>4, <1>9
    <2> HIDE DEF e
    <2>3. PICK v, w : H[e + 1] = Poseidon(Number(v), Number(w))
      <3>1. L[0][i] = Leaf(map[i + 1][1], map[i + 1][2]) \/ L[0][i] = EmptyHash
        BY <1>5
      <3>2. \E v, w : L[0][i] = Poseidon(Number(v), Number(w))
        BY <3>1 DEF Leaf, EmptyHash
      <3> QED
        BY <2>1, <2>2, <3>2
    <2>4. H[e] = Number(v) \/ H[e] = Number(w)
      <3>1. H[e + 1] = HashUp(H[e], proof, e)
        BY <1>3, <2>1
      <3>2. \/ Poseidon(Number(v), Number(w)) = Poseidon(H[e], proof.siblings[e])
            \/ Poseidon(Number(v), Number(w)) = Poseidon(proof.siblings[e], H[e])
        BY <2>3, <3>1 DEF HashUp
      <3> QED
        BY <3>2 DEF Poseidon
    <2>5. \E a, b : H[e] = Poseidon(a, b)
      <3>1. CASE e = 0
        BY <1>3, <3>1 DEF Leaf
      <3>2. CASE e # 0
        <4>1. e - 1 \in 0..(n - 1) /\ (e - 1) + 1 = e
          BY <2>1, <3>2
        <4> QED
          BY <1>3, <4>1 DEF HashUp
      <3> QED
        BY <3>1, <3>2
    <2> QED
      BY <1>6, <2>4, <2>5
  <1> QED
    BY <1>7, <1>8, <1>9

\* The invariant of the folds: every row folded was shown to be a leaf under a root of one
\* of the maps.  The root is a part of the private input, so that each fold has its own.
AllShown ==
    \A f \in 1..Len(folded) :
        /\ \E map \in Maps : Root(map) = folded[f].root
        /\ \A i \in Rows : Shows(folded[f].root, folded[f].position[i], folded[f].tokens[i],
                                 folded[f].proof[i])

LEMMA InitShown == Init => AllShown
  BY DEF Init, AllShown

LEMMA FoldShown ==
    ASSUME AllShown, folded \in Seq(PrivateInputs), NEW in \in PrivateInputs, Fold(in)
    PROVE  AllShown'
  <1>1. folded' = Append(folded, in) /\ Satisfied(in)
    BY DEF Fold
  <1>2. Len(folded') = Len(folded) + 1 /\ Len(folded) \in Nat
    BY <1>1
  <1>3. \E map \in Maps : Root(map) = in.root
    BY DEF PrivateInputs, Roots
  <1>4. \A i \in Rows : Shows(in.root, in.position[i], in.tokens[i], in.proof[i])
    BY <1>1 DEF Satisfied
  <1>5. ASSUME NEW f \in 1..Len(folded')
        PROVE  /\ \E map \in Maps : Root(map) = folded'[f].root
               /\ \A i \in Rows : Shows(folded'[f].root, folded'[f].position[i],
                                        folded'[f].tokens[i], folded'[f].proof[i])
    <2>1. CASE f = Len(folded) + 1
      <3>1. folded'[f] = in
        BY <1>1, <2>1
      <3> QED
        BY <1>3, <1>4, <3>1
    <2>2. CASE f # Len(folded) + 1
      <3>1. f \in 1..Len(folded) /\ folded'[f] = folded[f]
        BY <1>1, <1>2, <2>2
      <3> QED
        BY <3>1 DEF AllShown
    <2> QED
      BY <2>1, <2>2
  <1> QED
    BY <1>5 DEF AllShown, Shows

LEMMA NextShown == TypeOK /\ AllShown /\ [Next]_vars => AllShown'
  <1> SUFFICES ASSUME TypeOK, AllShown, [Next]_vars PROVE AllShown'
    OBVIOUS
  <1>1. ASSUME FoldAny PROVE AllShown'
    <2>1. PICK in \in PrivateInputs : Fold(in)
      BY <1>1, FoldAnyFolds
    <2> QED
      BY <2>1, FoldShown DEF TypeOK
  <1>2. ASSUME UNCHANGED vars PROVE AllShown'
    BY <1>2 DEF AllShown, Shows, vars
  <1> QED
    BY <1>1, <1>2 DEF Next, Finished

LEMMA ShownArePairs == AllShown => FoldsArePairs
  <1> SUFFICES ASSUME AllShown, NEW f \in 1..Len(folded), NEW i \in Rows
               PROVE  LET pair == <<folded[f].position[i], folded[f].tokens[i]>>
                      IN  \E map \in Maps :
                              /\ Root(map) = folded[f].root
                              /\ \/ \E k \in 1..Len(map) : map[k] = pair
                                 \/ Padded(map) /\ pair = <<0, 0>>
    BY DEF FoldsArePairs
  <1> DEFINE x == folded[f].position[i]
             y == folded[f].tokens[i]
             proof == folded[f].proof[i]
  <1>1. PICK map \in Maps : Root(map) = folded[f].root
    BY DEF AllShown
  <1>2. ProvenRoot(Leaf(x, y), proof, Levels) = Root(map)
    BY <1>1 DEF AllShown, Shows
  <1>3. map \in TreeMaps
    BY DetectAssumption DEF TreeMaps
  <1> HIDE DEF x, y, proof
  <1>4. \/ \E k \in 1..Len(map) : map[k] = <<x, y>>
        \/ Padded(map) /\ <<x, y>> = <<0, 0>>
    BY <1>2, <1>3, ShownIsPair
  <1> QED
    BY <1>1, <1>4 DEF x, y

\* Nothing but pairs of a map is folded: the circuit accepts no inclusion proof of
\* anything else, whatever its siblings.
THEOREM FoldedArePairs == Spec => []FoldsArePairs
  BY InitShown, InvAlways, NextShown, ShownArePairs, PTL DEF Spec, Inv

---------------------------------------------------------------------------
\* Halving a quotient is dividing by twice as much.
LEMMA HalfOfQuotient ==
    ASSUME NEW a \in Nat, NEW p \in Nat \ {0}
    PROVE  a \div (2 * p) = (a \div p) \div 2
  <1>1. \A b \in Nat, m \in Nat \ {0} : \A t \in 0..(m - 1) : (b * m + t) \div m = b
    OBVIOUS
  <1>2. \A b \in Nat, m \in Nat \ {0} :
          b \div m \in Nat /\ b % m \in 0..(m - 1) /\ b = (b \div m) * m + (b % m)
    OBVIOUS
  <1> DEFINE q == a \div p
             r == a % p
             b == q \div 2
             s == q % 2
  <1>3. q \in Nat /\ r \in 0..(p - 1) /\ a = q * p + r
    BY <1>2
  <1>4. b \in Nat /\ s \in 0..1 /\ q = b * 2 + s
    <2> HIDE DEF q
    <2> QED
      BY <1>2, <1>3
  <1> HIDE DEF q, r, b, s
  <1>5. s * p + r \in 0..((2 * p) - 1)
    <2>1. CASE s = 0
      BY <1>3, <2>1
    <2>2. CASE s = 1
      BY <1>3, <2>2
    <2> QED
      BY <1>4, <2>1, <2>2
  <1>6. a = b * (2 * p) + (s * p + r)
    <2>1. q * p = b * (2 * p) + s * p
      BY <1>3, <1>4
    <2> QED
      BY <1>3, <1>4, <2>1
  <1>7. 2 * p \in Nat \ {0}
    OBVIOUS
  <1>8. a \div (2 * p) = b
    BY <1>1, <1>4, <1>5, <1>6, <1>7
  <1> QED
    BY <1>8 DEF b, q

\* get_proof finds a leaf of every pair of the map.
LEMMA LeafFound ==
    ASSUME NEW map \in TreeMaps, NEW k \in 1..Len(map)
    PROVE  LET i == LeafIndex(map, map[k][1], map[k][2])
           IN  /\ i \in Nat
               /\ i < 2 ^ Height(map)
               /\ Leaves(map)[i] = Leaf(map[k][1], map[k][2])
  <1> DEFINE x == map[k][1]
             y == map[k][2]
             S == {i \in 0..(Len(map) - 1) : Leaves(map)[i] = Leaf(x, y)}
  <1>1. Len(map) \in Nat
    BY DEF TreeMaps
  <1> DEFINE p == 2 ^ Height(map)
  <1>2. p \in Nat /\ Len(map) <= p
    BY HeightFits, PowerExceeds
  <1>3. k - 1 \in S
    <2>1. k - 1 \in 0..(Len(map) - 1) /\ (k - 1) + 1 = k /\ k - 1 < Len(map)
      BY <1>1
    <2>2. k - 1 \in 0..(p - 1)
      <3> HIDE DEF p
      <3> QED
        BY <1>1, <1>2, <2>1
    <2>3. Leaves(map)[k - 1] = Leaf(map[(k - 1) + 1][1], map[(k - 1) + 1][2])
      BY <2>1, <2>2 DEF Leaves
    <2> QED
      BY <2>1, <2>3
  <1>4. S \subseteq Nat
    OBVIOUS
  <1>5. PICK i \in S : \A j \in S : i <= j
    <2> HIDE DEF S
    <2> QED
      BY <1>3, <1>4, LeastNatural
  <1>6. \A j \in 0..(i - 1) : Leaves(map)[j] # Leaf(x, y)
    <2> SUFFICES ASSUME NEW j \in 0..(i - 1), Leaves(map)[j] = Leaf(x, y) PROVE FALSE
      OBVIOUS
    <2>1. j \in S
      BY <1>1
    <2> QED
      BY <1>5, <2>1
  <1> HIDE DEF x, y
  <1>7. LeafIndex(map, x, y) \in S
    BY <1>6 DEF LeafIndex
  <1> HIDE DEF p
  <1>8. ASSUME NEW j \in S PROVE j \in Nat /\ j < p /\ Leaves(map)[j] = Leaf(x, y)
    BY <1>1, <1>2
  <1> QED
    BY <1>7, <1>8 DEF p, x, y

\* A proof with the sides and siblings of a leaf's way up leads to the tree's root, by the
\* node over the leaf in every layer.
LEMMA ProofClimbs ==
    ASSUME NEW map \in TreeMaps, NEW leaf, NEW index \in Nat, NEW proof,
           index < 2 ^ Height(map), Leaves(map)[index] = leaf,
           \A d \in 0..(Height(map) - 1) :
               /\ proof.path[d] = (index \div 2 ^ d) % 2
               /\ proof.siblings[d] = Layers(map)[d][Beside(index \div 2 ^ d)]
    PROVE  ProvenRoot(leaf, proof, Height(map)) = Root(map)
  <1>1. PICK h \in Nat : h = Height(map)
    BY HeightFits
  <1>2. PICK H : /\ H[0] = leaf
                 /\ \A d \in 0..(h - 1) : H[d + 1] = HashUp(H[d], proof, d)
                 /\ ProvenRoot(leaf, proof, h) = H[h]
    BY <1>1, HashesUp
  <1>3. PICK L : L = Layers(map)
    OBVIOUS
  <1> DEFINE At(d) == index \div 2 ^ d
  <1>4. index < 2 ^ h /\ L[0][index] = leaf
    BY <1>1, <1>3, LayersUp
  <1>5. \A d \in 0..(h - 1) : /\ proof.path[d] = At(d) % 2
                              /\ proof.siblings[d] = L[d][Beside(At(d))]
    BY <1>1, <1>3
  <1> DEFINE S == {d \in Nat : d <= h => At(d) \in 0..(2 ^ (h - d) - 1) /\ H[d] = L[d][At(d)]}
  <1>6. 0 \in S
    <2>1. 2 ^ 0 = 1 /\ h - 0 = h
      OBVIOUS
    <2>2. At(0) = index
      BY <1>4, <2>1
    <2> DEFINE p == 2 ^ h
    <2>3. p \in Nat /\ index < p
      BY <1>4, PowerExceeds
    <2> HIDE DEF p
    <2>4. index \in 0..(p - 1)
      BY <1>4, <2>3
    <2> QED
      BY <1>4, <1>2, <2>1, <2>2, <2>4 DEF p
  <1>7. ASSUME NEW d \in Nat, d \in S PROVE d + 1 \in S
    <2> SUFFICES ASSUME d + 1 <= h
                 PROVE  /\ At(d + 1) \in 0..(2 ^ (h - (d + 1)) - 1)
                        /\ H[d + 1] = L[d + 1][At(d + 1)]
      OBVIOUS
    <2>1. d \in 0..(h - 1) /\ h - (d + 1) \in Nat /\ (h - (d + 1)) + 1 = h - d
      OBVIOUS
    <2> DEFINE a == At(d)
               b == At(d + 1)
               p == 2 ^ d
               m == 2 ^ (h - (d + 1))
    <2>2. a \in 0..(2 ^ (h - d) - 1) /\ H[d] = L[d][a]
      BY <1>7, <2>1
    <2>3. p \in Nat \ {0} /\ 2 ^ (d + 1) = 2 * p
      BY PowerExceeds, PowerDoubles
    <2>4. b = a \div 2
      <3>1. a = index \div p /\ b = index \div (2 * p)
        BY <2>3
      <3> HIDE DEF a, b, p
      <3> QED
        BY <1>4, <2>3, <3>1, HalfOfQuotient
    <2>5. m \in Nat /\ 2 ^ (h - d) = 2 * m
      BY <2>1, PowerExceeds, PowerDoubles
    <2> HIDE DEF a, b, p, m
    <2>6. a \in 0..(2 * m - 1)
      BY <2>2, <2>5
    <2>7. b \in 0..(m - 1) /\ (a = 2 * b \/ a = 2 * b + 1)
      BY <2>4, <2>5, <2>6
    <2>8. L[d + 1][b] = Poseidon(L[d][2 * b], L[d][2 * b + 1])
      <3>1. b \in 0..(2 ^ (h - (d + 1)) - 1)
        BY <2>7 DEF m
      <3> QED
        BY <1>1, <2>1, <3>1, LayerNodes, <1>3
    <2>9. H[d + 1] = HashUp(L[d][a], proof, d)
      BY <1>2, <2>1, <2>2
    <2>10. proof.path[d] = a % 2 /\ proof.siblings[d] = L[d][Beside(a)]
      BY <1>5, <2>1 DEF a
    <2>11. H[d + 1] = L[d + 1][b]
      <3>1. CASE a = 2 * b
        <4>1. a % 2 = 0
          BY <2>7, <3>1
        <4>2. Beside(a) = 2 * b + 1
          BY <3>1, <4>1 DEF Beside
        <4> QED
          BY <2>8, <2>9, <2>10, <3>1, <4>1, <4>2 DEF HashUp
      <3>2. CASE a = 2 * b + 1
        <4>1. a % 2 = 1
          BY <2>7, <3>2
        <4>2. Beside(a) = 2 * b
          BY <2>7, <3>2, <4>1 DEF Beside
        <4> QED
          BY <2>8, <2>9, <2>10, <3>2, <4>1, <4>2 DEF HashUp
      <3> QED
        BY <2>7, <3>1, <3>2
    <2> QED
      BY <2>7, <2>11 DEF b, m
  <1> HIDE DEF S
  <1>8. \A d \in Nat : d \in S
    BY <1>6, <1>7, Induction
  <1>9. At(h) \in 0..(2 ^ (h - h) - 1) /\ H[h] = L[h][At(h)]
    <2>1. h \in S
      BY <1>1, <1>8
    <2>2. h <= h
      BY <1>1
    <2> QED
      BY <2>1, <2>2, Zenon DEF S
  <1>10. At(h) = 0
    <2>1. h - h = 0 /\ 2 ^ 0 = 1
      BY <1>1
    <2> DEFINE a == At(h)
    <2>2. a \in 0..(2 ^ (h - h) - 1)
      BY <1>9
    <2> HIDE DEF a
    <2>3. a = 0
      BY <2>1, <2>2
    <2> QED
      BY <2>3 DEF a
  <1>11. H[h] = Root(map)
    BY <1>1, <1>9, <1>10, <1>3 DEF Root
  <1> QED
    BY <1>1, <1>2, <1>11

\* The proof the tree gives of a pair leads to the tree's root.
LEMMA ProofLeadsToRoot ==
    ASSUME NEW map \in TreeMaps, NEW k \in 1..Len(map)
    PROVE  ProvenRoot(Leaf(map[k][1], map[k][2]), GetProof(map, map[k][1], map[k][2]), Height(map))
               = Root(map)
  <1> DEFINE x == map[k][1]
             y == map[k][2]
  <1>1. PICK proof : proof = GetProof(map, x, y)
    OBVIOUS
  <1>2. PICK index : index = LeafIndex(map, x, y)
    OBVIOUS
  <1>3. PICK leaf : leaf = Leaf(x, y)
    OBVIOUS
  <1>4. index \in Nat /\ index < 2 ^ Height(map) /\ Leaves(map)[index] = leaf
    BY <1>2, <1>3, LeafFound
  <1>5. \A d \in 0..(Height(map) - 1) :
            /\ proof.path[d] = (index \div 2 ^ d) % 2
            /\ proof.siblings[d] = Layers(map)[d][Beside(index \div 2 ^ d)]
    BY <1>1, <1>2 DEF GetProof
  <1>6. ProvenRoot(leaf, proof, Height(map)) = Root(map)
    BY <1>4, <1>5, ProofClimbs
  <1> QED
    BY <1>1, <1>3, <1>6

LEMMA PairsFold == Inv => PairsCanBeFolded
  <1> SUFFICES ASSUME Inv, NEW map \in Maps, Height(map) = Levels, NEW k \in 1..Len(map)
               PROVE  Satisfied(HonestInput(map, k))
    BY DEF PairsCanBeFolded
  <1> DEFINE in == HonestInput(map, k)
  <1>1. \A c \in CountCells : z[CellIndex(c)] = Commit(in.key, in.count[c])
    BY DEF Inv, CountsEveryToken, HonestInput
  <1>2. map \in TreeMaps
    BY DetectAssumption DEF TreeMaps
  <1>3. ProvenRoot(Leaf(map[k][1], map[k][2]), GetProof(map, map[k][1], map[k][2]), Levels)
            = Root(map)
    BY <1>2, ProofLeadsToRoot
  <1>4. ASSUME NEW i \in Rows PROVE Shows(in.root, in.position[i], in.tokens[i], in.proof[i])
    BY <1>3 DEF Shows, HonestInput
  <1> QED
    BY <1>1, <1>4 DEF Satisfied

\* Whatever was folded before, a prover who opens the counts can fold any pair of a map of
\* the circuit's height: the proof the tree gives satisfies the circuit.
THEOREM EveryPairFolds == Spec => []PairsCanBeFolded
  BY InvAlways, PairsFold, PTL

---------------------------------------------------------------------------
\* A prover of either kind keeps what the circuit it has loaded keeps, and leaves the
\* running vector of the other at its start.
THEOREM EitherProver ==
    ProverSpec =>
        [](/\ TypeOK /\ OneKey /\ CountsEveryToken /\ FoldsArePairs /\ PairsCanBeFolded
           /\ OneSeed /\ PreparedInputsFit /\ BothDigestsBind)
  <1> DEFINE Multi == Inv /\ AllShown
             Single == SingleInv /\ SingleBound
  <1>1. ProverInit => Multi /\ Single
    BY InitInv, InitShown, SingleInitInv, SingleInitBound DEF ProverInit
  <1>2. Multi /\ [Next]_vars => Multi'
    BY NextInv, NextShown DEF Inv
  <1>3. Single /\ [SingleNext]_singleVars => Single'
    BY SingleNextInv, SingleNextBound
  <1>4. /\ Multi /\ Single
        /\ [MultiBitStep \/ SingleBitStep]_<<vars, singleVars, loaded>>
        => Multi' /\ Single'
    <2> HIDE DEF Multi, Single
    <2> QED
      BY <1>2, <1>3 DEF MultiBitStep, SingleBitStep
  <1>5. Multi /\ Single =>
            /\ TypeOK /\ OneKey /\ CountsEveryToken /\ FoldsArePairs /\ PairsCanBeFolded
            /\ OneSeed /\ PreparedInputsFit /\ BothDigestsBind
    <2> SUFFICES ASSUME Multi, Single
                 PROVE  /\ TypeOK /\ OneKey /\ CountsEveryToken /\ FoldsArePairs
                        /\ PairsCanBeFolded /\ OneSeed /\ PreparedInputsFit /\ BothDigestsBind
      OBVIOUS
    <2>1. TypeOK /\ OneKey /\ CountsEveryToken /\ OneSeed
      BY DEF Inv, SingleInv
    <2>2. FoldsArePairs /\ PairsCanBeFolded
      BY ShownArePairs, PairsFold
    <2>3. PreparedInputsFit /\ BothDigestsBind
      BY PreparedFits, SingleBoundBinds
    <2> QED
      BY <2>1, <2>2, <2>3
  <1> QED
    <2> HIDE DEF Multi, Single
    <2> QED
      BY <1>1, <1>4, <1>5, PTL DEF ProverSpec
=============================================================================
