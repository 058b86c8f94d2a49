------------------------------ MODULE GreenList ------------------------------
(***************************************************************************)
(* The keyed token hash of the KGW watermark, and the two ways a green     *)
(* list is cut from it, as hash_rustlib computes them: every token whose   *)
(* hash is below a fixed fraction of the field, or the GreenListSize       *)
(* tokens of the smallest hashes.  Poseidon is a random function for the   *)
(* purpose of this model: `oracle' is its table under the one secret key,  *)
(* chosen at the start and never changed.  The halo2 programs fold a hash  *)
(* below 2^253 before they compare it (SubFp); the library does not.       *)
(***************************************************************************)
EXTENDS Integers, Sequences, FiniteSets

CONSTANTS Tokens,         \* the vocabulary
          Prime,          \* the modulus of BN254's scalar field
          Pow253,         \* 2^253, the fold of the halo2 programs
          GammaInv,       \* 1 / gamma, truncated to an integer
          GreenListSize,  \* vocab_size * gamma, truncated
          Oracles         \* the hash tables the checks range over

Field == 0 .. Prime - 1

ASSUME FieldAssumption ==
    /\ Prime \in Nat /\ Pow253 \in Nat /\ Pow253 < Prime /\ Prime < 2 * Pow253
    /\ GammaInv \in Nat \ {0, 1}
ASSUME TokensAssumption ==
    /\ Tokens \subseteq Nat /\ IsFiniteSet(Tokens)
    /\ GreenListSize \in 1 .. Cardinality(Tokens)
ASSUME OraclesAssumption ==
    Oracles \subseteq [seed  : [Tokens -> Field],
                       two   : [Field -> [Tokens -> Field]],
                       three : [Tokens -> [Tokens -> Field]]]

VARIABLE oracle

(***************************************************************************)
(* The hash of a token after the token `prev': Poseidon(seed, token) with  *)
(* seed = Poseidon(key, prev), or Poseidon(key, prev, token).              *)
(***************************************************************************)
TokenHash(twoToOne, prev, token) ==
    IF twoToOne THEN oracle.two[oracle.seed[prev]][token] ELSE oracle.three[prev][token]

FixedThreshold == Prime \div GammaInv

FixedGreenList(twoToOne, prev) ==
    {t \in Tokens : TokenHash(twoToOne, prev, t) < FixedThreshold}

(***************************************************************************)
(* The tokens that par_sort_by puts before a token: it is stable, so that  *)
(* equal hashes keep the order of the ids.                                 *)
(***************************************************************************)
SortedBefore(twoToOne, prev, token) ==
    {t \in Tokens : \/ TokenHash(twoToOne, prev, t) < TokenHash(twoToOne, prev, token)
                    \/ /\ TokenHash(twoToOne, prev, t) = TokenHash(twoToOne, prev, token)
                       /\ t < token}

SortedGreenList(twoToOne, prev) ==
    {t \in Tokens : Cardinality(SortedBefore(twoToOne, prev, t)) < GreenListSize}

\* The threshold published with a sorted list is the hash of its last token.
SortedThreshold(twoToOne, prev) ==
    TokenHash(twoToOne, prev, CHOOSE t \in SortedGreenList(twoToOne, prev) :
        Cardinality(SortedBefore(twoToOne, prev, t)) = GreenListSize - 1)

-----------------------------------------------------------------------------
\* Mutant: no fold.
Unfolded(value) == value

SubFp(value) == IF value < Pow253 THEN value ELSE value - Pow253

\* The same hash in a halo2 program, where the seed of the pair is folded too.
FoldedHash(twoToOne, prev, token) ==
    IF twoToOne THEN SubFp(oracle.two[SubFp(oracle.seed[prev])][token])
                ELSE SubFp(oracle.three[prev][token])
=============================================================================
