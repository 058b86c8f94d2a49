---------------------------- MODULE StepCircuit ----------------------------
(***************************************************************************)
(* What the step circuits of the detectors share: the comparison of a hash *)
(* with the threshold and the chain of digests over the blocks folded.     *)
(*                                                                         *)
(* What is abstracted.  MiMC is a term, so that it has no collisions; the  *)
(* hashes that are compared are numbers of a field of Prime elements.      *)
(***************************************************************************)
EXTENDS Integers, Sequences

CONSTANTS
    Tokens, NGrams,
    Prime,          \* the order of the scalar field
    Width,          \* the n of LessThan(n)
    MaxFolds        \* bound: how many folds are made

ASSUME FieldAssumption == Prime \in Nat \ {0} /\ MaxFolds \in Nat

\* The widths the circuits use: 255 over a prime of 254 bits.
ASSUME WidthAssumption ==
    /\ Width \in Nat
    /\ Prime <= 2 ^ Width

Threshold == (Prime - 1) \div 2

\* Num2Bits, at the bit n of the canonical representative.
Bit(v, n) == (v \div 2 ^ n) % 2

\* circom shifts a field element by n and keeps the bits a field element has.
FieldBits == CHOOSE b \in 0..Width : Prime <= 2 ^ b /\ \A c \in 0..(b - 1) : 2 ^ c < Prime
ShiftOne(n) == (2 ^ n % 2 ^ FieldBits) % Prime

\* Mutant: the comparator compares.
ComparesIntegers(a, b) == IF a < b THEN 1 ELSE 0

\* LessThan(n) of comparators.circom, on the witness its generator computes.
LessThan(a, b) == 1 - Bit((a + ShiftOne(Width) - b) % Prime, Width)

---------------------------------------------------------------------------
\* Mutant: only the last block is absorbed.
DigestAlone(k, previous, block) == <<"mimc", k, <<"start">>, block>>

\* MultiMiMC7 over the digest so far and the values of a block.
Digest(k, previous, block) == <<"mimc", k, previous, block>>

StartDigest == <<"start">>

\* A digest determines every block of the inputs folded, in order: peeled off one by one
\* they are those blocks and end in the start value.
Peeled(d, n) ==
    LET P[k \in 0..n] == IF k = 0 THEN d ELSE IF Len(P[k - 1]) = 4 THEN P[k - 1][3] ELSE P[k - 1]
    IN  P[n]

DigestBinds(d, inputs, Block(_)) ==
    /\ Peeled(d, Len(inputs)) = StartDigest
    /\ \A k \in 1..Len(inputs) :
          LET e == Peeled(d, Len(inputs) - k)
          IN  Len(e) = 4 /\ e[4] = Block(inputs[k])
=============================================================================
