-------------------------- MODULE SingleBitDetect --------------------------
(***************************************************************************)
(* The step circuit of the KGW and SynthID detectors, detect_recursive,    *)
(* folded over and over by poseidon-detect.rs: its running vector step     *)
(* holds a commitment to one count, a digest of the ngrams and one of the  *)
(* tokens folded so far.  A fold takes several tokens and, for each of     *)
(* them, the g-values of several watermarking keys.                        *)
(*                                                                         *)
(* What is abstracted.  The window of ngrams before a token is one value;  *)
(* the commitments are terms, without collisions; GHash gives the hash     *)
(* that is compared.                                                       *)
(***************************************************************************)
EXTENDS StepCircuit, FiniteSets

CONSTANTS
    TokensPerFold,  \* seq_len
    Depth,          \* watermarking_depth
    WmKeys,         \* the watermarking keys
    Seeds,
    Seed,           \* the random_seed the start input commits to
    GHash           \* GHash[<<ngrams, token, key>>]: hasher2's output

Places == 0..(TokensPerFold - 1)
Depths == 0..(Depth - 1)

ASSUME SingleBitAssumption ==
    /\ TokensPerFold \in Nat
    /\ Depth \in Nat
    /\ Seed \in Seeds
    /\ GHash \in [NGrams \X Tokens \X WmKeys -> 0..(Prime - 1)]

VARIABLES
    step,       \* step_in of the next fold
    blocks      \* private_inputs folded so far

singleVars == <<step, blocks>>

---------------------------------------------------------------------------
\* Mutant: the commitment does not take the seed.
CommitUnseeded(seed, n) == <<"mimc", Seed, n>>

CommitCount(seed, n) == <<"mimc", seed, n>>

SingleInputs ==
    [seed : Seeds, count : Nat, output : Nat, key : [Depths -> WmKeys],
     ngrams : [Places -> NGrams], tokens : [Places -> Tokens]]

\* The g-values of a fold that are 1.
GValues(in) ==
    {g \in Places \X Depths :
        LessThan(GHash[<<in.ngrams[g[1]], in.tokens[g[1]], in.key[g[2]]>>], Threshold) = 1}

\* The constraints: the committed count is opened, and raised by the g-values.
SingleSatisfied(in) ==
    /\ step[0] = CommitCount(in.seed, in.count)
    /\ in.output = in.count + Cardinality(GValues(in))

\* Mutant: the digest of the tokens is read where that of the ngrams is.
SingleStepOutCrossed(in) ==
    [i \in 0..2 |->
        IF i = 0 THEN CommitCount(in.seed, in.output)
        ELSE IF i = 1 THEN Digest(in.seed, step[1], in.ngrams)
        ELSE Digest(in.seed, step[1], in.tokens)]

SingleStepOut(in) ==
    [i \in 0..2 |->
        IF i = 0 THEN CommitCount(in.seed, in.output)
        ELSE IF i = 1 THEN Digest(in.seed, step[1], in.ngrams)
        ELSE Digest(in.seed, step[2], in.tokens)]

SingleInit ==
    /\ step = [i \in 0..2 |-> IF i = 0 THEN CommitCount(Seed, 0) ELSE StartDigest]
    /\ blocks = <<>>

SingleFold(in) ==
    /\ SingleSatisfied(in)
    /\ step' = SingleStepOut(in)
    /\ blocks' = Append(blocks, in)

\* Any private input; with other counts than these the circuit is not satisfied.
Counts == 0..(MaxFolds * TokensPerFold * Depth)

SingleFoldAny ==
    /\ Len(blocks) < MaxFolds
    /\ \E seed \in Seeds, count \in Counts, more \in 0..(TokensPerFold * Depth) :
       \E key \in [Depths -> WmKeys], ngrams \in [Places -> NGrams], tokens \in [Places -> Tokens] :
           SingleFold([seed |-> seed, count |-> count, output |-> count + more, key |-> key,
                       ngrams |-> ngrams, tokens |-> tokens])

\* folding_num folds are made; the proof is verified.
SingleFinished == Len(blocks) = MaxFolds /\ UNCHANGED singleVars

SingleNext == SingleFoldAny \/ SingleFinished

SingleSpec == SingleInit /\ [][SingleNext]_singleVars

---------------------------------------------------------------------------
\* step has three entries, the first of which commits to a count; what was folded are
\* private inputs.
SingleTypeOK ==
    /\ DOMAIN step = 0..2
    /\ \E seed \in Seeds, n \in Nat : step[0] = CommitCount(seed, n)
    /\ blocks \in Seq(SingleInputs)
    /\ Len(blocks) <= MaxFolds

\* Every fold of a proof is made with the random_seed of the start input: the chain of
\* commitments lets no other in.
OneSeed == \A f \in 1..Len(blocks) : blocks[f].seed = Seed

\* The private inputs run_test prepares before the first fold, each with a count that is
\* seq_len * depth more than the one before, satisfy the circuit whatever the tokens are.
Prepared(key, ngrams, tokens) ==
    [seed |-> Seed, count |-> Len(blocks) * TokensPerFold * Depth,
     output |-> (Len(blocks) + 1) * TokensPerFold * Depth,
     key |-> key, ngrams |-> ngrams, tokens |-> tokens]

PreparedInputsFit ==
    \A key \in [Depths -> WmKeys], ngrams \in [Places -> NGrams], tokens \in [Places -> Tokens] :
        SingleSatisfied(Prepared(key, ngrams, tokens))

\* The two digests the verifier sees determine every block folded, in order, however many
\* tokens a fold takes.
BothDigestsBind ==
    /\ DigestBinds(step[1], blocks, LAMBDA in : in.ngrams)
    /\ DigestBinds(step[2], blocks, LAMBDA in : in.tokens)
=============================================================================
