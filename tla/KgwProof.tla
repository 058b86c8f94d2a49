------------------------------ MODULE KgwProof ------------------------------
(***************************************************************************)
(* The way from a watermarked text to its halo2 proof: the processor       *)
(* generates, the detector scores, the text is written to the file of      *)
(* public inputs, and a prover program is run on it.  Writing the file is  *)
(* done by demo_watermark.py, outside the repository: it is modelled from  *)
(* what get_public_inputs_from_file expects, the thresholds of a per token *)
(* program first and the token ids after them, with at most one line that  *)
(* does not parse.  The programs hash with Poseidon, so that no text of    *)
(* the Poseidon2 backends reaches them.                                    *)
(***************************************************************************)
EXTENDS KgwProcessor, HaloDetect

vars == <<oracle, kgwVars, proverVars>>

Init == oracle \in Oracles /\ KgwInit /\ ProverInit

\* One blank line may have come in, before line `gap': at the front, before the last line of a
\* fixed program's tokens or the first of a per token program's, or at the end; 0 is for none.
TokenLines == [i \in 1 .. Len(text[1]) |-> [kind |-> "token", val |-> text[1][i]]]
WrittenThresholds == [i \in 1 .. Len(text[1]) - 1 |->
                         [kind |-> "hash", val |-> SortedThreshold(env.twoToOne, text[1][i])]]
Expected(perToken) == IF perToken THEN WrittenThresholds \o TokenLines ELSE TokenLines
Written(perToken, gap) ==
    LET lines == Expected(perToken)
    IN  IF gap = 0 THEN lines
        ELSE SubSeq(lines, 1, gap - 1) \o <<[kind |-> "blank", val |-> 0]>>
                 \o SubSeq(lines, gap, Len(lines))

\* The generating process is gone, and with it its settings, cache and score.
Exits ==
    /\ env' = [[flag \in DOMAIN env |-> FALSE] EXCEPT
                    !.twoToOne = env.twoToOne, !.cacheSize = 0, !.rows = 1]
    /\ gpuDisabled' = FALSE /\ cache' = <<>> /\ stage' = "exited" /\ score' = NoScore
    /\ UNCHANGED <<lists, bias, text>>
    /\ drawn' = [r \in Rows |-> <<>>]

Publish ==
    /\ stage = "scored" /\ env.rows = 1 /\ ~env.poseidon2
    /\ Exits
    /\ \E perToken \in BOOLEAN, m \in 0 .. Len(text[1]) :
         \E gap \in {0, 1, Len(text[1]), Len(Expected(perToken)) + 1} :
            Start([perToken |-> perToken, twoToOne |-> env.twoToOne], Written(perToken, gap), m)

Next ==
    \/ KgwNext /\ UNCHANGED proverVars
    \/ Publish /\ UNCHANGED oracle
    \/ ProverStep /\ UNCHANGED <<oracle, kgwVars>>

\* A prover program is one sequential process that runs on.
Spec == Init /\ [][Next]_vars /\ WF_vars(ProverStep /\ UNCHANGED <<oracle, kgwVars>>)

-----------------------------------------------------------------------------
\* Every variable has its type.
TypeOK ==
    /\ ProverTypeOK
    /\ oracle \in Oracles /\ env \in EnvType /\ gpuDisabled \in BOOLEAN
    /\ stage \in {"call", "sample", "done", "scored", "exited"}
    /\ \A i \in 1 .. Len(cache) : cache[i].key \in Backends \X Tokens

(***************************************************************************)
(* A run that comes past its count has read exactly the first maxToken + 1 *)
(* tokens of the text and, per token, the threshold that belongs to each:  *)
(* whatever --max-token-num and wherever a line that does not parse, a     *)
(* shifted or short file makes the program panic, never prove another text *)
(* (get_public_inputs_from_file).                                          *)
(***************************************************************************)
ProvesOwnText ==
    pc \in {"assign", "sum", "success", "unsatisfied"} =>
        \A i \in 1 .. maxToken + 1 :
            /\ i <= Len(text[1]) /\ tokens[i].val = text[1][i]
            /\ prog.perToken /\ i <= maxToken =>
                   strings[i].val = SortedThreshold(prog.twoToOne, text[1][i])

(***************************************************************************)
(* The count a proof exposes is the number of tokens that the watermark's  *)
(* own fixed lists call green, which is what the detector counts on the    *)
(* same tokens (halo2/README.md, "provide proof of detection correctness").*)
(***************************************************************************)
CountsAgree ==
    pc = "success" /\ ~prog.perToken =>
        count = Cardinality({i \in 1 .. maxToken : IsGreen(text[1][i], text[1][i + 1])})

\* The list a program is about: the sorted one whose threshold it takes from the
\* file, or the fixed one of the watermark and of the detector.
Listed(prev, token) ==
    IF prog.perToken THEN token \in SortedGreenList(env.twoToOne, prev) ELSE IsGreen(prev, token)

(***************************************************************************)
(* What a proof does show: where the fold of SubFp changes no hash of the  *)
(* text, the count that went through the file, the plain count, the        *)
(* comparisons and the sum is the number of tokens of the published text   *)
(* in the library's lists (halo2/README.md, "proof of detection            *)
(* correctness"), ties and a wrong --max-token-num included.               *)
(***************************************************************************)
FoldKeeps(prev, token) ==
    FoldedHash(env.twoToOne, prev, token) = TokenHash(env.twoToOne, prev, token)
CountsListedTokens ==
    pc = "success" /\ (\A i \in 1 .. maxToken : FoldKeeps(text[1][i], text[1][i + 1])) =>
        count = Cardinality({i \in 1 .. maxToken : Listed(text[1][i], text[1][i + 1])})

\* Every prover run ends: with a proof, an unsatisfied circuit or a panic.
RunEnds == (pc = "read") ~> (pc \in Ended)
=============================================================================
