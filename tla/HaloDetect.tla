----------------------------- MODULE HaloDetect -----------------------------
(***************************************************************************)
(* The halo2 programs that prove a KGW detection, one run after the other. *)
(* A program reads its public inputs from a text file, counts the green    *)
(* tokens in plain Rust, assigns the circuit (a comparison per token and   *)
(* the chain of sums that adds their flags) and has MockProver compare     *)
(* what the circuit exposes with the counted public inputs.  The four      *)
(* programs differ in two flags:                                           *)
(*     v2    perToken, twoToOne          v2_1   perToken, three-to-one     *)
(*     v3    fixed,    twoToOne          v3_1   fixed,    three-to-one     *)
(* Key generation, the proof and its verification follow the check and are *)
(* the halo2 library's; they are not modelled.                             *)
(***************************************************************************)
EXTENDS GreenList

CONSTANT SummationNum   \* SUMMATION_NUM, the inputs of a row of the sum
ASSUME SummationAssumption == SummationNum \in Nat \ {0, 1}

VARIABLES prog,      \* the program: [perToken, twoToOne]
          file,      \* the lines of the input file
          maxToken,  \* --max-token-num
          pc,        \* where the run is
          line,      \* how many of its lines were read
          strings,   \* string_vec: the lines taken for thresholds
          tokens,    \* usize_vec: the lines that parsed as a token
          count,     \* greenlist_count, the first public input
          rows,      \* the comparisons of the circuit, one per token
          sums,      \* the rows of the summation chip
          at         \* `index' of the summation, from 1

proverVars == <<prog, file, maxToken, pc, line, strings, tokens, count, rows, sums, at>>

Programs == [perToken : BOOLEAN, twoToOne : BOOLEAN]
Lines == [kind : {"hash"}, val : Field] \cup [kind : {"token"}, val : Tokens]
             \cup [kind : {"blank"}, val : {0}]
Ended == {"panic", "unsatisfied", "success"}

ProverInit ==
    /\ prog = [perToken |-> FALSE, twoToOne |-> FALSE]
    /\ file = <<>> /\ maxToken = 0
    /\ pc = "idle"
    /\ strings = <<>> /\ tokens = <<>> /\ rows = <<>> /\ sums = <<>>
    /\ line = 0 /\ count = 0 /\ at = 1

\* A program is run on a file.
Start(p, f, m) ==
    /\ pc = "idle"
    /\ prog' = p /\ file' = f /\ maxToken' = m
    /\ pc' = "read"
    /\ UNCHANGED <<line, strings, tokens, count, rows, sums, at>>

-----------------------------------------------------------------------------
(***************************************************************************)
(* get_public_inputs_from_file splits the file by line number: the per     *)
(* token programs take the first maxToken lines as thresholds, whatever    *)
(* they hold, and the next maxToken + 1 as tokens; the fixed ones take the *)
(* first maxToken + 1 as tokens.  A line that does not parse is skipped    *)
(* and counts as read.                                                     *)
(***************************************************************************)
ThresholdLines == IF prog.perToken THEN maxToken ELSE 0
Reading == pc = "read" /\ line < Len(file) /\ line < ThresholdLines + maxToken + 1

TakeThreshold ==
    /\ Reading /\ line < ThresholdLines
    /\ strings' = Append(strings, file[line + 1])
    /\ line' = line + 1
    /\ UNCHANGED <<prog, file, maxToken, pc, tokens, count, rows, sums, at>>

TakeToken ==
    /\ Reading /\ line >= ThresholdLines
    /\ file[line + 1].kind = "token"
    /\ tokens' = Append(tokens, file[line + 1])
    /\ line' = line + 1
    /\ UNCHANGED <<prog, file, maxToken, pc, strings, count, rows, sums, at>>

\* Mutant: a line that does not parse becomes token 0.
SkipLineAsZero ==
    /\ Reading /\ line >= ThresholdLines
    /\ file[line + 1].kind # "token"
    /\ tokens' = Append(tokens, [kind |-> "token", val |-> 0])
    /\ line' = line + 1
    /\ UNCHANGED <<prog, file, maxToken, pc, strings, count, rows, sums, at>>

SkipLine ==
    /\ Reading /\ line >= ThresholdLines
    /\ file[line + 1].kind # "token"
    /\ line' = line + 1
    /\ UNCHANGED <<prog, file, maxToken, pc, strings, tokens, count, rows, sums, at>>

EndRead ==
    /\ pc = "read" /\ ~Reading
    /\ pc' = "count"
    /\ UNCHANGED <<prog, file, maxToken, line, strings, tokens, count, rows, sums, at>>

\* The i-th comparison: the token, the one before it, and its threshold.
Threshold(i) == IF prog.perToken THEN strings[i].val ELSE FixedThreshold
\* Mutant: the token is hashed before the one it follows.
HashBackwards(i) == FoldedHash(prog.twoToOne, tokens[i + 1].val, tokens[i].val)

Hash(i) == FoldedHash(prog.twoToOne, tokens[i].val, tokens[i + 1].val)

\* Every index the programs use is there; the first token is read even for maxToken = 0.
Complete == /\ maxToken > 0
            /\ Len(tokens) > maxToken
            /\ prog.perToken => Len(strings) >= maxToken

\* Mutant: a tie does not count.
CountedBelow(i) == Hash(i) < Threshold(i)

Counted(i) == Hash(i) <= Threshold(i)

\* count_greenlist_num, in plain Rust; a missing index panics.
CountGreen ==
    /\ pc = "count" /\ Complete
    /\ count' = Cardinality({i \in 1 .. maxToken : Counted(i)})
    /\ pc' = "assign"
    /\ UNCHANGED <<prog, file, maxToken, line, strings, tokens, rows, sums, at>>

CountPanics ==
    /\ pc = "count" /\ ~Complete
    /\ pc' = "panic"
    /\ UNCHANGED <<prog, file, maxToken, line, strings, tokens, count, rows, sums, at>>

-----------------------------------------------------------------------------
FieldSub(a, b) == IF a >= b THEN a - b ELSE a - b + Prime

\* A region of the comparison chip; its gate is on only where x1 < x2.
Comparison(x1, x2, flag) ==
    [x1 |-> x1, x2 |-> x2, flag |-> flag, diff |-> FieldSub(x1, x2), on |-> x1 < x2]

GateHolds(c) == c.on => /\ (c.x1 - c.x2 - c.diff + (1 - c.flag) * Pow253) % Prime = 0
                        /\ c.flag \in {0, 1}

LessFlag(i) == IF Hash(i) < Threshold(i) THEN 1 ELSE 0

\* The token's hash against the threshold, and back with the opposite flag.
TokenRow(i) ==
    [prev |-> tokens[i].val, token |-> tokens[i + 1].val,
     less |-> Comparison(Hash(i), Threshold(i), LessFlag(i)),
     greater |-> Comparison(Threshold(i), Hash(i), 1 - LessFlag(i))]

AssignTokens ==
    /\ pc = "assign"
    /\ rows' = [i \in 1 .. maxToken |-> TokenRow(i)]
    /\ pc' = "sum"
    /\ UNCHANGED <<prog, file, maxToken, line, strings, tokens, count, sums, at>>

-----------------------------------------------------------------------------
\* Mutant: the quotient is not rounded up.
RoundsDown(n) ==
    IF n <= SummationNum THEN 1 ELSE 1 + (n - SummationNum) \div (SummationNum - 1)

(***************************************************************************)
(* assign_multiple_value_and_summation: the first row adds SummationNum    *)
(* flags, every later one the sum so far and SummationNum - 1 more.        *)
(***************************************************************************)
Rounds(n) ==
    IF n <= SummationNum THEN 1
    ELSE LET rest == n - SummationNum
             full == rest \div (SummationNum - 1)
         IN  1 + (IF rest % (SummationNum - 1) # 0 THEN full + 1 ELSE full)

Ones(indices) == Cardinality({i \in indices : rows[i].less.flag = 1})

SumRow ==
    /\ pc = "sum" /\ Len(sums) < Rounds(maxToken)
    /\ LET width == IF sums = <<>> THEN SummationNum ELSE SummationNum - 1
           carry == IF sums = <<>> THEN 0 ELSE sums[Len(sums)].out
           taken == {i \in 1 .. maxToken : at <= i /\ i < at + width}
       IN  /\ sums' = Append(sums, [carry |-> carry, taken |-> taken, out |-> carry + Ones(taken)])
           /\ at' = at + width
    /\ UNCHANGED <<prog, file, maxToken, pc, line, strings, tokens, count, rows>>

\* The gate of the sum is on in its first row only.
SumGateHolds == sums[1].out = sums[1].carry + Ones(sums[1].taken)

PublicInputs == <<count, tokens[1].val, [i \in 1 .. maxToken |-> tokens[i + 1].val],
                  [i \in 1 .. maxToken |-> Threshold(i)]>>
Exposed == <<sums[Len(sums)].out, rows[1].prev, [i \in 1 .. maxToken |-> rows[i].token],
             [i \in 1 .. maxToken |-> rows[i].less.x2]>>

Satisfied == /\ \A i \in 1 .. maxToken : GateHolds(rows[i].less) /\ GateHolds(rows[i].greater)
             /\ SumGateHolds
             /\ PublicInputs = Exposed

\* Mutant: one round more is awaited.
CheckCircuitLate ==
    /\ pc = "sum" /\ Len(sums) > Rounds(maxToken)
    /\ pc' = IF Satisfied THEN "success" ELSE "unsatisfied"
    /\ UNCHANGED <<prog, file, maxToken, line, strings, tokens, count, rows, sums, at>>

\* MockProver::run and assert_satisfied, which panics on a failed constraint.
CheckCircuit ==
    /\ pc = "sum" /\ Len(sums) >= Rounds(maxToken)
    /\ pc' = IF Satisfied THEN "success" ELSE "unsatisfied"
    /\ UNCHANGED <<prog, file, maxToken, line, strings, tokens, count, rows, sums, at>>

ProverStep == \/ TakeThreshold \/ TakeToken \/ SkipLine \/ EndRead
              \/ CountGreen \/ CountPanics
              \/ AssignTokens \/ SumRow \/ CheckCircuit

ProverNext == /\ \/ \E p \in Programs, m \in Nat : \E f \in Seq(Lines) : Start(p, f, m)
                 \/ ProverStep
              /\ UNCHANGED oracle

ProverSpec == oracle \in Oracles /\ ProverInit /\ [][ProverNext]_<<proverVars, oracle>>

-----------------------------------------------------------------------------
\* The state is of the declared shape.
ProverTypeOK ==
    /\ prog \in Programs /\ file \in Seq(Lines) /\ maxToken \in Nat
    /\ pc \in {"idle", "read", "count", "assign", "sum"} \cup Ended
    /\ strings \in Seq(Lines) /\ tokens \in Seq([kind : {"token"}, val : Tokens])
    /\ line \in Nat /\ count \in Nat /\ at \in Nat

(***************************************************************************)
(* However many rows the sum needs, when the circuit is checked its last   *)
(* output is the number of flags of ALL tokens, none dropped at the edge   *)
(* of a row and none added twice through the carry                         *)
(* (assign_multiple_value_and_summation).                                  *)
(***************************************************************************)
SumsEveryFlag ==
    pc \in {"success", "unsatisfied"} => sums[Len(sums)].out = Ones(1 .. maxToken)

(***************************************************************************)
(* A run that read its file completely proves the count exactly when no    *)
(* folded hash equals its threshold: count_greenlist_num counts a hash     *)
(* <= the threshold while the circuit flags a hash < the threshold, so     *)
(* that a tie leaves a public count the circuit does not expose.           *)
(***************************************************************************)
AcceptedUnlessTie ==
    pc \in {"success", "unsatisfied"} =>
        (pc = "success" <=> \A i \in 1 .. maxToken : Hash(i) # Threshold(i))

(***************************************************************************)
(* The count an accepted run of a fixed three-to-one program exposes is    *)
(* the number of tokens whose hash is in the library's green list plus     *)
(* the number whose hash lies in [2^253, 2^253 + threshold): SubFp brings  *)
(* exactly those below the threshold.                                      *)
(***************************************************************************)
TokenOf(i) == TokenHash(FALSE, tokens[i].val, tokens[i + 1].val)
CountsGreenAndFolded ==
    pc = "success" /\ ~prog.perToken /\ ~prog.twoToOne =>
        count = Cardinality({i \in 1 .. maxToken : TokenOf(i) < FixedThreshold})
                + Cardinality({i \in 1 .. maxToken :
                      Pow253 <= TokenOf(i) /\ TokenOf(i) < Pow253 + FixedThreshold})
=============================================================================
