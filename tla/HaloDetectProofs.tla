-------------------------- MODULE HaloDetectProofs --------------------------
(***************************************************************************)
(* Proofs about HaloDetect for every field, hash table, file, number of    *)
(* tokens and width of the sum: type correctness, that the chain of sums   *)
(* adds every flag, and what count an accepted run exposes.                *)
(***************************************************************************)
EXTENDS HaloDetect, FiniteSetTheorems, TLAPS

-----------------------------------------------------------------------------
\* Euclid's division, as the provers have it.
LEMMA Euclid ==
    ASSUME NEW n \in Nat, NEW d \in Nat \ {0}
    PROVE  /\ n \div d \in Nat
           /\ n % d \in 0 .. d - 1
           /\ n = d * (n \div d) + (n % d)
  OBVIOUS

\* The rows of the sum have room for every flag.
LEMMA RoundsReach ==
    ASSUME NEW n \in Nat
    PROVE  /\ Rounds(n) \in Nat \ {0}
           /\ n <= SummationNum + (Rounds(n) - 1) * (SummationNum - 1)
  <1> DEFINE d == SummationNum - 1
             rest == n - SummationNum
  <1>1. d \in Nat \ {0} /\ SummationNum \in Nat
    BY SummationAssumption
  <1>2. CASE n <= SummationNum
    BY <1>1, <1>2 DEF Rounds
  <1>3. CASE n > SummationNum
    <2> DEFINE full == rest \div d
               left == rest % d
    <2>1. rest \in Nat
      BY <1>1, <1>3
    <2>2. full \in Nat /\ left \in 0 .. d - 1 /\ rest = d * full + left
      BY <1>1, <2>1, Euclid
    <2>3. Rounds(n) = 1 + (IF left # 0 THEN full + 1 ELSE full)
      BY <1>3, <1>1 DEF Rounds
    <2> HIDE DEF full, left
    <2>4. CASE left = 0
      <3>1. (Rounds(n) - 1) * d = rest
        BY <2>2, <2>3, <2>4, <1>1
      <3> QED
        BY <3>1, <2>2, <2>3, <2>4, <1>1
    <2>5. CASE left # 0
      <3>1. Rounds(n) - 1 = full + 1
        BY <2>2, <2>3, <2>5
      <3>2. (full + 1) * d = d * full + d
        BY <2>2, <1>1
      <3> QED
        BY <3>1, <3>2, <2>2, <2>3, <2>5, <1>1
    <2> QED
      BY <2>4, <2>5
  <1> QED
    BY <1>1, <1>2, <1>3

\* A threshold is a natural below 2^253.
LEMMA ThresholdBound == FixedThreshold \in Nat /\ FixedThreshold < Pow253
  <1> DEFINE q == Prime \div GammaInv
  <1>1. q \in Nat /\ Prime % GammaInv \in Nat /\ Prime = GammaInv * q + (Prime % GammaInv)
    BY Euclid, FieldAssumption
  <1> HIDE DEF q
  <1>2. 2 * q <= GammaInv * q
    BY <1>1, FieldAssumption
  <1> QED
    BY <1>1, <1>2, FieldAssumption DEF FixedThreshold, q

\* The thresholds and hashes that are compared are integers.
LEMMA FoldBelow ==
    ASSUME NEW v \in Field
    PROVE  /\ SubFp(v) \in Field
           /\ SubFp(v) < FixedThreshold <=>
                  \/ v < FixedThreshold
                  \/ Pow253 <= v /\ v < Pow253 + FixedThreshold
  BY ThresholdBound, FieldAssumption DEF SubFp, Field

LEMMA FoldedHashType ==
    ASSUME oracle \in Oracles, NEW prev \in Tokens, NEW token \in Tokens, NEW twoToOne \in BOOLEAN
    PROVE  FoldedHash(twoToOne, prev, token) \in Field
  <1>1. oracle.two[SubFp(oracle.seed[prev])][token] \in Field
    <2>1. oracle.seed[prev] \in Field /\ oracle.two \in [Field -> [Tokens -> Field]]
      BY OraclesAssumption
    <2> QED
      BY <2>1, FoldBelow
  <1>2. oracle.three[prev][token] \in Field
    BY OraclesAssumption
  <1> QED
    BY <1>1, <1>2, FoldBelow DEF FoldedHash

-----------------------------------------------------------------------------
(***************************************************************************)
(* The inductive invariant.  What a step needs to know of the earlier ones *)
(* is in the sum: how far it has come (SumAt) and what it has added        *)
(* (SumOut).                                                               *)
(***************************************************************************)
Past == {"assign", "sum", "success", "unsatisfied"}
Checked == {"success", "unsatisfied"}

SumRecords == [carry : Nat, taken : SUBSET Nat, out : Nat]

SumAt == at = IF sums = <<>> THEN 1 ELSE 1 + SummationNum + (Len(sums) - 1) * (SummationNum - 1)

SumOut == sums # <<>> => /\ sums[Len(sums)].out = Ones({i \in 1 .. maxToken : i < at})
                         /\ SumGateHolds

Inv == /\ oracle \in Oracles
       /\ ProverTypeOK
       /\ sums \in Seq(SumRecords)
       /\ pc \notin Checked \cup {"sum"} => sums = <<>>
       /\ pc \in Past => /\ Complete
                         /\ count = Cardinality({i \in 1 .. maxToken : Counted(i)})
       /\ pc \in Checked \cup {"sum"} => rows = [i \in 1 .. maxToken |-> TokenRow(i)]
       /\ SumAt
       /\ SumOut
       /\ pc \in Checked => /\ Len(sums) >= Rounds(maxToken)
                            /\ pc = "success" <=> Satisfied

LEMMA InitInv == oracle \in Oracles /\ ProverInit => Inv
  BY DEF ProverInit, Inv, ProverTypeOK, Programs, Checked, Past, SumAt, SumOut

\* The flags of two disjoint sets of tokens add up.
LEMMA OnesSplit ==
    ASSUME NEW low, NEW high, IsFiniteSet(low), IsFiniteSet(high), low \cap high = {}
    PROVE  /\ Ones(low) \in Nat /\ Ones(high) \in Nat
           /\ Ones(low \cup high) = Ones(low) + Ones(high)
  <1> DEFINE Set(s) == {i \in s : rows[i].less.flag = 1}
  <1>1. IsFiniteSet(Set(low)) /\ IsFiniteSet(Set(high))
    BY FS_Subset
  <1>2. Set(low \cup high) = Set(low) \cup Set(high) /\ Set(low) \cap Set(high) = {}
    OBVIOUS
  <1>3. \A s : Ones(s) = Cardinality(Set(s))
    BY DEF Ones
  <1> HIDE DEF Set
  <1>4. Cardinality(Set(low)) \in Nat /\ Cardinality(Set(high)) \in Nat
    BY <1>1, FS_CardinalityType
  <1>5. Cardinality(Set(low) \cup Set(high)) = Cardinality(Set(low)) + Cardinality(Set(high))
    BY <1>1, <1>2, <1>4, FS_Union, FS_EmptySet
  <1> QED
    BY <1>2, <1>3, <1>4, <1>5

\* What was read, hashed and compared does not change after the file is read.
LEMMA SameReading ==
    ASSUME UNCHANGED <<prog, maxToken, strings, tokens, oracle>>
    PROVE  /\ Complete' <=> Complete
           /\ \A i : /\ Hash(i)' = Hash(i)
                    /\ Threshold(i)' = Threshold(i)
                    /\ Counted(i)' <=> Counted(i)
                    /\ TokenRow(i)' = TokenRow(i)
           /\ {i \in 1 .. maxToken : Counted(i)}' = {i \in 1 .. maxToken : Counted(i)}
           /\ [i \in 1 .. maxToken |-> TokenRow(i)]' = [i \in 1 .. maxToken |-> TokenRow(i)]
  <1>1. Complete' <=> Complete
    BY DEF Complete
  <1>2. \A t, p, c : FoldedHash(t, p, c)' = FoldedHash(t, p, c)
    BY DEF FoldedHash
  <1>3. \A i : Hash(i)' = Hash(i) /\ Threshold(i)' = Threshold(i)
    BY <1>2 DEF Hash, Threshold
  <1>4. \A i : Counted(i)' <=> Counted(i)
    BY <1>3 DEF Counted
  <1>5. \A i : TokenRow(i)' = TokenRow(i)
    BY <1>3 DEF TokenRow, LessFlag
  <1> QED
    BY <1>1, <1>3, <1>4, <1>5

\* One more row of the sum.
LEMMA SumRowInv == Inv /\ SumRow /\ UNCHANGED oracle => Inv'
  <1> SUFFICES ASSUME Inv, SumRow, UNCHANGED oracle PROVE Inv'
    OBVIOUS
  <1> DEFINE width == IF sums = <<>> THEN SummationNum ELSE SummationNum - 1
             carry == IF sums = <<>> THEN 0 ELSE sums[Len(sums)].out
             taken == {i \in 1 .. maxToken : at <= i /\ i < at + width}
             row == [carry |-> carry, taken |-> taken, out |-> carry + Ones(taken)]
  <1>1. /\ pc = "sum" /\ sums' = Append(sums, row) /\ at' = at + width
        /\ UNCHANGED <<prog, file, maxToken, pc, line, strings, tokens, count, rows, oracle>>
    BY DEF SumRow
  <1>2. /\ maxToken \in Nat /\ at \in Nat /\ width \in Nat
        /\ sums \in Seq(SumRecords) /\ Len(sums) \in Nat
    BY SummationAssumption DEF Inv, ProverTypeOK
  <1>3. carry = Ones({i \in 1 .. maxToken : i < at})
    <2>1. CASE sums = <<>>
      <3>1. {i \in {j \in 1 .. maxToken : j < at} : rows[i].less.flag = 1} = {}
        BY <2>1, <1>2 DEF Inv, SumAt
      <3> QED
        BY <3>1, <2>1, FS_EmptySet DEF Ones
    <2>2. CASE sums # <<>>
      BY <2>2 DEF Inv, SumOut
    <2> QED
      BY <2>1, <2>2
  <1>4. /\ Ones(taken) \in Nat /\ carry \in Nat
        /\ Ones({i \in 1 .. maxToken : i < at + width}) = carry + Ones(taken)
    <2> DEFINE low == {i \in 1 .. maxToken : i < at}
               upTo == {i \in 1 .. maxToken : i < at + width}
    <2>1. upTo = low \cup taken /\ low \cap taken = {}
      BY <1>2
    <2>2. IsFiniteSet(low) /\ IsFiniteSet(taken)
      <3>1. IsFiniteSet(1 .. maxToken)
        BY <1>2, FS_Interval
      <3> QED
        BY <3>1, FS_Subset
    <2> HIDE DEF low, taken, carry
    <2>3. Ones(low) \in Nat /\ Ones(taken) \in Nat /\ Ones(low \cup taken) = Ones(low) + Ones(taken)
      BY <2>1, <2>2, OnesSplit
    <2> QED
      BY <1>3, <2>1, <2>3 DEF low
  <1>5. row \in SumRecords
    BY <1>4 DEF SumRecords
  <1> HIDE DEF row, taken, carry
  <1>6. sums' \in Seq(SumRecords) /\ Len(sums') = Len(sums) + 1 /\ sums'[Len(sums')] = row
    BY <1>1, <1>2, <1>5
  <1>7. SumAt'
    <2>1. SumAt /\ sums' # <<>>
      BY <1>1, <1>2 DEF Inv
    <2>2. CASE sums = <<>>
      BY <2>1, <2>2, <1>1, <1>2, <1>6, SummationAssumption DEF SumAt
    <2>3. CASE sums # <<>>
      <3>1. at' = 1 + SummationNum + (Len(sums) - 1) * (SummationNum - 1) + (SummationNum - 1)
        BY <2>1, <2>3, <1>1 DEF SumAt
      <3>2. (Len(sums) - 1) * (SummationNum - 1) + (SummationNum - 1) = Len(sums) * (SummationNum - 1)
        BY <1>2, SummationAssumption
      <3>3. (Len(sums) - 1) * (SummationNum - 1) \in Int /\ Len(sums) * (SummationNum - 1) \in Int
        BY <1>2, SummationAssumption
      <3> QED
        BY <3>1, <3>2, <3>3, <2>1, <1>2, <1>6, SummationAssumption DEF SumAt
    <2> QED
      BY <2>2, <2>3
  <1>8. SumOut'
    <2>1. sums'[Len(sums')].out = Ones({i \in 1 .. maxToken : i < at + width})
      BY <1>4, <1>6 DEF row
    <2>2. sums'[1].out = sums'[1].carry + Ones(sums'[1].taken)
      <3>1. CASE sums = <<>>
        BY <3>1, <1>1, <1>2 DEF row
      <3>2. CASE sums # <<>>
        <4>1. sums'[1] = sums[1]
          BY <3>2, <1>1, <1>2
        <4> QED
          BY <4>1, <3>2 DEF Inv, SumOut, SumGateHolds
      <3> QED
        BY <3>1, <3>2
    <2>3. UNCHANGED <<maxToken, rows>>
      BY <1>1
    <2> QED
      BY <2>1, <2>2, <2>3, <1>1 DEF SumOut, SumGateHolds, Ones
  <1> QED
    <2>1. ProverTypeOK'
      BY <1>1, <1>2 DEF Inv, ProverTypeOK
    <2>2. pc' \notin Checked /\ pc' \in Past /\ pc' = "sum"
      BY <1>1 DEF Checked, Past
    <2>3. /\ Complete' /\ count' = Cardinality({i \in 1 .. maxToken' : Counted(i)'})
          /\ rows' = [i \in 1 .. maxToken' |-> TokenRow(i)']
      <3>1. pc \in Past /\ pc \in Checked \cup {"sum"}
        BY <1>1 DEF Past
      <3> QED
        BY <3>1, <1>1, SameReading DEF Inv
    <2> QED
      BY <1>1, <1>6, <1>7, <1>8, <2>1, <2>2, <2>3 DEF Inv

\* The verdict does not depend on pc.
LEMMA SameVerdict ==
    ASSUME UNCHANGED <<prog, maxToken, strings, tokens, oracle, count, rows, sums>>
    PROVE  Satisfied' <=> Satisfied
  <1>1. PublicInputs' = PublicInputs
    BY DEF PublicInputs, Threshold
  <1>2. Exposed' = Exposed /\ (SumGateHolds' <=> SumGateHolds)
    BY DEF Exposed, SumGateHolds, Ones
  <1>3. \A i : /\ GateHolds(rows[i].less)' <=> GateHolds(rows[i].less)
             /\ GateHolds(rows[i].greater)' <=> GateHolds(rows[i].greater)
    BY DEF GateHolds
  <1> QED
    BY <1>1, <1>2, <1>3 DEF Satisfied

\* A step of the prover keeps the invariant.
LEMMA NextInv == Inv /\ [ProverNext]_<<proverVars, oracle>> => Inv'
  <1> SUFFICES ASSUME Inv, [ProverNext]_<<proverVars, oracle>> PROVE Inv'
    OBVIOUS
  <1> USE DEF Past, Checked
  <1>1. ASSUME NEW p \in Programs, NEW m \in Nat, NEW f \in Seq(Lines), Start(p, f, m), UNCHANGED oracle
        PROVE  Inv'
    <2>1. pc = "idle" /\ pc' = "read" /\ sums = <<>> /\ sums' = <<>> /\ UNCHANGED at
      BY <1>1 DEF Start, Inv
    <2>2. ProverTypeOK'
      BY <1>1 DEF Start, Inv, ProverTypeOK, Ended
    <2> QED
      BY <1>1, <2>1, <2>2 DEF Inv, SumAt, SumOut
  <1>2. ASSUME TakeThreshold \/ TakeToken \/ SkipLine, UNCHANGED oracle
        PROVE  Inv'
    <2>1. pc = "read" /\ pc' = "read" /\ sums = <<>> /\ sums' = <<>> /\ UNCHANGED at
      BY <1>2 DEF TakeThreshold, TakeToken, SkipLine, Reading, Inv
    <2>2. line + 1 \in 1 .. Len(file) /\ file[line + 1] \in Lines
      BY <1>2 DEF TakeThreshold, TakeToken, SkipLine, Reading, Inv, ProverTypeOK
    <2>3. ProverTypeOK'
      <3>1. CASE TakeThreshold
        BY <2>2, <3>1 DEF TakeThreshold, Inv, ProverTypeOK
      <3>2. CASE TakeToken
        <4>1. file[line + 1] \in [kind : {"token"}, val : Tokens]
          BY <2>2, <3>2 DEF TakeToken, Lines
        <4> QED
          BY <2>2, <3>2, <4>1 DEF TakeToken, Inv, ProverTypeOK
      <3>3. CASE SkipLine
        BY <3>3 DEF SkipLine, Inv, ProverTypeOK
      <3> QED
        BY <1>2, <3>1, <3>2, <3>3
    <2> QED
      BY <1>2, <2>1, <2>3 DEF Inv, SumAt, SumOut
  <1>3. ASSUME EndRead \/ CountPanics, UNCHANGED oracle
        PROVE  Inv'
    <2>1. pc' \in {"count", "panic"} /\ sums = <<>> /\ sums' = <<>> /\ UNCHANGED at
      BY <1>3 DEF EndRead, CountPanics, Inv
    <2>2. ProverTypeOK'
      BY <1>3, <2>1 DEF EndRead, CountPanics, Inv, ProverTypeOK, Ended
    <2> QED
      BY <1>3, <2>1, <2>2 DEF Inv, SumAt, SumOut
  <1>4. ASSUME CountGreen, UNCHANGED oracle
        PROVE  Inv'
    <2>1. /\ pc = "count" /\ pc' = "assign" /\ sums = <<>> /\ sums' = <<>> /\ UNCHANGED at
          /\ UNCHANGED <<prog, file, maxToken, line, strings, tokens, oracle>>
      BY <1>4 DEF CountGreen, Inv
    <2>2. Complete' /\ count' = Cardinality({i \in 1 .. maxToken : Counted(i)}')
      BY <1>4, <2>1, SameReading DEF CountGreen
    <2>3. count' \in Nat
      <3>1. IsFiniteSet(1 .. maxToken)
        BY FS_Interval DEF Inv, ProverTypeOK
      <3>2. IsFiniteSet({i \in 1 .. maxToken : Counted(i)})
        BY <3>1, FS_Subset
      <3> QED
        BY <1>4, <3>2, FS_CardinalityType DEF CountGreen
    <2>4. ProverTypeOK'
      BY <2>1, <2>3 DEF Inv, ProverTypeOK
    <2> QED
      BY <2>1, <2>2, <2>4 DEF Inv, SumAt, SumOut
  <1>5. ASSUME AssignTokens, UNCHANGED oracle
        PROVE  Inv'
    <2>1. /\ pc = "assign" /\ pc' = "sum" /\ sums = <<>> /\ sums' = <<>> /\ UNCHANGED at
          /\ UNCHANGED <<prog, file, maxToken, line, strings, tokens, count, oracle>>
      BY <1>5 DEF AssignTokens, Inv
    <2>2. /\ Complete' /\ count' = Cardinality({i \in 1 .. maxToken : Counted(i)}')
          /\ rows' = [i \in 1 .. maxToken |-> TokenRow(i)]'
      BY <1>5, <2>1, SameReading DEF AssignTokens, Inv
    <2>3. ProverTypeOK'
      BY <2>1 DEF Inv, ProverTypeOK
    <2> QED
      BY <2>1, <2>2, <2>3 DEF Inv, SumAt, SumOut
  <1>6. ASSUME SumRow, UNCHANGED oracle
        PROVE  Inv'
    BY <1>6, SumRowInv
  <1>7. ASSUME CheckCircuit, UNCHANGED oracle
        PROVE  Inv'
    <2>1. /\ pc = "sum" /\ pc' = IF Satisfied THEN "success" ELSE "unsatisfied"
          /\ UNCHANGED <<prog, file, maxToken, line, strings, tokens, count, rows, sums, at, oracle>>
      BY <1>7 DEF CheckCircuit
    <2>2. /\ Complete' /\ count' = Cardinality({i \in 1 .. maxToken : Counted(i)}')
          /\ rows' = [i \in 1 .. maxToken |-> TokenRow(i)]'
      BY <2>1, SameReading DEF Inv
    <2>3. ProverTypeOK'
      BY <2>1 DEF Inv, ProverTypeOK, Ended
    <2>4. SumAt' /\ SumOut' /\ sums' \in Seq(SumRecords)
      BY <2>1 DEF Inv, SumAt, SumOut, SumGateHolds, Ones
    <2>5. Len(sums') >= Rounds(maxToken') /\ (pc' = "success" <=> Satisfied')
      BY <1>7, <2>1, SameVerdict DEF CheckCircuit
    <2> QED
      BY <2>1, <2>2, <2>3, <2>4, <2>5 DEF Inv
  <1>8. ASSUME UNCHANGED <<proverVars, oracle>>
        PROVE  Inv'
    <2>1. UNCHANGED <<prog, file, maxToken, pc, line, strings, tokens, count, rows, sums, at, oracle>>
      BY <1>8 DEF proverVars
    <2>2. ProverTypeOK' /\ SumAt' /\ SumOut' /\ sums' \in Seq(SumRecords)
      BY <2>1 DEF Inv, ProverTypeOK, SumAt, SumOut, SumGateHolds, Ones
    <2> QED
      BY <2>1, <2>2, SameReading, SameVerdict DEF Inv
  <1> QED
    BY <1>1, <1>2, <1>3, <1>4, <1>5, <1>6, <1>7, <1>8 DEF ProverNext, ProverStep

-----------------------------------------------------------------------------
\* The sum has passed the last token when the circuit is checked.
LEMMA SumsAll == Inv => SumsEveryFlag
  <1> SUFFICES ASSUME Inv, pc \in Checked
               PROVE  sums[Len(sums)].out = Ones(1 .. maxToken)
    BY DEF SumsEveryFlag, Checked
  <1> DEFINE n == maxToken
             r == Rounds(n)
             d == SummationNum - 1
             k == Len(sums)
  <1>1. n \in Nat /\ d \in Nat \ {0} /\ k \in Nat /\ at \in Nat /\ SummationNum \in Nat
    BY SummationAssumption DEF Inv, ProverTypeOK
  <1>2. r \in Nat \ {0} /\ n <= SummationNum + (r - 1) * d
    BY <1>1, RoundsReach
  <1>3. k >= r /\ sums # <<>>
    BY <1>2 DEF Inv
  <1>4. at = 1 + SummationNum + (k - 1) * d
    BY <1>3 DEF Inv, SumAt
  <1> HIDE DEF n, r, d, k
  <1>5. (r - 1) * d <= (k - 1) * d
    <2>1. PICK e \in Nat : k - 1 = (r - 1) + e
      <3>1. k - r \in Nat /\ k - 1 = (r - 1) + (k - r)
        BY <1>1, <1>2, <1>3
      <3> QED
        BY <3>1
    <2>2. (k - 1) * d = (r - 1) * d + e * d /\ e * d \in Nat /\ (r - 1) * d \in Nat
      BY <1>1, <1>2, <2>1
    <2> QED
      BY <2>2
  <1>6. (r - 1) * d \in Int /\ (k - 1) * d \in Int
    BY <1>1, <1>2
  <1>7. n < at
    BY <1>1, <1>2, <1>4, <1>5, <1>6
  <1>8. {i \in 1 .. maxToken : i < at} = 1 .. maxToken
    BY <1>1, <1>7 DEF n
  <1> QED
    BY <1>3, <1>8 DEF Inv, SumOut

\* The hash and the threshold of a token that is compared are integers.
LEMMA ComparedType ==
    ASSUME Inv, pc \in Past, NEW i \in 1 .. maxToken
    PROVE  /\ tokens[i].val \in Tokens /\ tokens[i + 1].val \in Tokens
           /\ Hash(i) \in Field /\ Hash(i) \in Nat /\ Threshold(i) \in Nat
  <1>1. /\ maxToken \in Nat /\ Len(tokens) > maxToken
        /\ tokens \in Seq([kind : {"token"}, val : Tokens]) /\ strings \in Seq(Lines)
        /\ prog.perToken => Len(strings) >= maxToken
    BY DEF Inv, ProverTypeOK, Complete
  <1>2. i \in 1 .. Len(tokens) /\ i + 1 \in 1 .. Len(tokens)
    BY <1>1
  <1>3. tokens[i].val \in Tokens /\ tokens[i + 1].val \in Tokens
    <2> DEFINE T == [kind : {"token"}, val : Tokens]
    <2>1. \A l \in T : l.val \in Tokens
      OBVIOUS
    <2>2. tokens \in Seq(T)
      BY <1>1
    <2> HIDE DEF T
    <2>3. tokens[i] \in T /\ tokens[i + 1] \in T
      BY <1>2, <2>2
    <2> QED
      BY <2>1, <2>3
  <1>4. prog.twoToOne \in BOOLEAN
    BY DEF Inv, ProverTypeOK, Programs
  <1>5. Hash(i) \in Field
    BY <1>3, <1>4, FoldedHashType DEF Hash, Inv
  <1>6. Threshold(i) \in Nat
    <2>1. CASE prog.perToken
      <3>1. strings[i] \in Lines
        BY <1>1, <2>1
      <3>2. strings[i].val \in Field \cup Tokens \cup {0}
        BY <3>1 DEF Lines
      <3>3. Field \cup Tokens \cup {0} \subseteq Nat
        BY FieldAssumption, TokensAssumption DEF Field
      <3>4. Threshold(i) = strings[i].val
        BY <2>1 DEF Threshold
      <3> QED
        BY <3>2, <3>3, <3>4
    <2>2. CASE ~prog.perToken
      BY <2>2, ThresholdBound DEF Threshold
    <2> QED
      BY <2>1, <2>2
  <1> QED
    BY <1>3, <1>5, <1>6, FieldAssumption DEF Field

\* A comparison whose flag is right satisfies its gate.
LEMMA GateOfComparison ==
    ASSUME NEW x1 \in Int, NEW x2 \in Int, NEW flag, x1 < x2 => flag = 1
    PROVE  GateHolds(Comparison(x1, x2, flag))
  <1> DEFINE c == Comparison(x1, x2, flag)
  <1>1. c.x1 = x1 /\ c.x2 = x2 /\ c.flag = flag /\ c.diff = FieldSub(x1, x2) /\ c.on = (x1 < x2)
    BY DEF Comparison
  <1>2. Prime \in Nat \ {0} /\ Pow253 \in Nat
    BY FieldAssumption
  <1> HIDE DEF c
  <1>3. ASSUME x1 < x2
        PROVE  (c.x1 - c.x2 - c.diff + (1 - c.flag) * Pow253) % Prime = 0 /\ c.flag \in {0, 1}
    <2>1. c.flag = 1
      BY <1>1, <1>3
    <2>2. c.diff = x1 - x2 + Prime
      BY <1>1, <1>2, <1>3 DEF FieldSub
    <2>3. c.x1 - c.x2 - c.diff + (1 - c.flag) * Pow253 = (-1) * Prime
      BY <1>1, <1>2, <2>1, <2>2
    <2>4. ((-1) * Prime) % Prime = 0
      BY <1>2
    <2> QED
      BY <2>1, <2>3, <2>4
  <1> QED
    BY <1>1, <1>3 DEF GateHolds, c

\* Every gate of the circuit holds; what can fail is the exposed count.
LEMMA VerdictIsCount ==
    ASSUME Inv, pc \in Checked
    PROVE  Satisfied <=> count = sums[Len(sums)].out
  <1>1. /\ rows = [i \in 1 .. maxToken |-> TokenRow(i)]
        /\ maxToken \in Nat \ {0} /\ pc \in Past
    BY DEF Inv, Checked, Past, Complete, ProverTypeOK
  <1>2. ASSUME NEW i \in 1 .. maxToken
        PROVE  GateHolds(rows[i].less) /\ GateHolds(rows[i].greater)
    <2>1. Hash(i) \in Int /\ Threshold(i) \in Int
      BY <1>1, ComparedType
    <2>2. /\ rows[i].less = Comparison(Hash(i), Threshold(i), LessFlag(i))
          /\ rows[i].greater = Comparison(Threshold(i), Hash(i), 1 - LessFlag(i))
      BY <1>1 DEF TokenRow
    <2>3. /\ Hash(i) < Threshold(i) => LessFlag(i) = 1
          /\ Threshold(i) < Hash(i) => 1 - LessFlag(i) = 1
      BY <2>1 DEF LessFlag
    <2> QED
      BY <2>1, <2>2, <2>3, GateOfComparison
  <1>3. SumGateHolds
    BY RoundsReach DEF Inv, SumOut, ProverTypeOK
  <1>4. \A i \in 1 .. maxToken : /\ rows[i].prev = tokens[i].val
                                /\ rows[i].token = tokens[i + 1].val
                                /\ rows[i].less.x2 = Threshold(i)
    BY <1>1 DEF TokenRow, Comparison
  <1>5. PublicInputs = Exposed <=> count = sums[Len(sums)].out
    <2>1. rows[1].prev = tokens[1].val
      BY <1>1, <1>4
    <2>2. [i \in 1 .. maxToken |-> rows[i].token] = [i \in 1 .. maxToken |-> tokens[i + 1].val]
      BY <1>4
    <2>3. [i \in 1 .. maxToken |-> rows[i].less.x2] = [i \in 1 .. maxToken |-> Threshold(i)]
      BY <1>4
    <2> QED
      BY <2>1, <2>2, <2>3 DEF PublicInputs, Exposed
  <1> QED
    BY <1>2, <1>3, <1>5 DEF Satisfied

\* The exposed sum is the number of hashes below their threshold.
LEMMA SumIsLess ==
    ASSUME Inv, pc \in Checked
    PROVE  sums[Len(sums)].out = Cardinality({i \in 1 .. maxToken : Hash(i) < Threshold(i)})
  <1>1. \A i \in 1 .. maxToken : rows[i].less.flag = 1 <=> Hash(i) < Threshold(i)
    <2> TAKE i \in 1 .. maxToken
    <2>1. rows[i] = TokenRow(i)
      BY DEF Inv, Checked
    <2>2. rows[i].less = Comparison(Hash(i), Threshold(i), LessFlag(i))
      BY <2>1 DEF TokenRow
    <2>3. rows[i].less.flag = LessFlag(i)
      BY <2>2 DEF Comparison
    <2> QED
      BY <2>3 DEF LessFlag
  <1>2. {i \in 1 .. maxToken : rows[i].less.flag = 1} = {i \in 1 .. maxToken : Hash(i) < Threshold(i)}
    BY <1>1
  <1> QED
    BY <1>2, SumsAll DEF SumsEveryFlag, Checked, Ones

LEMMA AcceptedInv == Inv => AcceptedUnlessTie
  <1> SUFFICES ASSUME Inv, pc \in Checked
               PROVE  pc = "success" <=> \A i \in 1 .. maxToken : Hash(i) # Threshold(i)
    BY DEF AcceptedUnlessTie, Checked
  <1> DEFINE AtMost == {i \in 1 .. maxToken : Counted(i)}
             Less == {i \in 1 .. maxToken : Hash(i) < Threshold(i)}
  <1>1. pc \in Past
    BY DEF Checked, Past
  <1>2. pc = "success" <=> Cardinality(AtMost) = Cardinality(Less)
    BY <1>1, VerdictIsCount, SumIsLess DEF Inv
  <1>3. \A i \in 1 .. maxToken : Hash(i) \in Nat /\ Threshold(i) \in Nat
    BY <1>1, ComparedType
  <1>4. Less \in SUBSET AtMost
    BY <1>3 DEF Counted
  <1>5. AtMost = Less <=> \A i \in 1 .. maxToken : Hash(i) # Threshold(i)
    BY <1>3 DEF Counted
  <1>6. IsFiniteSet(AtMost)
    <2>1. IsFiniteSet(1 .. maxToken)
      BY FS_Interval DEF Inv, ProverTypeOK
    <2> QED
      BY <2>1, FS_Subset
  <1> HIDE DEF AtMost, Less
  <1>7. Cardinality(AtMost) = Cardinality(Less) <=> AtMost = Less
    BY <1>4, <1>6, FS_Subset
  <1> QED
    BY <1>2, <1>5, <1>7

\* Without a tie the count is that of the hashes below the threshold, folded.
LEMMA FoldedInv == Inv => CountsGreenAndFolded
  <1> DEFINE Low == {i \in 1 .. maxToken : TokenOf(i) < FixedThreshold}
             Band == {i \in 1 .. maxToken :
                         Pow253 <= TokenOf(i) /\ TokenOf(i) < Pow253 + FixedThreshold}
             Less == {i \in 1 .. maxToken : Hash(i) < Threshold(i)}
  <1> SUFFICES ASSUME Inv, pc = "success", ~prog.perToken, ~prog.twoToOne
               PROVE  count = Cardinality(Low) + Cardinality(Band)
    BY DEF CountsGreenAndFolded
  <1>1. pc \in Past /\ pc \in Checked
    BY DEF Past, Checked
  <1>2. count = Cardinality(Less)
    BY <1>1, VerdictIsCount, SumIsLess DEF Inv
  <1>3. ASSUME NEW i \in 1 .. maxToken
        PROVE  /\ TokenOf(i) \in Field
               /\ Hash(i) = SubFp(TokenOf(i)) /\ Threshold(i) = FixedThreshold
    <2>1. tokens[i].val \in Tokens /\ tokens[i + 1].val \in Tokens
      BY <1>1, ComparedType
    <2>2. oracle.three \in [Tokens -> [Tokens -> Field]]
      BY OraclesAssumption DEF Inv
    <2> QED
      BY <2>1, <2>2 DEF TokenOf, TokenHash, Hash, FoldedHash, Threshold
  <1>4. Less = Low \cup Band
    BY <1>3, FoldBelow
  <1>5. Low \cap Band = {}
    <2>1. \A i \in 1 .. maxToken : TokenOf(i) \in Int
      BY <1>3, FieldAssumption DEF Field
    <2> QED
      BY <2>1, ThresholdBound, FieldAssumption
  <1>6. IsFiniteSet(Low) /\ IsFiniteSet(Band)
    <2>1. IsFiniteSet(1 .. maxToken)
      BY FS_Interval DEF Inv, ProverTypeOK
    <2> QED
      BY <2>1, FS_Subset
  <1> HIDE DEF Less, Low, Band
  <1>7. Cardinality(Low) \in Nat /\ Cardinality(Band) \in Nat
    BY <1>6, FS_CardinalityType
  <1>8. Cardinality(Low \cup Band) = Cardinality(Low) + Cardinality(Band)
    BY <1>5, <1>6, <1>7, FS_Union, FS_EmptySet
  <1> QED
    BY <1>2, <1>4, <1>8

-----------------------------------------------------------------------------
\* The invariant holds of every run of the prover programs.
LEMMA Invariance == ProverSpec => []Inv
  <1>1. oracle \in Oracles /\ ProverInit => Inv
    BY InitInv
  <1>2. Inv /\ [ProverNext]_<<proverVars, oracle>> => Inv'
    BY NextInv
  <1> QED
    BY <1>1, <1>2, PTL DEF ProverSpec

\* Every variable of a prover program keeps its type, whatever file it is run on.
THEOREM TypeCorrect == ProverSpec => []ProverTypeOK
  <1>1. Inv => ProverTypeOK
    BY DEF Inv
  <1> QED
    BY <1>1, Invariance, PTL

(***************************************************************************)
(* The chain of sums adds every flag exactly once, for every SUMMATION_NUM *)
(* above one and every number of tokens.                                   *)
(***************************************************************************)
THEOREM SumComplete == ProverSpec => []SumsEveryFlag
  BY SumsAll, Invariance, PTL

(***************************************************************************)
(* A run is accepted exactly when no hash meets its threshold: gates and   *)
(* the other public inputs always agree, the count only without a tie.     *)
(***************************************************************************)
THEOREM TiesDecide == ProverSpec => []AcceptedUnlessTie
  BY AcceptedInv, Invariance, PTL

(***************************************************************************)
(* What a proof of the fixed three-to-one program counts: the green tokens *)
(* and those that the fold of SubFp brings below the threshold.            *)
(***************************************************************************)
THEOREM FoldCounts == ProverSpec => []CountsGreenAndFolded
  BY FoldedInv, Invariance, PTL
=============================================================================
