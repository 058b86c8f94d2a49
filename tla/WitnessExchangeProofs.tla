----------------------- MODULE WitnessExchangeProofs -----------------------
(***************************************************************************)
(* Proofs about WitnessExchange, for any number of positions and of folds: *)
(* type correctness, that sequential provers only ever verify proofs of    *)
(* their own folds, that in either mode a verified proof has its folds in  *)
(* order and a finished run leaves no files, and that sequential provers   *)
(* with reliable generators never panic.                                   *)
(***************************************************************************)
EXTENDS WitnessExchange, TLAPS

\* Opening, writing and unlinking a file keep it a file.
LEMMA FileOperations ==
    ASSUME NEW S, NEW f \in Files(S), NEW p \in Positions, NEW c \in S
    PROVE  /\ OpenFile(f, p) \in Files(S)
           /\ OpenFile(f, p).data = {}
           /\ WriteFile(f, p, c) \in Files(S)
           /\ WriteFile(f, p, c).data \subseteq f.data \cup {c}
           /\ Absent \in Files(S)
           /\ Absent.data = {}
  BY DEF Files, FilesOf, OpenFile, WriteFile, Absent

\* The outputs of a witness are a public input.
LEMMA OutputType ==
    ASSUME NEW w \in Witnesses
    PROVE  Output(w) \in Seq(PrivateInputs) /\ Len(Output(w)) = Len(w.zin) + 1
  BY DEF Output, Witnesses

LEMMA PrivateInputType ==
    ASSUME NEW p \in Positions, NEW k \in Int
    PROVE  PrivateInput(p, k) \in PrivateInputs
  BY ConfigAssumption DEF PrivateInput, PrivateInputs, Positions

LEMMA InitTypeOK == Init => TypeOK
  <1> SUFFICES ASSUME Init PROVE TypeOK
    OBVIOUS
  <1>1. wtns \in Files(Witnesses)
    <2>1. CASE wtns = Absent
      BY <2>1, FileOperations DEF Files, FilesOf, Absent
    <2>2. ASSUME NEW w \in Leftover, wtns = [Absent EXCEPT !.exists = TRUE, !.data = {w}]
          PROVE  wtns \in Files(Witnesses)
      <3>1. w \in Witnesses
        BY ConfigAssumption
      <3> QED
        BY <2>2, <3>1 DEF Files, FilesOf, Absent
    <2> QED
      BY <2>1, <2>2 DEF Init
  <1>2. input \in Files(Inputs)
    BY DEF Init, Files, FilesOf, Absent
  <1>3. <<>> \in Seq(PrivateInputs) /\ <<>> \in Seq(Witnesses)
    OBVIOUS
  <1>4. /\ z \in [Positions -> Seq(PrivateInputs)]
        /\ snark \in [Positions -> Seq(Witnesses)]
    BY <1>3 DEF Init
  <1>5. /\ job \in [Positions -> SUBSET Inputs]
        /\ loaded \in [Positions -> SUBSET Witnesses]
    BY DEF Init
  <1>6. /\ pc \in [Positions -> PcValues]
        /\ calls \in [Positions -> Nat]
    BY DEF Init, PcValues
  <1>7. \A p \in Positions :
           /\ pc[p] = "idle" /\ job[p] = {} /\ loaded[p] = {}
           /\ Fold(p) <= FoldingNum[p] /\ calls[p] <= FoldingNum[p] + 1
    <2> TAKE p \in Positions
    <2>1. pc[p] = "idle" /\ calls[p] = 0 /\ job[p] = {} /\ loaded[p] = {}
      BY DEF Init
    <2>2. FoldingNum[p] \in Nat \ {0}
      BY ConfigAssumption
    <2> QED
      BY <2>1, <2>2 DEF Fold
  <1>8. \A p \in Positions : pc[p] = "fold" <=> loaded[p] # {}
    BY <1>7
  <1>9. \A p \in Positions :
           /\ pc[p] \notin OutOfLoop => Fold(p) <= FoldingNum[p]
           /\ calls[p] <= FoldingNum[p] + 1
           /\ pc[p] \in {"open_output", "write_output"} <=> job[p] # {}
    BY <1>7
  <1> QED
    <2> HIDE DEF Init
    <2> QED
      BY <1>1, <1>2, <1>4, <1>5, <1>6, <1>8, <1>9 DEF TypeOK

\* Every action of a prover keeps the types.
LEMMA ProverTypeOK ==
    ASSUME TypeOK, NEW p \in Positions, ProverStep(p)
    PROVE  TypeOK'
  <1> USE DEF TypeOK, PcValues, OutOfLoop, Goto
  <1>1. CASE StartProver(p)
    BY <1>1 DEF StartProver, Fold
  <1>2. CASE OpenInput(p)
    <2>1. input' \in Files(Inputs)
      BY <1>2 DEF OpenInput, OpenFile, Files, FilesOf
    <2> QED
      BY <1>2, <2>1 DEF OpenInput, Fold
  <1>3. CASE WriteInput(p)
    <2>1. Fold(p) \in Int
      BY DEF Fold
    <2>2. [z |-> z[p], priv |-> PrivateInput(p, Fold(p))] \in Inputs
      BY <2>1, PrivateInputType DEF Inputs
    <2>3. input' \in Files(Inputs)
      BY <1>3, <2>2, FileOperations DEF WriteInput
    <2> QED
      BY <1>3, <2>3 DEF WriteInput, Fold
  <1>4. CASE GeneratorAccepts(p)
    <2>1. PICK in \in input.data : job' = [job EXCEPT ![p] = {in}]
      BY <1>4 DEF GeneratorAccepts
    <2>2. in \in Inputs
      BY DEF Files, FilesOf
    <2> QED
      BY <1>4, <2>1, <2>2 DEF GeneratorAccepts, Fold
  <1>5. CASE GeneratorFails(p)
    BY <1>5 DEF GeneratorFails, Fold
  <1>6. CASE GeneratorOpens(p)
    <2>1. wtns' \in Files(Witnesses)
      BY <1>6 DEF GeneratorOpens, OpenFile, Files, FilesOf
    <2> QED
      BY <1>6, <2>1 DEF GeneratorOpens, Fold
  <1>7. CASE GeneratorWrites(p)
    <2>1. PICK in \in job[p] : wtns' = WriteFile(wtns, p, [zin |-> in.z, priv |-> in.priv])
      BY <1>7 DEF GeneratorWrites
    <2>2. [zin |-> in.z, priv |-> in.priv] \in Witnesses
      BY DEF Inputs, Witnesses
    <2>3. wtns' \in Files(Witnesses)
      BY <2>1, <2>2, FileOperations
    <2> QED
      BY <1>7, <2>3 DEF GeneratorWrites, Fold
  <1>8. CASE GeneratorDies(p)
    <2>1. wtns' \in Files(Witnesses)
      BY <1>8 DEF GeneratorDies, CloseFile, Files, FilesOf
    <2> QED
      BY <1>8, <2>1 DEF GeneratorDies, Fold
  <1>9. CASE RemoveInput(p)
    <2>1. input' \in Files(Inputs)
      BY <1>9 DEF RemoveInput, Absent, Files, FilesOf
    <2> QED
      BY <1>9, <2>1 DEF RemoveInput, Fold
  <1>10. CASE LoadWitness(p)
    <2>1. wtns.data \subseteq Witnesses /\ wtns.data # {}
      BY <1>10 DEF LoadWitness, Files, FilesOf
    <2> QED
      BY <1>10, <2>1 DEF LoadWitness, Fold
  <1>11. CASE LoadPanics(p)
    BY <1>11 DEF LoadPanics, Fold
  <1>12. CASE NewRecursiveSNARK(p)
    <2>1. snark' \in [Positions -> Seq(Witnesses)]
      BY <1>12 DEF NewRecursiveSNARK
    <2> QED
      BY <1>12, <2>1, ConfigAssumption DEF NewRecursiveSNARK, Fold
  <1>13. CASE ProveStep(p)
    <2>1. PICK w \in loaded[p] :
              /\ z' = [z EXCEPT ![p] = Output(w)]
              /\ snark' = IF calls[p] = 1 THEN snark
                          ELSE [snark EXCEPT ![p] = Append(@, w)]
      BY <1>13 DEF ProveStep
    <2>2. w \in Witnesses
      OBVIOUS
    <2>3. z' \in [Positions -> Seq(PrivateInputs)]
      BY <2>1, <2>2, OutputType
    <2>4. snark' \in [Positions -> Seq(Witnesses)]
      BY <2>1, <2>2
    <2> QED
      BY <1>13, <2>3, <2>4, ConfigAssumption DEF ProveStep, Fold
  <1>14. CASE RemoveWitness(p)
    <2>1. wtns' \in Files(Witnesses)
      BY <1>14 DEF RemoveWitness, Absent, Files, FilesOf
    <2> QED
      BY <1>14, <2>1 DEF RemoveWitness, Fold
  <1>15. CASE RemoveWitnessPanics(p)
    BY <1>15 DEF RemoveWitnessPanics, Fold
  <1>16. CASE Verify(p)
    BY <1>16 DEF Verify, Fold
  <1> QED
    BY <1>1, <1>2, <1>3, <1>4, <1>5, <1>6, <1>7, <1>8, <1>9, <1>10, <1>11,
       <1>12, <1>13, <1>14, <1>15, <1>16 DEF ProverStep

\* Every variable has its type in every mode, and no prover asks for a private
\* input it does not have (create_recursive_circuit's private_inputs[i]).
THEOREM TypeCorrect == Spec => []TypeOK
  <1>1. TypeOK /\ [Next]_vars => TypeOK'
    <2> SUFFICES ASSUME TypeOK, [Next]_vars PROVE TypeOK'
      OBVIOUS
    <2>1. CASE \E p \in Positions : ProverStep(p)
      BY <2>1, ProverTypeOK
    <2>2. CASE UNCHANGED vars
      BY <2>2 DEF TypeOK, vars, Fold
    <2> QED
      BY <2>1, <2>2 DEF Next, Terminated
  <1> QED
    BY InitTypeOK, <1>1, PTL DEF Spec

---------------------------------------------------------------------------
(* Sequential provers.                                                     *)

\* A position's own public inputs are sequences, and absorbing its next private
\* input gives the next of them.
LEMMA OwnPrefixes ==
    ASSUME NEW p \in Positions, NEW k \in Nat
    PROVE  /\ OwnPrefix(p, k) \in Seq(PrivateInputs)
           /\ Len(OwnPrefix(p, k)) = k
           /\ OwnPrefix(p, 0) = <<>>
           /\ Append(OwnPrefix(p, k), PrivateInput(p, k + 1)) = OwnPrefix(p, k + 1)
  <1>1. \A i \in 1..(k + 1) : PrivateInput(p, i) \in PrivateInputs
    BY PrivateInputType
  <1>2. OwnPrefix(p, k) \in Seq(PrivateInputs) /\ Len(OwnPrefix(p, k)) = k
    BY <1>1 DEF OwnPrefix
  <1>3. OwnPrefix(p, k + 1) \in Seq(PrivateInputs) /\ Len(OwnPrefix(p, k + 1)) = k + 1
    BY <1>1 DEF OwnPrefix
  <1>4. OwnPrefix(p, 0) = <<>>
    BY DEF OwnPrefix
  <1>5. Append(OwnPrefix(p, k), PrivateInput(p, k + 1)) = OwnPrefix(p, k + 1)
    <2> DEFINE a == Append(OwnPrefix(p, k), PrivateInput(p, k + 1))
               b == OwnPrefix(p, k + 1)
    <2>1. a \in Seq(PrivateInputs) /\ Len(a) = k + 1
      BY <1>1, <1>2
    <2>2. \A i \in 1..(k + 1) : a[i] = PrivateInput(p, i)
      BY <1>1, <1>2 DEF OwnPrefix
    <2>3. \A i \in 1..(k + 1) : b[i] = PrivateInput(p, i)
      BY DEF OwnPrefix
    <2>4. b \in Seq(PrivateInputs) /\ Len(b) = k + 1
      BY <1>3
    <2> HIDE DEF a, b
    <2>5. a = b
      BY <2>1, <2>2, <2>3, <2>4
    <2> QED
      BY <2>5 DEF a, b
  <1> QED
    BY <1>2, <1>4, <1>5

\* The output of an own witness is the own public input after its fold.
LEMMA OwnOutput ==
    ASSUME NEW p \in Positions, NEW w, IsOwnWitness(w, p)
    PROVE  /\ IsOwnPrefix(Output(w), p)
           /\ Output(w) = OwnPrefix(p, w.priv.fold)
           /\ Len(w.zin) = w.priv.fold - 1
           /\ w.zin = <<>> <=> w.priv.fold = 1
  <1> DEFINE k == w.priv.fold
  <1>1. /\ k \in Nat \ {0} /\ k - 1 \in Nat /\ (k - 1) + 1 = k
        /\ w.zin = OwnPrefix(p, k - 1) /\ w.priv = PrivateInput(p, k)
    BY DEF IsOwnWitness, OwnWitness
  <1> HIDE DEF k
  <1>2. Output(w) = OwnPrefix(p, k)
    BY <1>1, OwnPrefixes DEF Output
  <1>3. Len(Output(w)) = k /\ Len(w.zin) = k - 1
    BY <1>1, <1>2, OwnPrefixes
  <1>4. k = 1 => w.zin = <<>>
    BY <1>1, OwnPrefixes
  <1>5. w.zin = <<>> => k = 1
    BY <1>1, <1>3
  <1> QED
    BY <1>2, <1>3, <1>4, <1>5 DEF k, IsOwnPrefix

\* Folding one more own witness extends the own chain or breaks it for good.
LEMMA ChainGrows ==
    ASSUME NEW p \in Positions, NEW s \in Seq(Witnesses), NEW w \in Witnesses,
           IsOwnWitness(w, p), OwnChain(s, p) \/ BrokenChain(s)
    PROVE  OwnChain(Append(s, w), p) \/ BrokenChain(Append(s, w))
  <1> DEFINE t == Append(s, w)
             n == Len(s)
  <1>1. /\ n \in Nat /\ Len(t) = n + 1 /\ t[n + 1] = w
        /\ \A k \in 1..n : t[k] = s[k]
    OBVIOUS
  <1> HIDE DEF t, n
  <1>2. CASE BrokenChain(s)
    <2>1. CASE n >= 1 /\ s[1].zin # <<>>
      BY <2>1, <1>1 DEF BrokenChain, t
    <2>2. CASE \E k \in 1..(n - 1) : s[k + 1].zin # Output(s[k])
      <3>1. PICK k \in 1..(n - 1) : s[k + 1].zin # Output(s[k])
        BY <2>2
      <3>2. k \in 1..(Len(t) - 1) /\ t[k + 1] = s[k + 1] /\ t[k] = s[k]
        BY <3>1, <1>1
      <3> QED
        BY <3>1, <3>2 DEF BrokenChain, t
    <2> QED
      BY <1>2, <2>1, <2>2 DEF BrokenChain, n
  <1>3. CASE OwnChain(s, p) /\ w.priv.fold = n + 1
    <2>1. w = OwnWitness(p, n + 1)
      BY <1>3 DEF IsOwnWitness
    <2>2. \A k \in 1..n : t[k] = OwnWitness(p, k)
      BY <1>1, <1>3 DEF OwnChain, n
    <2>3. ASSUME NEW k \in 1..(n + 1) PROVE t[k] = OwnWitness(p, k)
      <3>1. CASE k = n + 1
        BY <1>1, <2>1, <3>1
      <3>2. CASE k \in 1..n
        BY <2>2, <3>2
      <3> QED
        BY <1>1, <3>1, <3>2
    <2>4. OwnChain(t, p)
      BY <1>1, <2>3 DEF OwnChain
    <2> QED
      BY <2>4 DEF t
  <1>4. CASE OwnChain(s, p) /\ w.priv.fold # n + 1 /\ n = 0
    BY <1>1, <1>4, OwnOutput DEF BrokenChain, t
  <1>5. CASE OwnChain(s, p) /\ w.priv.fold # n + 1 /\ n # 0
    <2>1. t[n] = OwnWitness(p, n)
      BY <1>1, <1>5 DEF OwnChain, n
    <2>2. t[n].priv.fold = n /\ IsOwnWitness(t[n], p)
      BY <2>1, <1>1, <1>5 DEF IsOwnWitness, OwnWitness, PrivateInput
    <2>3. Output(t[n]) = OwnPrefix(p, n) /\ Len(Output(t[n])) = n
      <3>1. Output(t[n]) = OwnPrefix(p, n)
        BY <2>2, OwnOutput
      <3> QED
        BY <1>1, <3>1, OwnPrefixes
    <2>4. w.priv.fold \in Nat /\ Len(w.zin) = w.priv.fold - 1
      BY OwnOutput DEF IsOwnWitness
    <2>5. Len(w.zin) # n
      BY <2>4, <1>1, <1>5
    <2>6. t[n + 1].zin # Output(t[n])
      BY <2>3, <2>5, <1>1
    <2> QED
      BY <2>6, <1>1, <1>5 DEF BrokenChain, t
  <1> QED
    BY <1>2, <1>3, <1>4, <1>5 DEF t

\* verify rejects every broken chain.
LEMMA VerifiedChain ==
    ASSUME NEW p \in Positions, NEW s, NEW n,
           OwnChain(s, p) \/ BrokenChain(s), Verifies(s, n)
    PROVE  Len(s) = n /\ \A k \in 1..n : s[k] = OwnWitness(p, k)
  BY DEF OwnChain, BrokenChain, Verifies

LEMMA SequentialVerified == SequentialInv => VerifiedIsOwn
  BY VerifiedChain DEF SequentialInv, ProverIsOwn, VerifiedIsOwn

LEMMA InitSequentialInv ==
    ASSUME Leftover = {}, Init
    PROVE  SequentialInv
  <1>1. \A p \in Positions : IsOwnPrefix(<<>>, p) /\ OwnChain(<<>>, p)
    BY OwnPrefixes DEF IsOwnPrefix, OwnChain
  <1>2. \A p \in Positions : ProverIsOwn(p)
    BY <1>1 DEF Init, ProverIsOwn
  <1>3. OneAtATime /\ FilesAreOwn
    BY DEF Init, OneAtATime, FilesAreOwn, Absent
  <1> QED
    BY <1>2, <1>3, InitTypeOK DEF SequentialInv

\* A prover under way is alone: what the files hold is its own.
LEMMA Alone ==
    ASSUME TypeOK, OneAtATime, NEW p \in Positions, pc[p] \notin {"idle", "done"}
    PROVE  \A q \in Positions : pc[q] \notin {"idle", "done"} => q = p
  BY DEF OneAtATime, Positions

LEMMA OwnFiles ==
    ASSUME SequentialInv, NEW p \in Positions, pc[p] \notin {"idle", "done"}
    PROVE  /\ \A in \in input.data :
                 /\ pc[p] \in {"run_generator", "open_output", "write_output", "remove_input"}
                 /\ IsOwnInput(in, p)
           /\ \A w \in wtns.data : pc[p] # "verify" /\ IsOwnWitness(w, p)
  BY Alone DEF SequentialInv, FilesAreOwn

\* Nobody else moves while a prover steps.
LEMMA OneAtATimeStep ==
    ASSUME ParallelFlag = FALSE, TypeOK, OneAtATime, NEW p \in Positions, ProverStep(p)
    PROVE  OneAtATime'
  <1>1. \A q \in Positions : q # p => pc'[q] = pc[q]
    BY DEF TypeOK, ProverStep, Goto, StartProver, OpenInput, WriteInput,
           GeneratorAccepts, GeneratorFails, GeneratorOpens, GeneratorWrites,
           GeneratorDies, RemoveInput, LoadWitness, LoadPanics,
           NewRecursiveSNARK, ProveStep, RemoveWitness, RemoveWitnessPanics, Verify
  <1>2. pc[p] # "done"
    BY DEF ProverStep, Goto, StartProver, OpenInput, WriteInput,
           GeneratorAccepts, GeneratorFails, GeneratorOpens, GeneratorWrites,
           GeneratorDies, RemoveInput, LoadWitness, LoadPanics,
           NewRecursiveSNARK, ProveStep, RemoveWitness, RemoveWitnessPanics, Verify
  <1>3. pc[p] = "idle" => \A q \in Positions : q < p => pc[q] = "done"
    BY DEF ProverStep, Goto, StartProver, Scheduled, Positions, OpenInput, WriteInput,
           GeneratorAccepts, GeneratorFails, GeneratorOpens, GeneratorWrites,
           GeneratorDies, RemoveInput, LoadWitness, LoadPanics,
           NewRecursiveSNARK, ProveStep, RemoveWitness, RemoveWitnessPanics, Verify
  <1>4. \A q \in Positions : q < p => pc[q] = "done"
    BY <1>3 DEF OneAtATime
  <1>5. \A q \in Positions : p < q => pc[q] = "idle"
    BY <1>2 DEF OneAtATime
  <1> SUFFICES ASSUME NEW q \in Positions, NEW r \in Positions, q < r, pc'[r] # "idle"
               PROVE  pc'[q] = "done"
    BY DEF OneAtATime
  <1>6. CASE q = p
    <2>1. pc'[r] = "idle"
      BY <1>1, <1>5, <1>6 DEF Positions
    <2> QED
      BY <2>1
  <1>7. CASE q # p /\ r = p
    BY <1>1, <1>4, <1>7
  <1>8. CASE q # p /\ r # p
    BY <1>1, <1>8 DEF OneAtATime
  <1> QED
    BY <1>6, <1>7, <1>8

\* Every action of a prover keeps the strengthened invariant.
LEMMA ProverSequentialInv ==
    ASSUME ParallelFlag = FALSE, SequentialInv, NEW p \in Positions, ProverStep(p)
    PROVE  SequentialInv'
  <1>1. TypeOK' /\ OneAtATime'
    BY ProverTypeOK, OneAtATimeStep DEF SequentialInv
  <1> SUFFICES FilesAreOwn' /\ \A q \in Positions : ProverIsOwn(q)'
    BY <1>1 DEF SequentialInv
  <1>2. TypeOK /\ FilesAreOwn /\ (\A q \in Positions : ProverIsOwn(q))
    BY DEF SequentialInv
  <1>3. CASE StartProver(p)
    <2>1. \A q \in Positions : pc[q] \in {"idle", "done"}
      BY <1>1, <1>2, <1>3 DEF StartProver, Goto, TypeOK, SequentialInv, OneAtATime, Positions, Scheduled
    <2>2. input.data = {} /\ wtns.data = {}
      BY <2>1, <1>2 DEF FilesAreOwn, TypeOK, Files, FilesOf
    <2> QED
      BY <2>2, <1>2, <1>3 DEF StartProver, Goto, FilesAreOwn, ProverIsOwn, TypeOK
  <1>4. CASE OpenInput(p)
    <2>1. input'.data = {}
      BY <1>4 DEF OpenInput, OpenFile
    <2>2. \A w \in wtns'.data : IsOwnWitness(w, p)
      BY <1>4, OwnFiles DEF OpenInput, Goto
    <2> QED
      BY <2>1, <2>2, <1>2, <1>4 DEF OpenInput, Goto, FilesAreOwn, ProverIsOwn, TypeOK
  <1>5. CASE WriteInput(p)
    <2> DEFINE in == [z |-> z[p], priv |-> PrivateInput(p, Fold(p))]
    <2>1. IsOwnInput(in, p)
      BY <1>2 DEF IsOwnInput, ProverIsOwn, PrivateInput, Fold, TypeOK
    <2>2. input.data = {}
      BY <1>2, <1>5, OwnFiles DEF WriteInput, Goto, TypeOK, Files, FilesOf
    <2>3. input'.data \subseteq {in}
      BY <1>5, <2>2 DEF WriteInput, WriteFile
    <2>4. \A w \in wtns'.data : IsOwnWitness(w, p)
      BY <1>5, OwnFiles DEF WriteInput, Goto
    <2> QED
      BY <2>1, <2>3, <2>4, <1>2, <1>5 DEF WriteInput, Goto, FilesAreOwn, ProverIsOwn, TypeOK
  <1>6. CASE GeneratorAccepts(p)
    <2>1. PICK in \in input.data : Accepts(in) /\ job' = [job EXCEPT ![p] = {in}]
      BY <1>6 DEF GeneratorAccepts
    <2>2. IsOwnInput(in, p)
      BY <1>6, OwnFiles DEF GeneratorAccepts, Goto
    <2>3. /\ \A i \in input'.data : IsOwnInput(i, p)
          /\ \A w \in wtns'.data : IsOwnWitness(w, p)
      BY <1>6, OwnFiles DEF GeneratorAccepts, Goto
    <2> QED
      BY <2>1, <2>2, <2>3, <1>2, <1>6
      DEF GeneratorAccepts, Goto, FilesAreOwn, ProverIsOwn, TypeOK
  <1>7. CASE GeneratorFails(p)
    <2>1. /\ \A i \in input'.data : IsOwnInput(i, p)
          /\ \A w \in wtns'.data : IsOwnWitness(w, p)
      BY <1>7, OwnFiles DEF GeneratorFails, Goto
    <2> QED
      BY <2>1, <1>2, <1>7 DEF GeneratorFails, Goto, FilesAreOwn, ProverIsOwn, TypeOK
  <1>8. CASE GeneratorOpens(p)
    <2>1. \A i \in input'.data : IsOwnInput(i, p)
      BY <1>8, OwnFiles DEF GeneratorOpens, Goto
    <2>2. wtns'.data = {}
      BY <1>8 DEF GeneratorOpens, OpenFile
    <2> QED
      BY <2>1, <2>2, <1>2, <1>8 DEF GeneratorOpens, Goto, FilesAreOwn, ProverIsOwn, TypeOK
  <1>9. CASE GeneratorWrites(p)
    <2>1. PICK in \in job[p] : wtns' = WriteFile(wtns, p, [zin |-> in.z, priv |-> in.priv])
      BY <1>9 DEF GeneratorWrites
    <2> DEFINE w0 == [zin |-> in.z, priv |-> in.priv]
    <2>2. in \in Inputs /\ IsOwnInput(in, p) /\ Accepts(in)
      BY <1>2 DEF ProverIsOwn, TypeOK
    <2>3. IsOwnWitness(w0, p)
      BY <2>2 DEF IsOwnInput, IsOwnPrefix, IsOwnWitness, OwnWitness, Accepts
    <2>4. \A w \in wtns.data : IsOwnWitness(w, p)
      BY <1>9, OwnFiles DEF GeneratorWrites, Goto
    <2>5. wtns'.data \subseteq wtns.data \cup {w0}
      BY <2>1 DEF WriteFile, TypeOK, Files, FilesOf
    <2>6. \A w \in wtns'.data : IsOwnWitness(w, p)
      BY <2>3, <2>4, <2>5
    <2>7. \A i \in input'.data : IsOwnInput(i, p)
      BY <1>9, OwnFiles DEF GeneratorWrites, Goto
    <2> QED
      BY <2>6, <2>7, <1>2, <1>9 DEF GeneratorWrites, Goto, FilesAreOwn, ProverIsOwn, TypeOK
  <1>10. CASE GeneratorDies(p)
    <2>1. /\ \A i \in input'.data : IsOwnInput(i, p)
          /\ \A w \in wtns.data : IsOwnWitness(w, p)
      BY <1>10, OwnFiles DEF GeneratorDies, Goto
    <2>2. wtns'.data = wtns.data
      BY <1>2, <1>10 DEF GeneratorDies, CloseFile, TypeOK, Files, FilesOf
    <2> QED
      BY <2>1, <2>2, <1>2, <1>10 DEF GeneratorDies, Goto, FilesAreOwn, ProverIsOwn, TypeOK
  <1>11. CASE RemoveInput(p)
    <2>1. input'.data = {}
      BY <1>11 DEF RemoveInput, Absent
    <2>2. \A w \in wtns'.data : IsOwnWitness(w, p)
      BY <1>11, OwnFiles DEF RemoveInput, Goto
    <2> QED
      BY <2>1, <2>2, <1>2, <1>11 DEF RemoveInput, Goto, FilesAreOwn, ProverIsOwn, TypeOK
  <1>12. CASE LoadWitness(p)
    <2>1. input'.data = {} /\ \A w \in wtns.data : IsOwnWitness(w, p)
      BY <1>2, <1>12, OwnFiles DEF LoadWitness, Goto, TypeOK, Files, FilesOf
    <2> QED
      BY <2>1, <1>2, <1>12 DEF LoadWitness, Goto, FilesAreOwn, ProverIsOwn, TypeOK
  <1>13. CASE LoadPanics(p)
    <2>1. input'.data = {} /\ wtns'.data = {}
      BY <1>2, <1>13, OwnFiles DEF LoadPanics, Goto, TypeOK, Files, FilesOf
    <2> QED
      BY <2>1, <1>2, <1>13 DEF LoadPanics, Goto, FilesAreOwn, ProverIsOwn, TypeOK
  <1>14. CASE NewRecursiveSNARK(p)
    <2>1. PICK w \in loaded[p] : snark' = [snark EXCEPT ![p] = <<w>>]
      BY <1>14 DEF NewRecursiveSNARK
    <2>2. w \in Witnesses /\ IsOwnWitness(w, p)
      BY <1>2 DEF ProverIsOwn, TypeOK
    <2>3. OwnChain(<<>>, p) /\ <<>> \in Seq(Witnesses) /\ Append(<<>>, w) = <<w>>
      BY <2>2 DEF OwnChain
    <2>4. OwnChain(<<w>>, p) \/ BrokenChain(<<w>>)
      BY <2>2, <2>3, ChainGrows
    <2>5. input'.data = {} /\ \A v \in wtns'.data : IsOwnWitness(v, p)
      BY <1>2, <1>14, OwnFiles DEF NewRecursiveSNARK, Goto, TypeOK, Files, FilesOf
    <2>6. FilesAreOwn'
      BY <2>5, <1>2, <1>14 DEF NewRecursiveSNARK, Goto, FilesAreOwn, TypeOK
    <2> QED
      BY <2>1, <2>4, <2>6, <1>2, <1>14 DEF NewRecursiveSNARK, Goto, ProverIsOwn, TypeOK
  <1>15. CASE ProveStep(p)
    <2>1. PICK w \in loaded[p] :
              /\ z' = [z EXCEPT ![p] = Output(w)]
              /\ snark' = IF calls[p] = 1 THEN snark
                          ELSE [snark EXCEPT ![p] = Append(@, w)]
      BY <1>15 DEF ProveStep
    <2>2. w \in Witnesses /\ IsOwnWitness(w, p)
      BY <1>2 DEF ProverIsOwn, TypeOK
    <2>3. IsOwnPrefix(z'[p], p)
      BY <2>1, <2>2, <1>2, OwnOutput DEF TypeOK
    <2>4. OwnChain(snark'[p], p) \/ BrokenChain(snark'[p])
      BY <2>1, <2>2, <1>2, ChainGrows DEF ProverIsOwn, TypeOK
    <2>5. input'.data = {} /\ \A v \in wtns'.data : IsOwnWitness(v, p)
      BY <1>2, <1>15, OwnFiles DEF ProveStep, Goto, TypeOK, Files, FilesOf
    <2>6. FilesAreOwn'
      BY <2>5, <1>2, <1>15 DEF ProveStep, Goto, FilesAreOwn, TypeOK
    <2>7. ProverIsOwn(p)'
      BY <2>3, <2>4, <1>2, <1>15 DEF ProveStep, Goto, ProverIsOwn, TypeOK
    <2>8. ASSUME NEW q \in Positions, q # p
          PROVE  ProverIsOwn(q)'
      BY <2>1, <2>8, <1>2, <1>15 DEF ProveStep, Goto, ProverIsOwn, TypeOK
    <2> QED
      BY <2>6, <2>7, <2>8
  <1>16. CASE RemoveWitness(p)
    <2>1. input'.data = {} /\ wtns'.data = {}
      BY <1>2, <1>16, OwnFiles DEF RemoveWitness, Goto, TypeOK, Files, FilesOf, Absent
    <2> QED
      BY <2>1, <1>2, <1>16 DEF RemoveWitness, Goto, FilesAreOwn, ProverIsOwn, TypeOK
  <1>17. CASE RemoveWitnessPanics(p)
    <2>1. input'.data = {} /\ \A v \in wtns'.data : IsOwnWitness(v, p)
      BY <1>2, <1>17, OwnFiles DEF RemoveWitnessPanics, Goto, TypeOK, Files, FilesOf
    <2> QED
      BY <2>1, <1>2, <1>17 DEF RemoveWitnessPanics, Goto, FilesAreOwn, ProverIsOwn, TypeOK
  <1>18. CASE Verify(p)
    <2>1. input'.data = {} /\ wtns'.data = {}
      BY <1>2, <1>18, OwnFiles DEF Verify, Goto, TypeOK, Files, FilesOf
    <2> QED
      BY <2>1, <1>2, <1>18 DEF Verify, Goto, FilesAreOwn, ProverIsOwn, TypeOK
  <1> QED
    BY <1>3, <1>4, <1>5, <1>6, <1>7, <1>8, <1>9, <1>10, <1>11, <1>12, <1>13,
       <1>14, <1>15, <1>16, <1>17, <1>18 DEF ProverStep

\* Before the first generator has opened its output, a witness of an earlier run
\* may still be there: nobody has folded anything, and the first position's input,
\* which the circuit accepts, is all that is in the files or in a generator.
BeforeFirstWitness ==
    /\ TypeOK
    /\ OneAtATime
    /\ \A p \in Positions :
          /\ \/ pc[p] = "idle"
             \/ p = 1 /\ pc[p] \in {"open_input", "write_input", "run_generator", "open_output"}
          /\ calls[p] = 0 /\ z[p] = <<>> /\ snark[p] = <<>>
          /\ pc[p] = "write_input" => input.data = {} /\ p \in input.writers
          /\ pc[p] = "run_generator" => input.data # {}
          /\ pc[p] \in {"run_generator", "open_output"} =>
                \A in \in input.data \cup job[p] : IsOwnInput(in, p) /\ Accepts(in)

LEMMA FirstWitness ==
    ASSUME ParallelFlag = FALSE, <<1, 1>> \notin MayFail, BeforeFirstWitness,
           NEW p \in Positions, ProverStep(p)
    PROVE  BeforeFirstWitness' \/ SequentialInv'
  <1>1. TypeOK' /\ OneAtATime'
    BY ProverTypeOK, OneAtATimeStep DEF BeforeFirstWitness
  <1>2. TypeOK /\ OneAtATime
    BY DEF BeforeFirstWitness
  <1>3. p = 1
    <2>1. pc[p] = "idle" => Scheduled(p)
      BY DEF ProverStep, Goto, StartProver, OpenInput,
             WriteInput, GeneratorAccepts, GeneratorFails, GeneratorOpens, GeneratorWrites,
             GeneratorDies, RemoveInput, LoadWitness, LoadPanics,
             NewRecursiveSNARK, ProveStep, RemoveWitness, RemoveWitnessPanics, Verify
    <2>2. 1 \in Positions /\ p \in Nat /\ p >= 1
      BY ConfigAssumption DEF Positions
    <2>3. pc[1] # "done"
      BY <2>2 DEF BeforeFirstWitness
    <2>4. Scheduled(p) => p = 1
      BY <2>2, <2>3 DEF Scheduled
    <2> QED
      BY <2>1, <2>4 DEF BeforeFirstWitness
  <1>4. \A q \in Positions : q # p => pc[q] = "idle"
    BY <1>3 DEF BeforeFirstWitness
  <1>5. calls[p] = 0 /\ z[p] = <<>> /\ Fold(p) = 1
    BY DEF BeforeFirstWitness, Fold
  <1>6. CASE StartProver(p)
    BY <1>1, <1>2, <1>3, <1>4, <1>6 DEF StartProver, Goto, BeforeFirstWitness, TypeOK
  <1>7. CASE OpenInput(p)
    <2>1. input'.data = {} /\ p \in input'.writers
      BY <1>7 DEF OpenInput, OpenFile
    <2> QED
      BY <1>1, <1>2, <1>3, <1>4, <1>7, <2>1 DEF OpenInput, Goto, BeforeFirstWitness, TypeOK
  <1>8. CASE WriteInput(p)
    <2> DEFINE in == [z |-> z[p], priv |-> PrivateInput(p, Fold(p))]
    <2>1. IsOwnPrefix(<<>>, p) /\ Len(<<>>) = 0
      BY OwnPrefixes DEF IsOwnPrefix
    <2>2. in.z = <<>> /\ in.priv = PrivateInput(p, 1) /\ in.priv.fold = 1
      BY <1>5 DEF PrivateInput
    <2>3. IsOwnInput(in, p) /\ Accepts(in)
      BY <2>1, <2>2 DEF IsOwnInput, Accepts
    <2>4. p \in input.writers
      BY <1>8 DEF WriteInput, Goto, BeforeFirstWitness
    <2>5. input' = WriteFile(input, p, in)
      BY <1>8 DEF WriteInput
    <2> HIDE DEF in
    <2>6. input'.data = {in}
      BY <1>2, <2>4, <2>5 DEF WriteFile, TypeOK, Files, FilesOf
    <2>7. pc[p] = "write_input" /\ pc' = [pc EXCEPT ![p] = "run_generator"] /\ job' = job
          /\ UNCHANGED <<calls, z, snark>>
      BY <1>8 DEF WriteInput, Goto
    <2>8. job[p] = {}
      BY <1>2, <2>7 DEF TypeOK
    <2> QED
      BY <1>1, <1>2, <1>3, <1>4, <2>3, <2>6, <2>7, <2>8 DEF BeforeFirstWitness, TypeOK
  <1>9. CASE GeneratorAccepts(p)
    <2>1. PICK in \in input.data : Accepts(in) /\ job' = [job EXCEPT ![p] = {in}]
      BY <1>9 DEF GeneratorAccepts
    <2>2. \A i \in input'.data \cup job'[p] : IsOwnInput(i, p) /\ Accepts(i)
      BY <1>2, <1>9, <2>1 DEF GeneratorAccepts, Goto, BeforeFirstWitness, TypeOK
    <2> QED
      BY <1>1, <1>2, <1>3, <1>4, <1>9, <2>2
      DEF GeneratorAccepts, Goto, BeforeFirstWitness, TypeOK
  <1>10. ~GeneratorFails(p)
    BY <1>3, <1>5 DEF GeneratorFails, Goto, BeforeFirstWitness
  <1>11. CASE GeneratorOpens(p)
    <2>1. pc[p] = "open_output" /\ pc' = [pc EXCEPT ![p] = "write_output"]
          /\ wtns'.data = {} /\ UNCHANGED <<calls, z, loaded, snark, job, input>>
      BY <1>11 DEF GeneratorOpens, Goto, OpenFile
    <2>2. \A i \in input.data \cup job[p] : IsOwnInput(i, p) /\ Accepts(i)
      BY <2>1 DEF BeforeFirstWitness
    <2>3. FilesAreOwn'
      BY <1>2, <2>1, <2>2 DEF FilesAreOwn, TypeOK
    <2>4. ASSUME NEW q \in Positions
          PROVE  ProverIsOwn(q)'
      <3>1. z'[q] = <<>> /\ snark'[q] = <<>>
        BY <2>1 DEF BeforeFirstWitness
      <3>2. IsOwnPrefix(<<>>, q) /\ OwnChain(<<>>, q)
        BY OwnPrefixes DEF IsOwnPrefix, OwnChain
      <3>3. loaded'[q] = {} /\ pc'[q] # "done"
        BY <1>2, <1>4, <2>1 DEF TypeOK
      <3>4. \A in \in job'[q] : IsOwnInput(in, q) /\ Accepts(in)
        <4>1. CASE q = p
          BY <2>1, <2>2, <4>1
        <4>2. CASE q # p
          BY <1>2, <1>4, <2>1, <4>2 DEF TypeOK
        <4> QED
          BY <4>1, <4>2
      <3> QED
        BY <3>1, <3>2, <3>3, <3>4 DEF ProverIsOwn
    <2> QED
      BY <1>1, <2>3, <2>4 DEF SequentialInv
  <1> QED
    BY <1>3, <1>6, <1>7, <1>8, <1>9, <1>10, <1>11
    DEF BeforeFirstWitness, ProverStep, Goto, GeneratorWrites, GeneratorDies, RemoveInput,
        LoadWitness, LoadPanics, NewRecursiveSNARK, ProveStep, RemoveWitness,
        RemoveWitnessPanics, Verify

\* With one prover at a time, a proof reported as verified folds exactly its own
\* position's private inputs, although generate_witness_from_bin ignores the
\* generator's exit status.  A witness an earlier run left behind does no harm
\* unless the very first generator fails and leaves it in place.
THEOREM SequentialProofsAreOwn ==
    ASSUME ParallelFlag = FALSE, Leftover # {} => <<1, 1>> \notin MayFail
    PROVE  Spec => []VerifiedIsOwn
  <1> DEFINE OwnInv == SequentialInv \/ (<<1, 1>> \notin MayFail /\ BeforeFirstWitness)
  <1>1. OwnInv /\ [Next]_vars => OwnInv'
    <2> SUFFICES ASSUME OwnInv, [Next]_vars PROVE OwnInv'
      OBVIOUS
    <2>1. CASE \E p \in Positions : ProverStep(p)
      BY <2>1, ProverSequentialInv, FirstWitness
    <2>2. CASE UNCHANGED vars
      <3>1. CASE SequentialInv
        BY <2>2, <3>1 DEF SequentialInv, TypeOK, OneAtATime, FilesAreOwn, ProverIsOwn, vars, Fold
      <3>2. CASE <<1, 1>> \notin MayFail /\ BeforeFirstWitness
        BY <2>2, <3>2 DEF BeforeFirstWitness, TypeOK, OneAtATime, vars, Fold
      <3> QED
        BY <3>1, <3>2
    <2> QED
      BY <2>1, <2>2 DEF Next, Terminated
  <1>2. Init => OwnInv
    <2> SUFFICES ASSUME Init PROVE OwnInv
      OBVIOUS
    <2>1. CASE Leftover = {}
      BY <2>1, InitSequentialInv
    <2>2. CASE Leftover # {}
      <3>1. OneAtATime
        BY DEF Init, OneAtATime
      <3> QED
        BY <2>2, <3>1, InitTypeOK DEF Init, BeforeFirstWitness
    <2> QED
      BY <2>1, <2>2
  <1>3. OwnInv => VerifiedIsOwn
    BY SequentialVerified DEF BeforeFirstWitness, VerifiedIsOwn
  <1> QED
    BY <1>1, <1>2, <1>3, PTL DEF Spec

---------------------------------------------------------------------------
(* Either mode: the counts of a verified proof.                            *)

\* Folding a witness that opens its count extends a chain in order or breaks it.
LEMMA CountsGrow ==
    ASSUME NEW s \in Seq(Witnesses), NEW w \in Witnesses, OpensCount(w),
           CountsChain(s) \/ BrokenChain(s)
    PROVE  CountsChain(Append(s, w)) \/ BrokenChain(Append(s, w))
  <1> DEFINE t == Append(s, w)
             n == Len(s)
  <1>1. /\ n \in Nat /\ Len(t) = n + 1 /\ t[n + 1] = w
        /\ \A k \in 1..n : t[k] = s[k]
    OBVIOUS
  <1>2. w.priv.fold \in Int /\ Len(w.zin) = w.priv.fold - 1
    BY DEF OpensCount, Witnesses, PrivateInputs
  <1> HIDE DEF t, n
  <1>3. CASE BrokenChain(s)
    <2>1. CASE n >= 1 /\ s[1].zin # <<>>
      BY <2>1, <1>1 DEF BrokenChain, t
    <2>2. CASE \E k \in 1..(n - 1) : s[k + 1].zin # Output(s[k])
      <3>1. PICK k \in 1..(n - 1) : s[k + 1].zin # Output(s[k])
        BY <2>2
      <3>2. k \in 1..(Len(t) - 1) /\ t[k + 1] = s[k + 1] /\ t[k] = s[k]
        BY <3>1, <1>1
      <3> QED
        BY <3>1, <3>2 DEF BrokenChain, t
    <2> QED
      BY <1>3, <2>1, <2>2 DEF BrokenChain, n
  <1>4. CASE CountsChain(s) /\ w.priv.fold = n + 1
    BY <1>1, <1>4 DEF CountsChain, t, n
  <1>5. CASE CountsChain(s) /\ w.priv.fold # n + 1 /\ n = 0
    <2>1. w.zin # <<>>
      BY <1>2, <1>5
    <2> QED
      BY <2>1, <1>1, <1>5 DEF BrokenChain, t
  <1>6. CASE CountsChain(s) /\ w.priv.fold # n + 1 /\ n # 0
    <2>1. t[n] \in Witnesses /\ Len(t[n].zin) = n - 1
      BY <1>1, <1>6 DEF CountsChain, OpensCount, n
    <2>2. Len(Output(t[n])) = n
      BY <2>1, <1>1, OutputType
    <2>3. Len(w.zin) # n
      BY <1>1, <1>2, <1>6
    <2>4. t[n + 1].zin # Output(t[n])
      BY <2>2, <2>3, <1>1
    <2> QED
      BY <2>4, <1>1, <1>6 DEF BrokenChain, t
  <1> QED
    BY <1>3, <1>4, <1>5, <1>6 DEF t

\* Every action of a prover keeps the counts in order or a chain broken.
LEMMA ProverCountsInv ==
    ASSUME CountsInv, NEW p \in Positions, ProverStep(p)
    PROVE  CountsInv'
  <1>1. TypeOK /\ TypeOK'
    BY ProverTypeOK DEF CountsInv
  <1> USE DEF CountsInv, Goto
  <1>2. CASE StartProver(p) \/ OpenInput(p) \/ WriteInput(p) \/ GeneratorFails(p)
             \/ RemoveInput(p) \/ LoadPanics(p) \/ RemoveWitnessPanics(p)
    BY <1>1, <1>2 DEF TypeOK, StartProver, OpenInput, WriteInput, GeneratorFails,
                      RemoveInput, LoadPanics, RemoveWitnessPanics
  <1>3. CASE GeneratorAccepts(p)
    BY <1>1, <1>3 DEF TypeOK, GeneratorAccepts
  <1>4. CASE GeneratorOpens(p)
    BY <1>1, <1>4 DEF TypeOK, GeneratorOpens, OpenFile
  <1>5. CASE GeneratorWrites(p)
    <2>1. PICK in \in job[p] : wtns' = WriteFile(wtns, p, [zin |-> in.z, priv |-> in.priv])
      BY <1>5 DEF GeneratorWrites
    <2> DEFINE w0 == [zin |-> in.z, priv |-> in.priv]
    <2>2. Accepts(in) /\ OpensCount(w0)
      BY DEF Accepts, OpensCount
    <2>3. wtns'.data \subseteq wtns.data \cup {w0}
      BY <2>1, <1>1 DEF WriteFile, TypeOK, Files, FilesOf
    <2>4. \A w \in wtns'.data : OpensCount(w)
      BY <2>2, <2>3
    <2> QED
      BY <2>4, <1>1, <1>5 DEF TypeOK, GeneratorWrites
  <1>6. CASE GeneratorDies(p)
    <2>1. wtns'.data = wtns.data
      BY <1>1, <1>6 DEF GeneratorDies, CloseFile, TypeOK, Files, FilesOf
    <2> QED
      BY <2>1, <1>1, <1>6 DEF TypeOK, GeneratorDies
  <1>7. CASE LoadWitness(p)
    BY <1>1, <1>7 DEF TypeOK, LoadWitness
  <1>8. CASE NewRecursiveSNARK(p)
    <2>1. PICK w \in loaded[p] : snark' = [snark EXCEPT ![p] = <<w>>]
      BY <1>8 DEF NewRecursiveSNARK
    <2>2. w \in Witnesses /\ OpensCount(w)
      BY <1>1 DEF TypeOK
    <2>3. CountsChain(<<>>) /\ <<>> \in Seq(Witnesses) /\ Append(<<>>, w) = <<w>>
      BY <2>2 DEF CountsChain
    <2>4. CountsChain(<<w>>) \/ BrokenChain(<<w>>)
      BY <2>2, <2>3, CountsGrow
    <2> QED
      BY <2>1, <2>4, <1>1, <1>8 DEF TypeOK, NewRecursiveSNARK
  <1>9. CASE ProveStep(p)
    <2>1. PICK w \in loaded[p] :
              snark' = IF calls[p] = 1 THEN snark ELSE [snark EXCEPT ![p] = Append(@, w)]
      BY <1>9 DEF ProveStep
    <2>2. w \in Witnesses /\ OpensCount(w)
      BY <1>1 DEF TypeOK
    <2>3. \A q \in Positions : CountsChain(snark'[q]) \/ BrokenChain(snark'[q])
      BY <2>1, <2>2, <1>1, CountsGrow DEF TypeOK
    <2>4. \A q \in Positions : pc'[q] = "done" => pc[q] = "done" /\ snark'[q] = snark[q]
      BY <2>1, <1>1, <1>9 DEF TypeOK, ProveStep
    <2> QED
      BY <2>3, <2>4, <1>1, <1>9 DEF TypeOK, ProveStep
  <1>10. CASE RemoveWitness(p)
    <2>1. wtns'.data = {}
      BY <1>10 DEF RemoveWitness, Absent
    <2> QED
      BY <2>1, <1>1, <1>10 DEF TypeOK, RemoveWitness
  <1>11. CASE Verify(p)
    BY <1>1, <1>11 DEF TypeOK, Verify
  <1> QED
    BY <1>2, <1>3, <1>4, <1>5, <1>6, <1>7, <1>8, <1>9, <1>10, <1>11 DEF ProverStep

\* In either mode and with any failures: a witness that does not open its own count
\* never gets into the files, the provers or, unless verify rejects it, the proofs.
THEOREM CountsAreKept == Spec => []CountsInv
  <1>1. Init => CountsInv
    <2> SUFFICES ASSUME Init PROVE CountsInv
      OBVIOUS
    <2>1. \A w \in wtns.data : OpensCount(w)
      <3>1. CASE wtns = Absent
        BY <3>1 DEF Absent
      <3>2. ASSUME NEW w \in Leftover, wtns = [Absent EXCEPT !.exists = TRUE, !.data = {w}]
            PROVE  \A v \in wtns.data : OpensCount(v)
        BY <3>2, ConfigAssumption DEF OpensCount, Absent
      <3> QED
        BY <3>1, <3>2 DEF Init
    <2>2. CountsChain(<<>>)
      BY DEF CountsChain
    <2>3. \A p \in Positions : job[p] = {} /\ loaded[p] = {} /\ snark[p] = <<>> /\ pc[p] = "idle"
      BY DEF Init
    <2> QED
      BY <2>1, <2>2, <2>3, InitTypeOK DEF CountsInv
  <1>2. CountsInv /\ [Next]_vars => CountsInv'
    <2> SUFFICES ASSUME CountsInv, [Next]_vars PROVE CountsInv'
      OBVIOUS
    <2>1. CASE \E p \in Positions : ProverStep(p)
      BY <2>1, ProverCountsInv
    <2>2. CASE UNCHANGED vars
      BY <2>2 DEF CountsInv, TypeOK, vars, Fold
    <2> QED
      BY <2>1, <2>2 DEF Next, Terminated
  <1> QED
    BY <1>1, <1>2, PTL DEF Spec

\* Even when parallel provers fold each other's witnesses, the k-th witness of a
\* verified proof is a k-th fold: the count commitment pins the order down.
THEOREM CountsInOrder == Spec => []VerifiedCountsInOrder
  <1>1. CountsInv => VerifiedCountsInOrder
    BY DEF CountsInv, VerifiedCountsInOrder, CountsChain, BrokenChain, Verifies
  <1> QED
    BY <1>1, CountsAreKept, PTL

---------------------------------------------------------------------------
(* Either mode: what is left in the directory.                             *)

\* The input exists only while some prover is between opening and removing it,
\* the witness only while some prover has not removed it yet.
FilesInUse ==
    /\ input.exists => \E p \in Positions :
          pc[p] \in {"write_input", "run_generator", "open_output", "write_output", "remove_input"}
    /\ wtns.exists => \E p \in Positions : pc[p] \notin {"verify", "done"}

LEMMA ProverFilesInUse ==
    ASSUME TypeOK, FilesInUse, NEW p \in Positions, ProverStep(p)
    PROVE  FilesInUse'
  <1> USE DEF TypeOK, FilesInUse, Goto
  <1>1. CASE StartProver(p) \/ GeneratorAccepts(p) \/ GeneratorFails(p)
    BY <1>1 DEF StartProver, GeneratorAccepts, GeneratorFails
  <1>10. CASE LoadWitness(p) \/ LoadPanics(p) \/ RemoveWitnessPanics(p)
    BY <1>10 DEF LoadWitness, LoadPanics, RemoveWitnessPanics
  <1>11. CASE NewRecursiveSNARK(p)
    BY <1>11 DEF NewRecursiveSNARK
  <1>12. CASE ProveStep(p)
    BY <1>12 DEF ProveStep
  <1>2. CASE OpenInput(p)
    BY <1>2 DEF OpenInput
  <1>3. CASE WriteInput(p)
    <2>1. input'.exists = input.exists
      BY <1>3 DEF WriteInput, WriteFile, Files, FilesOf
    <2> QED
      BY <1>3, <2>1 DEF WriteInput
  <1>4. CASE GeneratorOpens(p)
    BY <1>4 DEF GeneratorOpens
  <1>5. CASE GeneratorWrites(p)
    <2>1. wtns'.exists = wtns.exists
      BY <1>5 DEF GeneratorWrites, WriteFile, Files, FilesOf
    <2> QED
      BY <1>5, <2>1 DEF GeneratorWrites
  <1>6. CASE GeneratorDies(p)
    <2>1. wtns'.exists = wtns.exists
      BY <1>6 DEF GeneratorDies, CloseFile, Files, FilesOf
    <2> QED
      BY <1>6, <2>1 DEF GeneratorDies
  <1>7. CASE RemoveInput(p)
    BY <1>7 DEF RemoveInput, Absent
  <1>8. CASE RemoveWitness(p)
    BY <1>8 DEF RemoveWitness, Absent
  <1>9. CASE Verify(p)
    BY <1>9 DEF Verify
  <1> QED
    BY <1>1, <1>2, <1>3, <1>4, <1>5, <1>6, <1>7, <1>8, <1>9, <1>10, <1>11, <1>12 DEF ProverStep

\* Whatever the mode, the failures and the leftovers: when every proof is done
\* neither file is left for the next run (fs::remove_file of both).
THEOREM DirectoryIsClean ==
    ASSUME PositionTotalNum >= 1
    PROVE  Spec => []LeavesNoFiles
  <1>1. 1 \in Positions
    BY ConfigAssumption DEF Positions
  <1>2. Init => FilesInUse
    <2> SUFFICES ASSUME Init PROVE FilesInUse
      OBVIOUS
    <2>1. pc[1] = "idle" /\ input.exists = FALSE
      BY <1>1 DEF Init, Absent
    <2> QED
      BY <1>1, <2>1 DEF FilesInUse
  <1>3. TypeOK /\ FilesInUse /\ [Next]_vars => FilesInUse'
    <2> SUFFICES ASSUME TypeOK, FilesInUse, [Next]_vars PROVE FilesInUse'
      OBVIOUS
    <2>1. CASE \E p \in Positions : ProverStep(p)
      BY <2>1, ProverFilesInUse
    <2>2. CASE UNCHANGED vars
      BY <2>2 DEF FilesInUse, vars
    <2> QED
      BY <2>1, <2>2 DEF Next, Terminated
  <1>4. FilesInUse => LeavesNoFiles
    BY DEF FilesInUse, LeavesNoFiles
  <1> QED
    BY <1>2, <1>3, <1>4, TypeCorrect, PTL DEF Spec

---------------------------------------------------------------------------
(* One after the other: a reliable position gets through.                  *)

OwnInput(p) == [z |-> z[p], priv |-> PrivateInput(p, Fold(p))]
OwnNext(p) == OwnWitness(p, Fold(p))

\* What a prover none of whose generators fails relies on from step to step: it
\* has folded its own chain as far as its calls say, and each file holds what it
\* or its generator has just put there.
Healthy(p) ==
    /\ pc[p] # "panicked"
    /\ pc[p] = "idle" => calls[p] = 0
    /\ pc[p] \in {"remove_witness", "verify", "done"} => calls[p] = FoldingNum[p] + 1
    /\ z[p] = OwnPrefix(p, Fold(p) - 1)
    /\ Len(snark[p]) = (IF calls[p] = 0 THEN 0 ELSE IF calls[p] = 1 THEN 1 ELSE calls[p] - 1)
    /\ OwnChain(snark[p], p)
    /\ pc[p] = "write_input" => p \in input.writers
    /\ pc[p] = "run_generator" => input.data = {OwnInput(p)}
    /\ pc[p] \in {"open_output", "write_output"} => job[p] = {OwnInput(p)}
    /\ pc[p] = "write_output" => p \in wtns.writers
    /\ pc[p] \in {"remove_input", "load"} => wtns.data = {OwnNext(p)}
    /\ pc[p] = "fold" => loaded[p] = {OwnNext(p)}
    /\ pc[p] \in {"write_output", "remove_input", "load", "fold", "remove_witness"} => wtns.exists

ProgressInv ==
    /\ TypeOK
    /\ OneAtATime
    /\ \A p \in Positions : Reliable(p) => Healthy(p)

\* A step of a prover moves the variables of that prover only.
LEMMA OthersStay ==
    ASSUME TypeOK, NEW p \in Positions, ProverStep(p), NEW q \in Positions, q # p
    PROVE  /\ pc'[q] = pc[q] /\ calls'[q] = calls[q] /\ z'[q] = z[q]
           /\ snark'[q] = snark[q] /\ job'[q] = job[q] /\ loaded'[q] = loaded[q]
  BY DEF TypeOK, ProverStep, Goto, StartProver, OpenInput, WriteInput,
         GeneratorAccepts, GeneratorFails, GeneratorOpens, GeneratorWrites,
         GeneratorDies, RemoveInput, LoadWitness, LoadPanics,
         NewRecursiveSNARK, ProveStep, RemoveWitness, RemoveWitnessPanics, Verify

\* While a prover is under way no other one can take a step.
LEMMA OnlyOneSteps ==
    ASSUME ParallelFlag = FALSE, TypeOK, OneAtATime, NEW p \in Positions, ProverStep(p),
           NEW q \in Positions, q # p
    PROVE  pc[q] \in {"idle", "done"}
  <1>1. pc[p] # "done" /\ (pc[p] = "idle" => Scheduled(p))
    BY DEF ProverStep, Goto, StartProver, OpenInput, WriteInput,
           GeneratorAccepts, GeneratorFails, GeneratorOpens, GeneratorWrites,
           GeneratorDies, RemoveInput, LoadWitness, LoadPanics,
           NewRecursiveSNARK, ProveStep, RemoveWitness, RemoveWitnessPanics, Verify
  <1>2. CASE q < p
    BY <1>1, <1>2 DEF OneAtATime, Scheduled, Positions
  <1>3. CASE p < q
    BY <1>1, <1>3 DEF OneAtATime
  <1> QED
    BY <1>2, <1>3, ConfigAssumption DEF Positions

LEMMA OthersStayHealthy ==
    ASSUME ParallelFlag = FALSE, TypeOK, OneAtATime, NEW p \in Positions, ProverStep(p),
           NEW q \in Positions, q # p, Healthy(q)
    PROVE  Healthy(q)'
  <1>1. pc[q] \in {"idle", "done"}
    BY OnlyOneSteps
  <1>2. Fold(q)' = Fold(q)
    BY OthersStay DEF Fold
  <1> QED
    BY <1>1, <1>2, OthersStay DEF Healthy

\* One more own witness in its place keeps an own chain own.
LEMMA OwnChainGrows ==
    ASSUME NEW p \in Positions, NEW s \in Seq(Witnesses), OwnChain(s, p), NEW w \in Witnesses,
           w = OwnWitness(p, Len(s) + 1)
    PROVE  Append(s, w) \in Seq(Witnesses) /\ OwnChain(Append(s, w), p)
           /\ Len(Append(s, w)) = Len(s) + 1
  BY DEF OwnChain

LEMMA OwnVerifies ==
    ASSUME NEW p \in Positions, NEW n \in Nat \ {0}, NEW s, Len(s) = n, OwnChain(s, p)
    PROVE  Verifies(s, n)
  <1>1. \A k \in 1 .. n : /\ s[k].zin = OwnPrefix(p, k - 1)
                          /\ Output(s[k]) = Append(OwnPrefix(p, k - 1), PrivateInput(p, k))
    BY DEF OwnChain, OwnWitness, Output
  <1>2. s[1].zin = <<>>
    <2>1. 1 \in 1 .. n /\ 1 - 1 = 0 /\ OwnPrefix(p, 0) = <<>>
      BY OwnPrefixes
    <2> QED
      BY <1>1, <2>1
  <1>3. ASSUME NEW k \in 1 .. n - 1
        PROVE  s[k + 1].zin = Output(s[k])
    <2>1. k - 1 \in Nat /\ (k - 1) + 1 = k /\ (k + 1) - 1 = k
          /\ k \in 1 .. n /\ k + 1 \in 1 .. n
      OBVIOUS
    <2>2. Output(s[k]) = OwnPrefix(p, k)
      <3>1. Output(s[k]) = Append(OwnPrefix(p, k - 1), PrivateInput(p, (k - 1) + 1))
        BY <1>1, <2>1
      <3>2. Append(OwnPrefix(p, k - 1), PrivateInput(p, (k - 1) + 1)) = OwnPrefix(p, (k - 1) + 1)
        BY <2>1, OwnPrefixes
      <3> QED
        BY <2>1, <3>1, <3>2
    <2>3. s[k + 1].zin = OwnPrefix(p, k)
      BY <1>1, <2>1
    <2> QED
      BY <2>2, <2>3
  <1>4. \A k \in 1 .. Len(s) - 1 : s[k + 1].zin = Output(s[k])
    BY <1>3
  <1>5. Len(s) >= 1
    OBVIOUS
  <1> QED
    BY <1>2, <1>4, <1>5, Zenon DEF Verifies

\* A reliable prover's own steps: no generator of it fails, nothing panics.
LEMMA StaysHealthy ==
    ASSUME TypeOK, NEW p \in Positions, Reliable(p), Healthy(p), ProverStep(p)
    PROVE  Healthy(p)'
  <1> USE DEF TypeOK, Goto
  <1> DEFINE n == Fold(p)
  <1>1. /\ n \in Nat \ {0} /\ n - 1 \in Nat /\ (n - 1) + 1 = n
        /\ FoldingNum[p] \in Nat \ {0}
        /\ pc[p] \notin OutOfLoop => n <= FoldingNum[p]
    BY ConfigAssumption DEF Fold
  <1>2. pc[p] \notin OutOfLoop => <<p, n>> \notin MayFail
    BY <1>1 DEF Reliable, Positions
  <1>3. /\ Accepts(OwnInput(p)) /\ Len(z[p]) = n - 1
    BY <1>1, OwnPrefixes DEF Healthy, Accepts, OwnInput, PrivateInput
  <1>4. [zin |-> OwnInput(p).z, priv |-> OwnInput(p).priv] = OwnNext(p)
    BY DEF Healthy, OwnInput, OwnNext, OwnWitness
  <1>5. CASE StartProver(p)
    BY <1>5 DEF StartProver, Healthy, Fold, OwnInput, OwnNext
  <1>6. CASE OpenInput(p)
    BY <1>6 DEF OpenInput, OpenFile, Healthy, Fold, OwnInput, OwnNext
  <1>7. CASE WriteInput(p)
    <2>1. input'.data = {OwnInput(p)}
      BY <1>7 DEF WriteInput, WriteFile, Healthy, OwnInput, Files, FilesOf
    <2> QED
      BY <1>7, <2>1 DEF WriteInput, Healthy, Fold, OwnInput, OwnNext
  <1>8. CASE GeneratorAccepts(p)
    <2>1. job'[p] = {OwnInput(p)}
      BY <1>8 DEF GeneratorAccepts, Healthy
    <2> QED
      BY <1>8, <2>1 DEF GeneratorAccepts, Healthy, Fold, OwnInput, OwnNext
  <1>9. CASE GeneratorFails(p)
    <2>1. pc[p] = "run_generator"
      BY <1>9 DEF GeneratorFails
    <2>2. <<p, Fold(p)>> \notin MayFail
      BY <1>2, <2>1 DEF OutOfLoop
    <2>3. input.data = {OwnInput(p)}
      BY <2>1 DEF Healthy
    <2> QED
      BY <1>3, <1>9, <2>2, <2>3 DEF GeneratorFails
  <1>10. CASE GeneratorOpens(p)
    BY <1>10 DEF GeneratorOpens, OpenFile, Healthy, Fold, OwnInput, OwnNext
  <1>11. CASE GeneratorWrites(p)
    <2>1. job[p] = {OwnInput(p)} /\ p \in wtns.writers
      BY <1>11 DEF GeneratorWrites, Healthy
    <2>2. wtns' = WriteFile(wtns, p, OwnNext(p))
      BY <1>4, <1>11, <2>1 DEF GeneratorWrites
    <2>3. wtns'.data = {OwnNext(p)} /\ wtns'.exists = wtns.exists
      BY <2>1, <2>2 DEF WriteFile, Files, FilesOf
    <2> QED
      BY <1>11, <2>3 DEF GeneratorWrites, Healthy, Fold, OwnInput, OwnNext
  <1>12. CASE GeneratorDies(p)
    <2>1. pc[p] = "write_output"
      BY <1>12 DEF GeneratorDies
    <2>2. <<p, Fold(p)>> \notin MayFail
      BY <1>2, <2>1 DEF OutOfLoop
    <2> QED
      BY <1>12, <2>2 DEF GeneratorDies
  <1>13. CASE RemoveInput(p)
    BY <1>13 DEF RemoveInput, Healthy, Fold, OwnInput, OwnNext
  <1>14. CASE LoadWitness(p)
    BY <1>14 DEF LoadWitness, Healthy, Fold, OwnInput, OwnNext
  <1>15. CASE LoadPanics(p)
    <2>1. wtns.data # {}
      BY <1>15 DEF LoadPanics, Healthy
    <2> QED
      BY <1>15, <2>1 DEF LoadPanics
  <1>18. CASE RemoveWitness(p)
    BY <1>18 DEF RemoveWitness, Healthy, Fold, OwnInput, OwnNext
  <1>19. CASE RemoveWitnessPanics(p)
    <2>1. wtns.exists
      BY <1>19 DEF RemoveWitnessPanics, Healthy
    <2> QED
      BY <1>19, <2>1 DEF RemoveWitnessPanics
  <1>20. CASE Verify(p)
    <2>1. pc[p] = "verify" /\ calls[p] = FoldingNum[p] + 1
      BY <1>20 DEF Verify, Healthy
    <2>2. Len(snark[p]) = FoldingNum[p] /\ OwnChain(snark[p], p)
      BY <1>1, <2>1 DEF Healthy
    <2>3. Verifies(snark[p], FoldingNum[p])
      BY <1>1, <2>2, OwnVerifies
    <2>4. pc'[p] = "done"
      BY <1>20, <2>3 DEF Verify
    <2> QED
      BY <1>20, <2>1, <2>4 DEF Verify, Healthy, Fold, OwnInput, OwnNext
  <1>16. CASE NewRecursiveSNARK(p)
    <2>1. pc[p] = "fold" /\ calls[p] = 0 /\ loaded[p] = {OwnNext(p)}
      BY <1>16 DEF NewRecursiveSNARK, Healthy
    <2>2. snark'[p] = <<OwnNext(p)>> /\ calls'[p] = 1 /\ pc'[p] = "open_input"
      BY <1>16, <2>1 DEF NewRecursiveSNARK
    <2>3. Fold(p) = 1 /\ Fold(p)' = 1
      BY <2>1, <2>2 DEF Fold
    <2>4. OwnChain(snark'[p], p) /\ Len(snark'[p]) = 1
      BY <2>2, <2>3 DEF OwnChain, OwnNext
    <2> QED
      BY <1>16, <2>2, <2>3, <2>4 DEF NewRecursiveSNARK, Healthy
  <1>17. CASE ProveStep(p)
    <2>1. pc[p] = "fold" /\ calls[p] > 0 /\ loaded[p] = {OwnNext(p)}
      BY <1>17 DEF ProveStep, Healthy
    <2>2. n = calls[p] /\ calls'[p] = n + 1 /\ Fold(p)' = n + 1
      BY <1>1, <1>17, <2>1 DEF Fold, ProveStep
    <2>3. /\ z'[p] = Output(OwnNext(p))
          /\ snark'[p] = IF n = 1 THEN snark[p] ELSE Append(snark[p], OwnNext(p))
      BY <1>17, <2>1, <2>2 DEF ProveStep
    <2>4. z'[p] = OwnPrefix(p, n)
      <3>1. OwnNext(p).zin = OwnPrefix(p, n - 1) /\ OwnNext(p).priv = PrivateInput(p, n)
        BY DEF OwnNext, OwnWitness
      <3> QED
        BY <1>1, <2>3, <3>1, OwnPrefixes DEF Output
    <2>5. OwnChain(snark'[p], p) /\ Len(snark'[p]) = n
      <3>1. OwnNext(p) \in Witnesses /\ snark[p] \in Seq(Witnesses) /\ OwnChain(snark[p], p)
        BY <2>1 DEF Healthy
      <3>2. CASE n = 1
        BY <2>2, <2>3, <3>1, <3>2 DEF Healthy
      <3>3. CASE n # 1
        <4>1. Len(snark[p]) = n - 1
          BY <1>1, <2>2, <3>3 DEF Healthy
        <4>2. OwnNext(p) = OwnWitness(p, Len(snark[p]) + 1)
          BY <1>1, <4>1 DEF OwnNext
        <4> HIDE DEF n
        <4> QED
          BY <1>1, <2>3, <3>1, <3>3, <4>1, <4>2, OwnChainGrows
      <3> QED
        BY <3>2, <3>3
    <2>6. pc'[p] = IF n = FoldingNum[p] THEN "remove_witness" ELSE "open_input"
      BY <1>17, <2>2 DEF ProveStep
    <2>7. wtns' = wtns /\ wtns.exists
      BY <1>17, <2>1 DEF ProveStep, Healthy
    <2>8. (n + 1) - 1 = n /\ n + 1 # 0
      BY <1>1
    <2> HIDE DEF n
    <2> QED
      BY <1>1, <2>2, <2>4, <2>5, <2>6, <2>7, <2>8 DEF Healthy
  <1> QED
    BY <1>5, <1>6, <1>7, <1>8, <1>9, <1>10, <1>11, <1>12, <1>13, <1>14, <1>15, <1>16, <1>17,
       <1>18, <1>19, <1>20 DEF ProverStep

\* One prover after the other, and whatever witness an earlier run left behind, no
\* position before the first whose generator may fail ever panics: its witness file
\* is there when it loads and when it removes it, and its proof verifies.
THEOREM ReliableProversGetThrough ==
    ASSUME ParallelFlag = FALSE
    PROVE  Spec => []AssertsHold
  <1>1. Init => ProgressInv
    <2> SUFFICES ASSUME Init PROVE ProgressInv
      OBVIOUS
    <2>1. OneAtATime
      BY DEF Init, OneAtATime
    <2>2. ASSUME NEW p \in Positions
          PROVE  Healthy(p)
      <3>1. pc[p] = "idle" /\ calls[p] = 0 /\ z[p] = <<>> /\ snark[p] = <<>>
        BY DEF Init
      <3>2. Fold(p) - 1 = 0 /\ OwnPrefix(p, 0) = <<>>
        BY <3>1, OwnPrefixes DEF Fold
      <3> QED
        BY <3>1, <3>2 DEF Healthy, OwnChain
    <2> QED
      BY <2>1, <2>2, InitTypeOK DEF ProgressInv
  <1>2. ProgressInv /\ [Next]_vars => ProgressInv'
    <2> SUFFICES ASSUME ProgressInv, [Next]_vars PROVE ProgressInv'
      OBVIOUS
    <2>1. CASE \E p \in Positions : ProverStep(p)
      <3>1. PICK p \in Positions : ProverStep(p)
        BY <2>1
      <3>2. TypeOK' /\ OneAtATime'
        BY <3>1, ProverTypeOK, OneAtATimeStep DEF ProgressInv
      <3>3. ASSUME NEW q \in Positions, Reliable(q)
            PROVE  Healthy(q)'
        <4>1. CASE q = p
          BY <3>1, <3>3, <4>1, StaysHealthy DEF ProgressInv
        <4>2. CASE q # p
          BY <3>1, <3>3, <4>2, OthersStayHealthy DEF ProgressInv
        <4> QED
          BY <4>1, <4>2
      <3> QED
        BY <3>2, <3>3 DEF ProgressInv, Reliable
    <2>2. CASE UNCHANGED vars
      BY <2>2 DEF ProgressInv, TypeOK, OneAtATime, Healthy, OwnInput, OwnNext, vars, Fold
    <2> QED
      BY <2>1, <2>2 DEF Next, Terminated
  <1>3. ProgressInv => AssertsHold
    BY DEF ProgressInv, AssertsHold, Healthy
  <1> QED
    BY <1>1, <1>2, <1>3, PTL DEF Spec

---------------------------------------------------------------------------
(* How many steps there are.                                               *)

\* What is left to a prover of a type correct state is a natural number.
LEMMA LeftIsNat ==
    ASSUME TypeOK, NEW p \in Positions
    PROVE  Left(p) \in Nat
  <1>1. /\ calls[p] \in Nat /\ FoldingNum[p] \in Nat
        /\ calls[p] <= FoldingNum[p] + 1
    BY ConfigAssumption DEF TypeOK
  <1>2. StepsLeft[pc[p]] \in Nat
    <2>1. pc[p] \in PcValues
      BY DEF TypeOK
    <2> QED
      BY <2>1 DEF PcValues, StepsLeft
  <1> QED
    BY <1>1, <1>2 DEF Left

\* A step within a call, or after the last, moves the prover on.
LEMMA StepsRunOut ==
    ASSUME TypeOK, NEW p \in Positions, NEW here, NEW there, Goto(p, here, there),
           UNCHANGED calls, StepsLeft[there] < StepsLeft[here],
           StepsLeft[there] \in Nat, StepsLeft[here] \in Nat
    PROVE  Left(p)' < Left(p)
  <1>1. calls[p] \in Nat /\ FoldingNum[p] \in Nat
    BY ConfigAssumption DEF TypeOK
  <1>2. pc[p] = here /\ pc'[p] = there
    BY DEF Goto, TypeOK
  <1>3. /\ Left(p) = 12 * (FoldingNum[p] + 1 - calls[p]) + StepsLeft[here]
        /\ Left(p)' = 12 * (FoldingNum[p] + 1 - calls[p]) + StepsLeft[there]
    BY <1>2 DEF Left, StepsLeft
  <1> QED
    BY <1>1, <1>3

\* A fold ends its call: whatever step comes next, a call fewer is left.
LEMMA CallsRunOut ==
    ASSUME TypeOK, NEW p \in Positions, NEW there \in {"open_input", "remove_witness"},
           Goto(p, "fold", there), calls' = [calls EXCEPT ![p] = calls[p] + 1]
    PROVE  Left(p)' < Left(p)
  <1>1. calls[p] \in Nat /\ FoldingNum[p] \in Nat
    BY ConfigAssumption DEF TypeOK
  <1>2. pc[p] = "fold" /\ pc'[p] = there
    BY DEF Goto, TypeOK
  <1>3. calls'[p] = calls[p] + 1
    BY DEF TypeOK
  <1>4. StepsLeft["fold"] = 3 /\ StepsLeft[there] \in {10, 2}
    BY DEF StepsLeft
  <1>5. /\ Left(p) = 12 * (FoldingNum[p] + 1 - calls[p]) + StepsLeft["fold"]
        /\ Left(p)' = 12 * (FoldingNum[p] + 1 - (calls[p] + 1)) + StepsLeft[there]
    BY <1>2, <1>3 DEF Left, StepsLeft
  <1> QED
    BY <1>1, <1>4, <1>5

\* Every action of a prover brings it nearer its end.
LEMMA ProverRunsOut ==
    ASSUME TypeOK, NEW p \in Positions, ProverStep(p)
    PROVE  Left(p)' < Left(p)
  <1>1. CASE StartProver(p)
    BY <1>1, StepsRunOut DEF StartProver, StepsLeft
  <1>2. CASE OpenInput(p)
    BY <1>2, StepsRunOut DEF OpenInput, StepsLeft
  <1>3. CASE WriteInput(p)
    BY <1>3, StepsRunOut DEF WriteInput, StepsLeft
  <1>4. CASE GeneratorAccepts(p)
    BY <1>4, StepsRunOut DEF GeneratorAccepts, StepsLeft
  <1>5. CASE GeneratorFails(p)
    BY <1>5, StepsRunOut DEF GeneratorFails, StepsLeft
  <1>6. CASE GeneratorOpens(p)
    BY <1>6, StepsRunOut DEF GeneratorOpens, StepsLeft
  <1>7. CASE GeneratorWrites(p)
    BY <1>7, StepsRunOut DEF GeneratorWrites, StepsLeft
  <1>8. CASE GeneratorDies(p)
    BY <1>8, StepsRunOut DEF GeneratorDies, StepsLeft
  <1>9. CASE RemoveInput(p)
    BY <1>9, StepsRunOut DEF RemoveInput, StepsLeft
  <1>10. CASE LoadWitness(p)
    BY <1>10, StepsRunOut DEF LoadWitness, StepsLeft
  <1>11. CASE LoadPanics(p)
    BY <1>11, StepsRunOut DEF LoadPanics, StepsLeft
  <1>12. CASE NewRecursiveSNARK(p)
    <2>1. calls' = [calls EXCEPT ![p] = calls[p] + 1]
      BY <1>12 DEF NewRecursiveSNARK
    <2> QED
      BY <1>12, <2>1, CallsRunOut DEF NewRecursiveSNARK
  <1>13. CASE ProveStep(p)
    BY <1>13, CallsRunOut DEF ProveStep
  <1>14. CASE RemoveWitness(p)
    BY <1>14, StepsRunOut DEF RemoveWitness, StepsLeft
  <1>15. CASE RemoveWitnessPanics(p)
    BY <1>15, StepsRunOut DEF RemoveWitnessPanics, StepsLeft
  <1>16. CASE Verify(p)
    BY <1>16, StepsRunOut DEF Verify, StepsLeft
  <1> QED
    BY <1>1, <1>2, <1>3, <1>4, <1>5, <1>6, <1>7, <1>8, <1>9, <1>10, <1>11,
       <1>12, <1>13, <1>14, <1>15, <1>16 DEF ProverStep

\* In either mode, whatever fails and whatever is left over, a run has at most as
\* many steps as its provers' calls and their steps add up to
\* (create_recursive_circuit, run_all_position_test).
THEOREM StepsAreBounded == Spec => ProversRunOut
  <1>1. TypeOK => \A q \in Positions : Left(q) \in Nat
    BY LeftIsNat
  <1>2. TypeOK' => (\A q \in Positions : Left(q) \in Nat)'
    BY <1>1, PTL
  <1>3. TypeOK /\ TypeOK' /\ [Next]_vars =>
           [/\ \E p \in Positions : Left(p)' < Left(p)
            /\ \A p \in Positions : 0 <= Left(p)' /\ Left(p)' <= Left(p)]_vars
    <2> SUFFICES ASSUME TypeOK, TypeOK', NEW p \in Positions, ProverStep(p)
                 PROVE  /\ \E q \in Positions : Left(q)' < Left(q)
                        /\ \A q \in Positions : 0 <= Left(q)' /\ Left(q)' <= Left(q)
      BY DEF Next, Terminated
    <2>1. Left(p)' < Left(p)
      BY ProverRunsOut
    <2>2. \A q \in Positions : Left(q) \in Nat /\ Left(q)' \in Nat
      BY <1>1, <1>2
    <2>3. \A q \in Positions : q # p => Left(q)' = Left(q)
      BY OthersStay DEF Left
    <2> QED
      BY <2>1, <2>2, <2>3
  <1> QED
    BY TypeCorrect, <1>3, PTL DEF Spec, ProversRunOut
=============================================================================
