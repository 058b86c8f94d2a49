-------------------------- MODULE WitnessExchange --------------------------
(***************************************************************************)
(* The Nova provers of run_all_position_test (one per watermark position)  *)
(* and the two files they reach the external circom witness generator      *)
(* through: circom_input.json and circom_witness.wtns, both in the current *)
(* directory of the one process that runs every prover.                    *)
(*                                                                         *)
(* What is abstracted.  A private input is named by its position and its   *)
(* fold; the running public input z is the sequence of the private inputs  *)
(* absorbed so far (the digest chain of the step circuit, with a collision *)
(* free hash).  fs::write is the two system calls it makes (open and       *)
(* truncate, then write), and a file keeps the writers whose descriptor    *)
(* still names it, so that a write to an unlinked file goes nowhere.       *)
(* nova-snark and the generator are external: RecursiveSNARK::new performs *)
(* the first fold, the first prove_step adds nothing, prove_step does not  *)
(* check the witness, and verify checks the whole chain.                   *)
(***************************************************************************)
EXTENDS Integers, Sequences, SharedFile

CONSTANTS
    PositionTotalNum,   \* number of positions, hence of provers
    FoldingNum,         \* FoldingNum[p]: folds of the proof of position p
    ParallelFlag,       \* TRUE: rayon into_par_iter; FALSE: one after the other
    MayFail,            \* <<p, k>>: the generator may fail on the k-th fold of p
    Leftover            \* witnesses an earlier, aborted run may have left

Positions == 1..PositionTotalNum

\* The k-th private input of position p.
PrivateInput(p, k) == [pos |-> p, fold |-> k]
PrivateInputs == [pos : Int, fold : Int]

\* What circom_input.json and circom_witness.wtns hold.
Inputs == [z : Seq(PrivateInputs), priv : PrivateInputs]
Witnesses == [zin : Seq(PrivateInputs), priv : PrivateInputs]

\* get_public_outputs: the step circuit's outputs for a witness.
Output(w) == Append(w.zin, w.priv)

ASSUME ConfigAssumption ==
    /\ PositionTotalNum \in Nat
    /\ FoldingNum \in [Positions -> Nat \ {0}]
    /\ ParallelFlag \in BOOLEAN
    /\ Leftover \subseteq Witnesses
    /\ \A w \in Leftover : Len(w.zin) = w.priv.fold - 1

VARIABLES
    pc,         \* pc[p]: where prover p is
    calls,      \* calls[p]: completed calls of compute_witness
    z,          \* z[p]: current_public_input
    loaded,     \* loaded[p]: the witness just loaded, at most one
    snark,      \* snark[p]: the witnesses folded into recursive_snark
    job,        \* job[p]: what the generator of p has parsed, at most one
    input,      \* circom_input.json
    wtns        \* circom_witness.wtns

vars == <<pc, calls, z, loaded, snark, job, input, wtns>>

---------------------------------------------------------------------------
\* Mutant: witness_0 counts as the first round of the loop.
FoldPastBase(p) == calls[p] + 1

\* The private input of the call in progress: witness_0 and the first round of
\* the loop both use private_inputs[0].
Fold(p) == IF calls[p] = 0 THEN 1 ELSE calls[p]

\* The step circuit's assert that the count the private input opens is the one
\* committed in z: every fold adds the same amount.
Accepts(in) == Len(in.z) = in.priv.fold - 1

\* rayon may have every position under way; the sequential iterator starts a
\* position when the one before has returned, and a panic ends the process.
Scheduled(p) == ParallelFlag \/ \A q \in 1..(p - 1) : pc[q] = "done"

\* Mutant: the chain is not checked, only the number of steps.
VerifiesStepsOnly(s, n) == Len(s) = n

\* RecursiveSNARK::verify with folding_num steps from the start input.
Verifies(s, n) ==
    /\ Len(s) = n
    /\ Len(s) >= 1 /\ s[1].zin = <<>>
    /\ \A k \in 1..(Len(s) - 1) : s[k + 1].zin = Output(s[k])

Goto(p, here, there) == pc[p] = here /\ pc' = [pc EXCEPT ![p] = there]

---------------------------------------------------------------------------
Init ==
    /\ pc = [p \in Positions |-> "idle"]
    /\ calls = [p \in Positions |-> 0]
    /\ z = [p \in Positions |-> <<>>]
    /\ loaded = [p \in Positions |-> {}]
    /\ snark = [p \in Positions |-> <<>>]
    /\ job = [p \in Positions |-> {}]
    /\ input = Absent
    /\ wtns \in {Absent} \cup {[Absent EXCEPT !.exists = TRUE, !.data = {w}] : w \in Leftover}

\* create_recursive_circuit is called for position p.
StartProver(p) ==
    /\ Goto(p, "idle", "open_input")
    /\ Scheduled(p)
    /\ UNCHANGED <<calls, z, loaded, snark, job, input, wtns>>

\* fs::write, first half: create or truncate circom_input.json.
OpenInput(p) ==
    /\ Goto(p, "open_input", "write_input")
    /\ input' = OpenFile(input, p)
    /\ UNCHANGED <<calls, z, loaded, snark, job, wtns>>

\* fs::write, second half.
WriteInput(p) ==
    /\ Goto(p, "write_input", "run_generator")
    /\ input' = WriteFile(input, p, [z |-> z[p], priv |-> PrivateInput(p, Fold(p))])
    /\ UNCHANGED <<calls, z, loaded, snark, job, wtns>>

\* The generator parses the file that is there now and the circuit accepts it.
GeneratorAccepts(p) ==
    /\ Goto(p, "run_generator", "open_output")
    /\ \E in \in input.data :
          /\ Accepts(in)
          /\ job' = [job EXCEPT ![p] = {in}]
    /\ UNCHANGED <<calls, z, loaded, snark, input, wtns>>

\* No file, a truncated one, a rejected input or a crash: the generator exits
\* without an output.  Its exit status is never looked at.
GeneratorFails(p) ==
    /\ Goto(p, "run_generator", "remove_input")
    /\ (\A in \in input.data : ~Accepts(in)) \/ <<p, Fold(p)>> \in MayFail
    /\ UNCHANGED <<calls, z, loaded, snark, job, input, wtns>>

GeneratorOpens(p) ==
    /\ Goto(p, "open_output", "write_output")
    /\ wtns' = OpenFile(wtns, p)
    /\ UNCHANGED <<calls, z, loaded, snark, job, input>>

GeneratorWrites(p) ==
    /\ Goto(p, "write_output", "remove_input")
    /\ \E in \in job[p] : wtns' = WriteFile(wtns, p, [zin |-> in.z, priv |-> in.priv])
    /\ job' = [job EXCEPT ![p] = {}]
    /\ UNCHANGED <<calls, z, loaded, snark, input>>

\* It dies after truncating its output.
GeneratorDies(p) ==
    /\ Goto(p, "write_output", "remove_input")
    /\ <<p, Fold(p)>> \in MayFail
    /\ wtns' = CloseFile(wtns, p)
    /\ job' = [job EXCEPT ![p] = {}]
    /\ UNCHANGED <<calls, z, loaded, snark, input>>

\* let _ = fs::remove_file(witness_generator_input).
RemoveInput(p) ==
    /\ Goto(p, "remove_input", "load")
    /\ input' = Absent
    /\ UNCHANGED <<calls, z, loaded, snark, job, wtns>>

\* load_witness_from_file: whatever the path holds.
LoadWitness(p) ==
    /\ Goto(p, "load", "fold")
    /\ wtns.data # {}
    /\ loaded' = [loaded EXCEPT ![p] = wtns.data]
    /\ UNCHANGED <<calls, z, snark, job, input, wtns>>

\* Mutant: a witness that cannot be read is generated again.
LoadRetries(p) ==
    /\ Goto(p, "load", "open_input")
    /\ wtns.data = {}
    /\ UNCHANGED <<calls, z, loaded, snark, job, input, wtns>>

\* "unable to open." / "read witness failed".
LoadPanics(p) ==
    /\ Goto(p, "load", "panicked")
    /\ wtns.data = {}
    /\ UNCHANGED <<calls, z, loaded, snark, job, input, wtns>>

\* RecursiveSNARK::new with witness_0; current_public_input is not moved.
NewRecursiveSNARK(p) ==
    /\ Goto(p, "fold", "open_input")
    /\ calls[p] = 0
    /\ \E w \in loaded[p] : snark' = [snark EXCEPT ![p] = <<w>>]
    /\ calls' = [calls EXCEPT ![p] = 1]
    /\ loaded' = [loaded EXCEPT ![p] = {}]
    /\ UNCHANGED <<z, job, input, wtns>>

\* Mutant: current_public_input is not moved on.
ProveStepKeepsInput(p) ==
    /\ Goto(p, "fold", IF calls[p] = FoldingNum[p] THEN "remove_witness" ELSE "open_input")
    /\ calls[p] > 0
    /\ \E w \in loaded[p] :
          snark' = IF calls[p] = 1 THEN snark ELSE [snark EXCEPT ![p] = Append(@, w)]
    /\ calls' = [calls EXCEPT ![p] = @ + 1]
    /\ loaded' = [loaded EXCEPT ![p] = {}]
    /\ UNCHANGED <<z, job, input, wtns>>

\* Mutant: 0..=iteration_count.
ProveStepOneMore(p) ==
    /\ Goto(p, "fold", IF calls[p] = FoldingNum[p] + 1 THEN "remove_witness" ELSE "open_input")
    /\ calls[p] > 0
    /\ \E w \in loaded[p] :
          /\ z' = [z EXCEPT ![p] = Output(w)]
          /\ snark' = IF calls[p] = 1 THEN snark
                      ELSE [snark EXCEPT ![p] = Append(@, w)]
    /\ calls' = [calls EXCEPT ![p] = @ + 1]
    /\ loaded' = [loaded EXCEPT ![p] = {}]
    /\ UNCHANGED <<job, input, wtns>>

\* One round of the loop; the first prove_step has nothing left to fold.
ProveStep(p) ==
    /\ Goto(p, "fold", IF calls[p] = FoldingNum[p] THEN "remove_witness" ELSE "open_input")
    /\ calls[p] > 0
    /\ \E w \in loaded[p] :
          /\ z' = [z EXCEPT ![p] = Output(w)]
          /\ snark' = IF calls[p] = 1 THEN snark
                      ELSE [snark EXCEPT ![p] = Append(@, w)]
    /\ calls' = [calls EXCEPT ![p] = @ + 1]
    /\ loaded' = [loaded EXCEPT ![p] = {}]
    /\ UNCHANGED <<job, input, wtns>>

\* Mutant: the witness is left in the directory.
KeepWitness(p) ==
    /\ Goto(p, "remove_witness", "verify")
    /\ UNCHANGED <<calls, z, loaded, snark, job, input, wtns>>

\* fs::remove_file(witness_generator_output)?
RemoveWitness(p) ==
    /\ Goto(p, "remove_witness", "verify")
    /\ wtns.exists
    /\ wtns' = Absent
    /\ UNCHANGED <<calls, z, loaded, snark, job, input>>

\* ... whose error the caller unwraps.
RemoveWitnessPanics(p) ==
    /\ Goto(p, "remove_witness", "panicked")
    /\ ~wtns.exists
    /\ UNCHANGED <<calls, z, loaded, snark, job, input, wtns>>

\* recursive_snark.verify and the assertion on its result.
Verify(p) ==
    /\ Goto(p, "verify", IF Verifies(snark[p], FoldingNum[p]) THEN "done" ELSE "panicked")
    /\ UNCHANGED <<calls, z, loaded, snark, job, input, wtns>>

ProverStep(p) ==
    \/ StartProver(p)
    \/ OpenInput(p) \/ WriteInput(p)
    \/ GeneratorAccepts(p) \/ GeneratorFails(p)
    \/ GeneratorOpens(p) \/ GeneratorWrites(p) \/ GeneratorDies(p)
    \/ RemoveInput(p)
    \/ LoadWitness(p) \/ LoadPanics(p)
    \/ NewRecursiveSNARK(p) \/ ProveStep(p)
    \/ RemoveWitness(p) \/ RemoveWitnessPanics(p)
    \/ Verify(p)

\* The process is over: no position is under way and none will start.
Over ==
    \A p \in Positions :
        \/ pc[p] \in {"done", "panicked"}
        \/ pc[p] = "idle" /\ ~ParallelFlag /\ \E q \in Positions : pc[q] = "panicked"

Terminated == Over /\ UNCHANGED vars

Next == (\E p \in Positions : ProverStep(p)) \/ Terminated

Spec == Init /\ [][Next]_vars

\* Each position runs on a thread (or in turn on one thread): it keeps going.
FairSpec == Spec /\ \A p \in Positions : WF_vars(ProverStep(p))

---------------------------------------------------------------------------
PcValues == {"idle", "open_input", "write_input", "run_generator", "open_output",
             "write_output", "remove_input", "load", "fold", "remove_witness",
             "verify", "done", "panicked"}

Files(S) == FilesOf(S, Positions)

\* Where a prover has left the loop over private_inputs.
OutOfLoop == {"remove_witness", "verify", "done", "panicked"}

\* Every variable has its type; a prover in the loop never asks for a private
\* input past the last, a generator holds an input exactly while it produces its
\* output, and a fold has a witness to work on: no prover is ever stuck for one.
TypeOK ==
    /\ pc \in [Positions -> PcValues]
    /\ calls \in [Positions -> Nat]
    /\ \A p \in Positions :
          /\ pc[p] \notin OutOfLoop => Fold(p) <= FoldingNum[p]
          /\ calls[p] <= FoldingNum[p] + 1
          /\ pc[p] \in {"open_output", "write_output"} <=> job[p] # {}
          /\ pc[p] = "fold" <=> loaded[p] # {}
    /\ z \in [Positions -> Seq(PrivateInputs)]
    /\ loaded \in [Positions -> SUBSET Witnesses]
    /\ snark \in [Positions -> Seq(Witnesses)]
    /\ job \in [Positions -> SUBSET Inputs]
    /\ input \in Files(Inputs)
    /\ wtns \in Files(Witnesses)

\* The witness of the k-th fold of position p when nothing went wrong.
OwnPrefix(p, k) == [i \in 1..k |-> PrivateInput(p, i)]
OwnWitness(p, k) == [zin |-> OwnPrefix(p, k - 1), priv |-> PrivateInput(p, k)]

\* A proof that run_all_position_test reports as verified proves exactly the
\* folds of its own position, each once and in order, although the generator's
\* failures go unnoticed and stale witness files are loaded.
VerifiedIsOwn ==
    \A p \in Positions : pc[p] = "done" =>
        /\ Len(snark[p]) = FoldingNum[p]
        /\ \A k \in 1..FoldingNum[p] : snark[p][k] = OwnWitness(p, k)

\* The strengthening that makes VerifiedIsOwn inductive when the positions run
\* one after the other and no earlier run's witness is there.  At most one prover is
\* under way; all it reads and writes is its own; and what it folded is either the
\* chain of its own witnesses or visibly broken, so that verify rejects it.
IsOwnPrefix(s, p) == s = OwnPrefix(p, Len(s))

IsOwnInput(in, p) ==
    /\ IsOwnPrefix(in.z, p)
    /\ in.priv.fold \in Nat \ {0}
    /\ in.priv = PrivateInput(p, in.priv.fold)

IsOwnWitness(w, p) ==
    /\ w.priv.fold \in Nat \ {0}
    /\ w = OwnWitness(p, w.priv.fold)

OwnChain(s, p) == \A k \in 1..Len(s) : s[k] = OwnWitness(p, k)

BrokenChain(s) ==
    \/ Len(s) >= 1 /\ s[1].zin # <<>>
    \/ \E k \in 1..(Len(s) - 1) : s[k + 1].zin # Output(s[k])

OneAtATime ==
    \A p, q \in Positions : p < q /\ pc[q] # "idle" => pc[p] = "done"

FilesAreOwn ==
    /\ \A in \in input.data : \E p \in Positions :
          /\ pc[p] \in {"run_generator", "open_output", "write_output", "remove_input"}
          /\ IsOwnInput(in, p)
    /\ \A w \in wtns.data : \E p \in Positions :
          /\ pc[p] \notin {"idle", "verify", "done"}
          /\ IsOwnWitness(w, p)

ProverIsOwn(p) ==
    /\ IsOwnPrefix(z[p], p)
    /\ \A in \in job[p] : IsOwnInput(in, p) /\ Accepts(in)
    /\ \A w \in loaded[p] : IsOwnWitness(w, p)
    /\ OwnChain(snark[p], p) \/ BrokenChain(snark[p])
    /\ pc[p] = "done" => Verifies(snark[p], FoldingNum[p])

SequentialInv ==
    /\ TypeOK
    /\ OneAtATime
    /\ FilesAreOwn
    /\ \A p \in Positions : ProverIsOwn(p)

\* The same for VerifiedCountsInOrder, in either mode: every witness opens the
\* count that its public input has come to, wherever it is.
OpensCount(w) == Len(w.zin) = w.priv.fold - 1

CountsChain(s) == \A k \in 1..Len(s) : OpensCount(s[k]) /\ s[k].priv.fold = k

CountsInv ==
    /\ TypeOK
    /\ \A w \in wtns.data : OpensCount(w)
    /\ \A p \in Positions :
          /\ \A in \in job[p] : Accepts(in)
          /\ \A w \in loaded[p] : OpensCount(w)
          /\ CountsChain(snark[p]) \/ BrokenChain(snark[p])
          /\ pc[p] = "done" => Verifies(snark[p], FoldingNum[p])

\* Whoever generated them, the folds of a verified proof open the counts in
\* order: its k-th witness is the k-th fold of some position.
VerifiedCountsInOrder ==
    \A p \in Positions : pc[p] = "done" =>
        \A k \in 1..Len(snark[p]) : snark[p][k].priv.fold = k

\* No generator of this position or of one before it fails.
Reliable(p) == \A q \in 1..p : \A k \in 1..FoldingNum[q] : <<q, k>> \notin MayFail

\* One after the other, no assert!(res.is_ok()), unwrap or expect of a prover fails
\* before the first position whose generator may.
AssertsHold == \A p \in Positions : Reliable(p) => pc[p] # "panicked"

\* When every proof is done the current directory is as clean as before: no
\* stale input or witness waits for the next run.
LeavesNoFiles ==
    (\A p \in Positions : pc[p] = "done") => ~input.exists /\ ~wtns.exists

\* How far a prover is from its end: the calls of compute_witness it has left, of
\* at most 12 steps each, and the steps left of this one.
StepsLeft == [idle |-> 11, open_input |-> 10, write_input |-> 9, run_generator |-> 8,
              open_output |-> 7, write_output |-> 6, remove_input |-> 5, load |-> 4,
              fold |-> 3, remove_witness |-> 2, verify |-> 1, done |-> 0, panicked |-> 0]
Left(p) == 12 * (FoldingNum[p] + 1 - calls[p]) + StepsLeft[pc[p]]

\* No step is ever taken again for nothing: whatever generators fail, whatever the
\* provers overwrite or remove of each other's files and in whatever order they run,
\* each step brings one prover nearer its end and none farther from it, so that a
\* run has a bounded number of steps (create_recursive_circuit retries nothing).
ProversRunOut ==
    [][/\ \E p \in Positions : Left(p)' < Left(p)
       /\ \A p \in Positions : 0 <= Left(p)' /\ Left(p)' <= Left(p)]_vars

\* Every position before the first whose generator may fail ends up proved and
\* verified, whatever witness an earlier run left behind.
AllProved == <>(\A p \in Positions : Reliable(p) => pc[p] = "done")

\* Every prover stops, proved or not, unless a panic before it ended the process.
ProverStops == <>[]Over
=============================================================================
