---------------------------- MODULE StepCircuits ----------------------------
(***************************************************************************)
(* A prover of either kind: the program folds the circuit it has loaded    *)
(* (load_r1cs), that of the multi-bit detector or that of the single-bit   *)
(* ones, over the same field and with the same chain of digests.           *)
(***************************************************************************)
EXTENDS PositionDetect, SingleBitDetect

VARIABLE loaded     \* the circuit_filepath the program was started with

ProverInit == Init /\ SingleInit /\ loaded \in {"multi-bit", "single-bit"}

MultiBitStep == loaded = "multi-bit" /\ Next /\ UNCHANGED <<singleVars, loaded>>
SingleBitStep == loaded = "single-bit" /\ SingleNext /\ UNCHANGED <<vars, loaded>>

ProverSpec == ProverInit /\ [][MultiBitStep \/ SingleBitStep]_<<vars, singleVars, loaded>>
=============================================================================
