------------------------- MODULE MCWitnessExchange -------------------------
(* Small instances of WitnessExchange: the number of folds of each position, *)
(* the folds whose generator may fail, and the witness files an earlier      *)
(* aborted run (position 0) may have left in the current directory.          *)
EXTENDS WitnessExchange

MCFoldingNum == <<2, 3, 3>>
MCFoldingNumParallel == <<2, 2>>
MCMayFail == Positions \X (1..3)
MCLastMayFail == {PositionTotalNum} \X (1..3)
MCLeftover == {OwnWitness(0, 1), OwnWitness(0, 2)}
MCNothing == {}
=============================================================================
