-------------------------- MODULE MCPositionDetect --------------------------
(* Small instances of the step circuits: a field of 11 elements and           *)
(* LessThan(5), as wide over its 4 bits as 255 over 254; hashes on both sides *)
(* of the threshold 5; a map of three pairs, whose tree is filled up, and one *)
(* of four that has the pair of zeros; two tokens to a single-bit fold, whose *)
(* two g-values come of one key.                                              *)
EXTENDS StepCircuits

MCTokens == 0..1
MCNGrams == {1, 2}
MCPositions == 0..2
MCKeys == {"k", "l"}
MCMaps == {<< <<0, 1>>, <<1, 1>>, <<2, 0>> >>, << <<1, 0>>, <<0, 0>>, <<2, 1>>, <<0, 1>> >>}
MCHashOf ==
    [h \in MCKeys \X MCNGrams \X Columns \X MCTokens |->
        (h[2] * 3 + h[3] * 4 + h[4] * 2) % Prime]

MCSeeds == {"s", "t"}
MCWmKeys == {4}
MCGHash == [h \in MCNGrams \X MCTokens \X MCWmKeys |-> (h[1] * 3 + h[2] * 2 + h[3] * 5) % Prime]
=============================================================================
