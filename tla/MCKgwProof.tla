----------------------------- MODULE MCKgwProof -----------------------------
(***************************************************************************)
(* Instance of KgwProof: three tokens, two of them in a sorted list, and a *)
(* field of 13 whose 2^253 is 8 and whose threshold is 3.  Hashes of 0, 1  *)
(* and 2 are green, 3 is the threshold, 5 is neither; 9 folds to green, 11 *)
(* to the threshold, 12 to neither.                                        *)
(***************************************************************************)
EXTENDS KgwProof

MCTokens == {0, 1, 2}

Row(a, b, c) == [t \in MCTokens |-> IF t = 0 THEN a ELSE IF t = 1 THEN b ELSE c]
Table(r0, r1, r2) == [p \in MCTokens |-> IF p = 0 THEN r0 ELSE IF p = 1 THEN r1 ELSE r2]

\* Seed 2 is not folded; seed 10 is, to 2.
MCOracle(three, seed, at2, at10) ==
    [three |-> three, seed |-> seed,
     two   |-> [f \in Field |-> IF f = 2 THEN at2 ELSE IF f = 10 THEN at10 ELSE Row(12, 12, 12)]]

MCOracles ==
    {MCOracle(Table(Row(1, 5, 0), Row(9, 12, 1), Row(3, 2, 5)),
              Row(2, 10, 2), Row(1, 5, 3), Row(5, 1, 9)),
     MCOracle(Table(Row(3, 1, 5), Row(11, 5, 2), Row(5, 1, 1)),
              Row(10, 2, 2), Row(5, 1, 3), Row(1, 11, 9))}

Flags == [twoToOne : BOOLEAN, poseidon2 : BOOLEAN, gpu : BOOLEAN, maskCache : BOOLEAN,
          fused : BOOLEAN, u32 : BOOLEAN, mask : BOOLEAN,
          cacheSize : {1, 2}, rows : {1, 2}]
\* Flags that have no effect are off; a single row goes with the larger cache.
MCEnvs == {e \in Flags : /\ e.gpu => e.poseidon2
                         /\ e.maskCache \/ e.fused => e.gpu
                         /\ ~(e.maskCache /\ e.fused) /\ ~(e.u32 /\ e.mask)
                         /\ e.rows = 1 => e.cacheSize = 2}
=============================================================================
