---------------------------- MODULE StageLedger ----------------------------
(***************************************************************************)
(* What the resumable stages of the baseline experiment promise: in every  *)
(* shard and stage each record is computed once, from records its source   *)
(* stage has published, and a stage publishes everything it was asked for, *)
(* once all of it is recorded.  A crash, a re-run and a resumed stage are  *)
(* steps that change none of this.                                         *)
(***************************************************************************)
EXTENDS Integers, FiniteSets

CONSTANTS
    Cells,              \* <<shard, stage>>
    Asked,              \* Asked[c]: the records asked of a cell
    DependsOn(_, _, _)  \* c, k, published: is the source of k published

VARIABLES
    done,       \* done[c]: the records written down
    lines,      \* lines[c]: how many were computed and written down
    published   \* published[c]: the published payload, at most one

vars == <<done, lines, published>>

\* An earlier, smaller run may have left the records it published.
Init ==
    /\ done \in [Cells -> UNION {SUBSET Asked[c] : c \in Cells}]
    /\ lines = [c \in Cells |-> Cardinality(done[c])]
    /\ published \in [Cells -> {{}} \cup {{done[c]} : c \in Cells}]
    /\ \A c \in Cells : done[c] \subseteq Asked[c] /\ published[c] \in {{}, {done[c]}}

\* One record is computed and written down.
Record(c) ==
    /\ \E k \in Asked[c] \ done[c] :
          /\ DependsOn(c, k, published)
          /\ done' = [done EXCEPT ![c] = @ \cup {k}]
    /\ lines' = [lines EXCEPT ![c] = @ + 1]
    /\ UNCHANGED published

\* The stage is complete.
Publish(c) ==
    /\ done[c] = Asked[c]
    /\ published' = [published EXCEPT ![c] = {done[c]}]
    /\ UNCHANGED <<done, lines>>

Next == \E c \in Cells : Record(c) \/ Publish(c)

Spec == Init /\ [][Next]_vars
=============================================================================
