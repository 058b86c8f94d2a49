-------------------------- MODULE MCContextHistory --------------------------
(* Small instances of ContextHistory: two rows over two words and the end of *)
(* sequence, contexts of two tokens whose hashes lie on both sides of Half   *)
(* and one of which is zero.                                                 *)
EXTENDS ContextHistory

MCBackends == {"tensor", "deque", "ring", "fused"}
MCFused == {"fused"}
MCHashOf == [c \in Contexts |-> (3 * c[1] + c[2] + 6) % 10]
MCMaskHash == [c \in Contexts |-> 3 * c[1] + c[2] + 1]
=============================================================================
