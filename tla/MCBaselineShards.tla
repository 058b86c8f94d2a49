------------------------- MODULE MCBaselineShards -------------------------
(* Small instances of BaselineShards. *)
EXTENDS BaselineShards

MCMain == {"main"}
MCRoles == {"main", "recover"}
===========================================================================
