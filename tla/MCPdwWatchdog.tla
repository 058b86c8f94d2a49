--------------------------- MODULE MCPdwWatchdog ---------------------------
(* Small instances of PdwWatchdog. *)
EXTENDS PdwWatchdog

MCRoles == {"main", "recover"}
=============================================================================
