----------------------------- MODULE SharedFile -----------------------------
(***************************************************************************)
(* A path that several processes open, write, rename and unlink.  A file   *)
(* is whether the path exists, what it holds (nothing while it is          *)
(* truncated or half written) and who has it open for writing.  A writer   *)
(* whose file was unlinked or replaced meanwhile writes to a file that no  *)
(* path names any more.                                                    *)
(***************************************************************************)

Absent == [exists |-> FALSE, data |-> {}, writers |-> {}]

OpenFile(f, p) == [exists |-> TRUE, data |-> {}, writers |-> f.writers \cup {p}]

WriteFile(f, p, content) ==
    IF p \in f.writers
    THEN [f EXCEPT !.data = {content}, !.writers = @ \ {p}]
    ELSE f

\* The process is gone: its descriptor is closed with whatever was written.
CloseFile(f, p) == [f EXCEPT !.writers = @ \ {p}]

FilesOf(S, P) == [exists : BOOLEAN, data : SUBSET S, writers : SUBSET P]
=============================================================================
