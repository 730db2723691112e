------------------------- MODULE MCDirectoryImport -------------------------
(* Directory import for TLC. *)
EXTENDS DirectoryImport, TLC

\* One identity to create, one to bring up to date.
CreateAndUpdate == {[i \in Items |-> IF i = 1 THEN "absent" ELSE "stale"]}

=============================================================================
